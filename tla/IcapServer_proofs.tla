-------------------------- MODULE IcapServer_proofs --------------------------
(***************************************************************************)
(* Proofs about IcapServer for every finite set of connections and every   *)
(* limit.  The inductive invariant IndInv adds to the checked invariants   *)
(* what makes them inductive: the accept loop has at most one connection   *)
(* in hand, Start runs only while no accept loop or monitor is alive, and  *)
(* the WaitGroup counts exactly the goroutines that are alive.             *)
(***************************************************************************)
EXTENDS IcapServer, FiniteSetTheorems, TLAPS

-----------------------------------------------------------------------------
(* The inductive invariant *)

AcceptLive == IF accPc \in {"select", "accepting", "holding"} THEN 1 ELSE 0

\* Every counter of the server equals the number of connections, or
\* goroutines, that it stands for.
Counting ==
    /\ sem = Cardinality(At(HoldsSlot)) /\ sem <= MaxConnections
    /\ pool = At(InPool)
    /\ active = Cardinality(At(Counted))
    /\ wg = Cardinality(At(InWg)) + (Cardinality(monitors) + AcceptLive)

\* How the program counters of the goroutines depend on each other.
Control ==
    /\ \A c \in Conns : pc[c] \in AcceptPath => accPc = "holding"
    /\ \A c, d \in Conns : pc[c] \in AcceptPath /\ pc[d] \in AcceptPath => c = d
    /\ \A c \in Conns : pc[c] = "busy" => reqs[c] < MaxRequests
    /\ startPc = "listening" => accPc \in {"off", "exited"} /\ monitors = {}
    /\ stopPc \notin {"idle", "returned"} => startPc = "idle"
    /\ stopPc # "idle" => stopChan
    /\ stopPc = "forcing" => forced
    /\ killed # {} => stopChan

\* Once Stop has seen the WaitGroup at zero it stays there until Stop returns.
GracefulWait == (stopPc \in {"poolwait", "flag"} /\ ~forced) => wg = 0

IndInv == /\ TypeOK /\ Counting /\ Control
          /\ GracefulWait /\ ForcedCloseIsReportedAsShutdown

-----------------------------------------------------------------------------
(* How moving one connection changes what At finds *)

\* The connections in given places form a finite set, so they can be counted.
LEMMA AtFinite ==
    ASSUME NEW S
    PROVE  IsFiniteSet(At(S)) /\ Cardinality(At(S)) \in Nat
<1>1. At(S) \subseteq Conns  BY DEF At
<1>2. IsFiniteSet(At(S))
  BY <1>1, ServerAssumption, FS_Subset DEF ServerAssumption
<1> QED  BY <1>2, FS_CardinalityType

\* A connection that enters the places S is counted once more.
LEMMA AtMoveIn ==
    ASSUME NEW c \in Conns, NEW v, NEW S, pc \in [Conns -> PCs],
           pc' = [pc EXCEPT ![c] = v], pc[c] \notin S, v \in S
    PROVE  /\ At(S)' = At(S) \cup {c}
           /\ Cardinality(At(S)') = Cardinality(At(S)) + 1
<1>1. At(S)' = At(S) \cup {c}  BY DEF At
<1>2. c \notin At(S)  BY DEF At
<1> QED  BY <1>1, <1>2, AtFinite, FS_AddElement

\* A connection that leaves the places S is counted once less.
LEMMA AtMoveOut ==
    ASSUME NEW c \in Conns, NEW v, NEW S, pc \in [Conns -> PCs],
           pc' = [pc EXCEPT ![c] = v], pc[c] \in S, v \notin S
    PROVE  /\ At(S)' = At(S) \ {c}
           /\ Cardinality(At(S)') = Cardinality(At(S)) - 1
<1>1. At(S)' = At(S) \ {c}  BY DEF At
<1>2. c \in At(S)  BY DEF At
<1> QED  BY <1>1, <1>2, AtFinite, FS_RemoveElement

\* A connection that moves inside S, or outside of S, leaves At(S) alone.
LEMMA AtStays ==
    ASSUME NEW c \in Conns, NEW v, NEW S, pc \in [Conns -> PCs],
           pc' = [pc EXCEPT ![c] = v], pc[c] \in S <=> v \in S
    PROVE  At(S)' = At(S)
BY DEF At

\* Of two sets of places the larger one has at least as many connections.
LEMMA AtMonotone ==
    ASSUME NEW S, NEW T, S \subseteq T
    PROVE  Cardinality(At(S)) <= Cardinality(At(T))
<1>1. At(S) \subseteq At(T)  BY DEF At
<1> QED  BY <1>1, AtFinite, FS_Subset

-----------------------------------------------------------------------------
(* Counting is kept *)

\* A step that moves a connection between places that no counter tells apart,
\* and touches no counter, keeps Counting.
LEMMA CountingFrame ==
    ASSUME TypeOK, Counting, NEW c \in Conns, NEW v,
           pc' = [pc EXCEPT ![c] = v],
           pc[c] \in HoldsSlot <=> v \in HoldsSlot, pc[c] \in InPool <=> v \in InPool,
           pc[c] \in Counted <=> v \in Counted, pc[c] \in InWg <=> v \in InWg,
           UNCHANGED <<wg, sem, pool, active, monitors>>, AcceptLive' = AcceptLive
    PROVE  Counting'
<1>1. At(HoldsSlot)' = At(HoldsSlot)  BY AtStays DEF TypeOK
<1>2. At(InPool)' = At(InPool)  BY AtStays DEF TypeOK
<1>3. At(Counted)' = At(Counted)  BY AtStays DEF TypeOK
<1>4. At(InWg)' = At(InWg)  BY AtStays DEF TypeOK
<1> QED  BY <1>1, <1>2, <1>3, <1>4 DEF Counting

\* Counting the background goroutines: with TLS there are two, else one, and
\* each that ends is one less.
LEMMA MonitorCounts ==
    /\ Cardinality({}) = 0
    /\ Cardinality({"goroutines"}) = 1
    /\ Cardinality({"goroutines", "tls"}) = 2
    /\ \A M \in SUBSET {"goroutines", "tls"} :
        /\ Cardinality(M) \in Nat
        /\ \A m \in M : Cardinality(M \ {m}) = Cardinality(M) - 1
<1>1. Cardinality({}) = 0 /\ IsFiniteSet({})  BY FS_EmptySet
<1>2. Cardinality({"goroutines"}) = 1 /\ IsFiniteSet({"goroutines"})  BY FS_Singleton
<1>3. {"goroutines", "tls"} = {"goroutines"} \cup {"tls"} /\ "tls" \notin {"goroutines"}  OBVIOUS
<1>4. Cardinality({"goroutines", "tls"}) = 2 /\ IsFiniteSet({"goroutines", "tls"})
  BY <1>2, <1>3, FS_AddElement
<1>5. ASSUME NEW M \in SUBSET {"goroutines", "tls"}
      PROVE  /\ Cardinality(M) \in Nat
             /\ \A m \in M : Cardinality(M \ {m}) = Cardinality(M) - 1
  <2>1. IsFiniteSet(M)  BY <1>4, <1>5, FS_Subset
  <2> QED  BY <2>1, FS_CardinalityType, FS_RemoveElement
<1> QED  BY <1>1, <1>2, <1>4, <1>5

\* The steps of Start, of Stop, of the monitors and of the accept loop's own
\* control keep Counting: they move no connection, and what they add to the
\* WaitGroup is what they start.
LEMMA CountingControlSteps ==
    ASSUME TypeOK, Counting, Control,
           \/ StartClaim \/ StartFail \/ StartServe \/ CancelServerCtx
           \/ AcceptSelect \/ AcceptError \/ StopStep \/ StopCtxExpires
           \/ \E c \in Conns : StopAbort(c)
           \/ \E m \in {"goroutines", "tls"} : MonitorExit(m)
    PROVE  Counting'
<1> DEFINE Background == Cardinality(monitors) + AcceptLive
<1>0. AcceptLive \in Nat /\ Cardinality(monitors) \in Nat
  BY MonitorCounts DEF AcceptLive, TypeOK
<1>1. ASSUME UNCHANGED <<pc, sem, pool, active>>, wg' = wg - Background + Background',
             Background' \in Nat
      PROVE  Counting'
  <2>1. \A S : At(S)' = At(S)  BY <1>1 DEF At
  <2>2. wg' = Cardinality(At(InWg))' + Background'
    BY <1>0, <1>1, <2>1, AtFinite DEF Counting
  <2>3. Background' = Cardinality(monitors)' + AcceptLive'  OBVIOUS
  <2> QED  BY <1>1, <2>1, <2>2, <2>3 DEF Counting
<1>2. CASE UNCHANGED <<pc, wg, sem, pool, active, monitors, accPc>>
  BY <1>0, <1>1, <1>2 DEF AcceptLive, TypeOK
<1>3. CASE StartServe
  <2>1. Background = 0
    BY <1>3, MonitorCounts DEF StartServe, Control, AcceptLive
  <2>2. Background' = IF TLSEnabled THEN 3 ELSE 2
    BY <1>3, MonitorCounts DEF StartServe, AcceptLive
  <2> QED  BY <1>1, <1>3, <2>1, <2>2 DEF StartServe, connVars, TypeOK
<1>4. CASE AcceptSelect \/ AcceptError
  <2>1. UNCHANGED <<pc, sem, pool, active, monitors>>
    BY <1>4 DEF AcceptSelect, AcceptError, connVars
  <2>2. wg' = wg - AcceptLive + AcceptLive' /\ AcceptLive' \in Nat
    BY <1>4 DEF AcceptSelect, AcceptError, AcceptLive, TypeOK
  <2> QED  BY <1>0, <1>1, <2>1, <2>2 DEF TypeOK
<1>5. ASSUME NEW m \in {"goroutines", "tls"}, MonitorExit(m)
      PROVE  Counting'
  <2>1. Cardinality(monitors') = Cardinality(monitors) - 1 /\ Cardinality(monitors') \in Nat
    BY <1>5, MonitorCounts DEF MonitorExit, TypeOK
  <2>2. AcceptLive' = AcceptLive  BY <1>5 DEF MonitorExit, AcceptLive
  <2>3. UNCHANGED <<pc, sem, pool, active>> /\ wg' = wg - 1
    BY <1>5 DEF MonitorExit, connVars
  <2> QED  BY <1>0, <1>1, <2>1, <2>2, <2>3 DEF TypeOK
<1>6. CASE StartClaim \/ StartFail \/ CancelServerCtx
  BY <1>2, <1>6 DEF StartClaim, StartFail, CancelServerCtx, accVars, countVars, connVars
<1>7. CASE StopStep \/ StopCtxExpires
  BY <1>2, <1>7 DEF StopStep, StopSignal, StopCloseListener, StopAllDone, StopForce,
       StopForceDone, StopPoolWait, StopReturn, StopCtxExpires, accVars, countVars, connVars
<1>8. CASE \E c \in Conns : StopAbort(c)
  BY <1>2, <1>8 DEF StopAbort, accVars, countVars
<1> QED  BY <1>3, <1>4, <1>5, <1>6, <1>7, <1>8

\* The steps of one connection keep Counting: each either moves it between
\* places that no counter tells apart, or changes exactly the counter whose
\* places it enters or leaves.
LEMMA CountingConnSteps ==
    ASSUME TypeOK, Counting, Control, NEW c \in Conns,
           Dial(c) \/ AcceptStep(c) \/ LoopTop(c) \/ RequestStep(c) \/ DeferStep(c)
    PROVE  Counting'
<1> USE DEF HoldsSlot, InPool, Counted, InWg, Working, Unwinding
<1>1. pc \in [Conns -> PCs] /\ sem \in Nat /\ active \in Nat /\ wg \in Nat
  BY DEF TypeOK
<1>2. CASE Dial(c) \/ LoopTop(c) \/ RequestStep(c) \/ DeferReason(c) \/ DeferClose(c)
  <2> DEFINE Same(v) == \/ pc[c] = "client" /\ v = "dialled"
                        \/ pc[c] \in Working /\ v \in Working
                        \/ pc[c] \in {"defer", "closing"} /\ v \in {"closing", "remove"}
  <2>1. PICK v : pc' = [pc EXCEPT ![c] = v] /\ Same(v)
    <3>1. CASE Dial(c)  BY <3>1 DEF Dial
    <3>2. CASE LoopTop(c)  BY <3>2 DEF LoopTop
    <3>3. CASE RequestStep(c)
      BY <3>3 DEF RequestStep, RequestBegins, WaitFails, RequestDone, RequestEndsConn, Panic
    <3>4. CASE DeferReason(c) \/ DeferClose(c)  BY <3>4 DEF DeferReason, DeferClose
    <3> QED  BY <1>2, <3>1, <3>2, <3>3, <3>4
  <2>2. UNCHANGED <<wg, sem, pool, active, monitors, accPc>>
    BY <1>2 DEF Dial, LoopTop, RequestStep, RequestBegins, WaitFails, RequestDone,
         RequestEndsConn, Panic, DeferReason, DeferClose, handlerKeeps, accVars, countVars
  <2> QED  BY <2>1, <2>2, CountingFrame DEF AcceptLive
<1>3. CASE AcceptConn(c)
  BY <1>3, CountingFrame DEF AcceptConn, AcceptLive, countVars
<1>4. CASE AcquireSlot(c)
  <2>1. pc' = [pc EXCEPT ![c] = "slotted"] /\ pc[c] = "accepted"  BY <1>4 DEF AcquireSlot
  <2>2. Cardinality(At(HoldsSlot)') = Cardinality(At(HoldsSlot)) + 1
    BY <1>1, <2>1, AtMoveIn
  <2>3. At(InPool)' = At(InPool)  BY <1>1, <2>1, AtStays
  <2>4. At(Counted)' = At(Counted)  BY <1>1, <2>1, AtStays
  <2>5. At(InWg)' = At(InWg)  BY <1>1, <2>1, AtStays
  <2>6. sem' = sem + 1 /\ sem < MaxConnections /\ UNCHANGED <<wg, pool, active, monitors, accPc>>
    BY <1>4 DEF AcquireSlot, accVars
  <2> QED
    BY <1>1, <2>2, <2>3, <2>4, <2>5, <2>6, ServerAssumption DEF Counting, AcceptLive, ServerAssumption
<1>5. CASE Reject(c)
  <2>1. AcceptLive' = AcceptLive
    BY <1>5 DEF Reject, Control, AcceptPath, AcceptLive
  <2> QED  BY <1>5, <2>1, CountingFrame DEF Reject
<1>6. CASE PoolAdd(c)
  <2>1. pc' = [pc EXCEPT ![c] = "pooled"] /\ pc[c] = "slotted"  BY <1>6 DEF PoolAdd
  <2>2. At(HoldsSlot)' = At(HoldsSlot)  BY <1>1, <2>1, AtStays
  <2>3. At(InPool)' = At(InPool) \cup {c}  BY <1>1, <2>1, AtMoveIn
  <2>4. At(Counted)' = At(Counted)  BY <1>1, <2>1, AtStays
  <2>5. At(InWg)' = At(InWg)  BY <1>1, <2>1, AtStays
  <2>6. pool' = pool \cup {c} /\ UNCHANGED <<wg, sem, active, monitors, accPc>>
    BY <1>6 DEF PoolAdd, accVars
  <2> QED  BY <2>2, <2>3, <2>4, <2>5, <2>6 DEF Counting, AcceptLive
<1>7. CASE IncActive(c)
  <2>1. pc' = [pc EXCEPT ![c] = "counted"] /\ pc[c] = "pooled"  BY <1>7 DEF IncActive
  <2>2. At(HoldsSlot)' = At(HoldsSlot)  BY <1>1, <2>1, AtStays
  <2>3. At(InPool)' = At(InPool)  BY <1>1, <2>1, AtStays
  <2>4. Cardinality(At(Counted)') = Cardinality(At(Counted)) + 1  BY <1>1, <2>1, AtMoveIn
  <2>5. At(InWg)' = At(InWg)  BY <1>1, <2>1, AtStays
  <2>6. active' = active + 1 /\ UNCHANGED <<wg, sem, pool, monitors, accPc>>
    BY <1>7 DEF IncActive, accVars
  <2> QED  BY <2>2, <2>3, <2>4, <2>5, <2>6 DEF Counting, AcceptLive
<1>8. CASE SpawnHandler(c)
  <2>1. pc' = [pc EXCEPT ![c] = "loop"] /\ pc[c] = "counted"  BY <1>8 DEF SpawnHandler
  <2>2. At(HoldsSlot)' = At(HoldsSlot)  BY <1>1, <2>1, AtStays
  <2>3. At(InPool)' = At(InPool)  BY <1>1, <2>1, AtStays
  <2>4. At(Counted)' = At(Counted)  BY <1>1, <2>1, AtStays
  <2>5. Cardinality(At(InWg)') = Cardinality(At(InWg)) + 1  BY <1>1, <2>1, AtMoveIn
  <2>6. wg' = wg + 1 /\ UNCHANGED <<sem, pool, active, monitors>>
    BY <1>8 DEF SpawnHandler
  <2>7. AcceptLive' = AcceptLive /\ AcceptLive \in Nat
    BY <1>8 DEF SpawnHandler, Control, AcceptPath, AcceptLive
  <2>8. Cardinality(At(InWg)) \in Nat /\ Cardinality(monitors) \in Nat
    BY AtFinite, MonitorCounts DEF TypeOK
  <2> QED  BY <2>2, <2>3, <2>4, <2>5, <2>6, <2>7, <2>8 DEF Counting
<1>9. CASE DeferRemove(c)
  <2>1. pc' = [pc EXCEPT ![c] = "uncount"] /\ pc[c] = "remove"  BY <1>9 DEF DeferRemove
  <2>2. At(HoldsSlot)' = At(HoldsSlot)  BY <1>1, <2>1, AtStays
  <2>3. At(InPool)' = At(InPool) \ {c}  BY <1>1, <2>1, AtMoveOut
  <2>4. At(Counted)' = At(Counted)  BY <1>1, <2>1, AtStays
  <2>5. At(InWg)' = At(InWg)  BY <1>1, <2>1, AtStays
  <2>6. pool' = pool \ {c} /\ UNCHANGED <<wg, sem, active, monitors, accPc>>
    BY <1>9 DEF DeferRemove, accVars
  <2> QED  BY <2>2, <2>3, <2>4, <2>5, <2>6 DEF Counting, AcceptLive
<1>10. CASE DeferDecActive(c)
  <2>1. pc' = [pc EXCEPT ![c] = "release"] /\ pc[c] = "uncount"  BY <1>10 DEF DeferDecActive
  <2>2. At(HoldsSlot)' = At(HoldsSlot)  BY <1>1, <2>1, AtStays
  <2>3. At(InPool)' = At(InPool)  BY <1>1, <2>1, AtStays
  <2>4. Cardinality(At(Counted)') = Cardinality(At(Counted)) - 1  BY <1>1, <2>1, AtMoveOut
  <2>5. At(InWg)' = At(InWg)  BY <1>1, <2>1, AtStays
  <2>6. active' = active - 1 /\ UNCHANGED <<wg, sem, pool, monitors, accPc>>
    BY <1>10 DEF DeferDecActive, accVars
  <2> QED  BY <2>2, <2>3, <2>4, <2>5, <2>6 DEF Counting, AcceptLive
<1>11. CASE DeferRelease(c)
  <2>1. pc' = [pc EXCEPT ![c] = "waitdone"] /\ pc[c] = "release"  BY <1>11 DEF DeferRelease
  <2>2. Cardinality(At(HoldsSlot)') = Cardinality(At(HoldsSlot)) - 1
    BY <1>1, <2>1, AtMoveOut
  <2>3. At(InPool)' = At(InPool)  BY <1>1, <2>1, AtStays
  <2>4. At(Counted)' = At(Counted)  BY <1>1, <2>1, AtStays
  <2>5. At(InWg)' = At(InWg)  BY <1>1, <2>1, AtStays
  <2>6. sem' = sem - 1 /\ UNCHANGED <<wg, pool, active, monitors, accPc>>
    BY <1>11 DEF DeferRelease, accVars
  <2> QED
    BY <1>1, <2>2, <2>3, <2>4, <2>5, <2>6, ServerAssumption DEF Counting, AcceptLive, ServerAssumption
<1>12. CASE DeferDone(c)
  <2>1. pc' = [pc EXCEPT ![c] = "gone"] /\ pc[c] = "waitdone"  BY <1>12 DEF DeferDone
  <2>2. At(HoldsSlot)' = At(HoldsSlot)  BY <1>1, <2>1, AtStays
  <2>3. At(InPool)' = At(InPool)  BY <1>1, <2>1, AtStays
  <2>4. At(Counted)' = At(Counted)  BY <1>1, <2>1, AtStays
  <2>5. Cardinality(At(InWg)') = Cardinality(At(InWg)) - 1  BY <1>1, <2>1, AtMoveOut
  <2>6. wg' = wg - 1 /\ UNCHANGED <<sem, pool, active, monitors, accPc>>
    BY <1>12 DEF DeferDone, accVars
  <2>7. Cardinality(At(InWg)) \in Nat /\ Cardinality(monitors) \in Nat /\ AcceptLive \in Nat
    BY AtFinite, MonitorCounts DEF TypeOK, AcceptLive
  <2>8. AcceptLive' = AcceptLive  BY <2>6 DEF AcceptLive
  <2> QED  BY <2>2, <2>3, <2>4, <2>5, <2>6, <2>7, <2>8 DEF Counting
<1> QED
  BY <1>2, <1>3, <1>4, <1>5, <1>6, <1>7, <1>8, <1>9, <1>10, <1>11, <1>12
     DEF AcceptStep, DeferStep

-----------------------------------------------------------------------------
(* The remaining parts of the invariant *)

\* The counters stay natural numbers because they are cardinalities: no release
\* takes one below zero.
LEMMA CountersAreNatural ==
    ASSUME Counting', monitors' \in SUBSET {"goroutines", "tls"}
    PROVE  sem' \in Nat /\ active' \in Nat /\ wg' \in Nat /\ pool' \in SUBSET Conns
<1>1. ASSUME NEW S  PROVE Cardinality(At(S)') \in Nat
  <2>1. At(S)' \subseteq Conns  BY DEF At
  <2> QED  BY <2>1, ServerAssumption, FS_Subset, FS_CardinalityType DEF ServerAssumption
<1>2. AcceptLive' \in Nat  BY DEF AcceptLive
<1>3. Cardinality(monitors') \in Nat  BY MonitorCounts
<1>4. At(InPool)' \in SUBSET Conns  BY DEF At
<1>5. sem' \in Nat /\ active' \in Nat  BY <1>1 DEF Counting
<1> QED  BY <1>1, <1>2, <1>3, <1>4, <1>5 DEF Counting

\* Every step keeps the types.
LEMMA TypeStep ==
    ASSUME TypeOK, Control, Counting', Next
    PROVE  TypeOK'
<1>1. monitors' \in SUBSET {"goroutines", "tls"}
        => sem' \in Nat /\ active' \in Nat /\ wg' \in Nat /\ pool' \in SUBSET Conns
  BY CountersAreNatural
<1> USE DEF TypeOK, startVars, accVars, countVars, connVars, stopVars, handlerKeeps
<1>2. CASE StartClaim  BY <1>1, <1>2, ServerAssumption DEF StartClaim, ServerAssumption
<1>3. CASE StartFail
  <2>1. running' \in BOOLEAN /\ startPc' \in {"idle", "listening"}  BY <1>3 DEF StartFail
  <2>2. UNCHANGED <<starts, ctxDone, accVars, countVars, connVars, stopVars>>
    BY <1>3 DEF StartFail
  <2> QED  BY <2>1, <2>2
<1>4. CASE StartServe  BY <1>1, <1>4 DEF StartServe
<1>5. CASE CancelServerCtx  BY <1>1, <1>5 DEF CancelServerCtx
<1>6. CASE AcceptSelect  BY <1>1, <1>6 DEF AcceptSelect
<1>7. CASE AcceptError  BY <1>1, <1>7 DEF AcceptError
<1>8. CASE StopSignal  BY <1>1, <1>8 DEF StopSignal
<1>9. CASE StopCloseListener  BY <1>1, <1>9 DEF StopCloseListener
<1>10. CASE StopAllDone  BY <1>1, <1>10 DEF StopAllDone
<1>11. CASE StopForce  BY <1>1, <1>11 DEF StopForce
<1>12. CASE StopForceDone  BY <1>1, <1>12 DEF StopForceDone
<1>13. CASE StopPoolWait  BY <1>1, <1>13 DEF StopPoolWait
<1>14. CASE StopReturn
  <2>1. running' \in BOOLEAN /\ stopPc' = "returned"  BY <1>14 DEF StopReturn
  <2>2. UNCHANGED <<startPc, starts, ctxDone, accVars, countVars, connVars,
                    stopChan, stopExpired, forceList, forced, killed>>
    BY <1>14 DEF StopReturn
  <2> QED  BY <2>1, <2>2
<1>15. CASE StopCtxExpires  BY <1>1, <1>15 DEF StopCtxExpires
<1>16. ASSUME NEW c \in Conns, Dial(c)  PROVE TypeOK'
  BY <1>1, <1>16 DEF Dial, PCs, AcceptPath, Working, Unwinding, Outside
<1>17. ASSUME NEW c \in Conns, AcceptConn(c)  PROVE TypeOK'
  BY <1>1, <1>17 DEF AcceptConn, PCs, AcceptPath, Working, Unwinding, Outside
<1>18. ASSUME NEW c \in Conns, AcquireSlot(c)  PROVE TypeOK'
  BY <1>1, <1>18 DEF AcquireSlot, PCs, AcceptPath, Working, Unwinding, Outside
<1>19. ASSUME NEW c \in Conns, Reject(c)  PROVE TypeOK'
  BY <1>1, <1>19 DEF Reject, PCs, AcceptPath, Working, Unwinding, Outside
<1>20. ASSUME NEW c \in Conns, PoolAdd(c)  PROVE TypeOK'
  BY <1>1, <1>20 DEF PoolAdd, PCs, AcceptPath, Working, Unwinding, Outside
<1>21. ASSUME NEW c \in Conns, IncActive(c)  PROVE TypeOK'
  BY <1>1, <1>21 DEF IncActive, PCs, AcceptPath, Working, Unwinding, Outside
<1>22. ASSUME NEW c \in Conns, SpawnHandler(c)  PROVE TypeOK'
  BY <1>1, <1>22 DEF SpawnHandler, PCs, AcceptPath, Working, Unwinding, Outside
<1>23. ASSUME NEW c \in Conns, LoopTop(c)  PROVE TypeOK'
  BY <1>1, <1>23 DEF LoopTop, PCs, AcceptPath, Working, Unwinding, Outside, Reasons
<1>24. ASSUME NEW c \in Conns, RequestBegins(c)  PROVE TypeOK'
  BY <1>1, <1>24 DEF RequestBegins, PCs, AcceptPath, Working, Unwinding, Outside
<1>25. ASSUME NEW c \in Conns, WaitFails(c)  PROVE TypeOK'
  BY <1>1, <1>25 DEF WaitFails, PCs, AcceptPath, Working, Unwinding, Outside, Reasons
<1>26. ASSUME NEW c \in Conns, RequestDone(c)  PROVE TypeOK'
  BY <1>1, <1>26, ServerAssumption DEF RequestDone, ServerAssumption, Control, PCs, AcceptPath, Working, Unwinding, Outside
<1>27. ASSUME NEW c \in Conns, RequestEndsConn(c)  PROVE TypeOK'
  <2>1. pc' \in [Conns -> PCs] /\ reason' \in [Conns -> Reasons]
    BY <1>27 DEF RequestEndsConn, PCs, Working, Reasons
  <2>2. sock' \in [Conns -> {"open", "closed"}] /\ abort' \in [Conns -> BOOLEAN]
    BY <1>27 DEF RequestEndsConn
  <2> QED  BY <1>1, <1>27, <2>1, <2>2 DEF RequestEndsConn
<1>28. ASSUME NEW c \in Conns, Panic(c)  PROVE TypeOK'
  BY <1>1, <1>28 DEF Panic, PCs, AcceptPath, Working, Unwinding, Outside, Reasons
<1>29. ASSUME NEW c \in Conns, DeferReason(c)  PROVE TypeOK'
  BY <1>1, <1>29 DEF DeferReason, PCs, AcceptPath, Working, Unwinding, Outside, Reasons
<1>30. ASSUME NEW c \in Conns, DeferClose(c)  PROVE TypeOK'
  BY <1>1, <1>30 DEF DeferClose, PCs, AcceptPath, Working, Unwinding, Outside
<1>31. ASSUME NEW c \in Conns, DeferRemove(c)  PROVE TypeOK'
  BY <1>1, <1>31 DEF DeferRemove, PCs, AcceptPath, Working, Unwinding, Outside
<1>32. ASSUME NEW c \in Conns, DeferDecActive(c)  PROVE TypeOK'
  BY <1>1, <1>32 DEF DeferDecActive, PCs, AcceptPath, Working, Unwinding, Outside
<1>33. ASSUME NEW c \in Conns, DeferRelease(c)  PROVE TypeOK'
  BY <1>1, <1>33 DEF DeferRelease, PCs, AcceptPath, Working, Unwinding, Outside
<1>34. ASSUME NEW c \in Conns, DeferDone(c)  PROVE TypeOK'
  BY <1>1, <1>34 DEF DeferDone, PCs, AcceptPath, Working, Unwinding, Outside
<1>35. ASSUME NEW c \in Conns, StopAbort(c)  PROVE TypeOK'
  BY <1>1, <1>35 DEF StopAbort
<1>36. ASSUME NEW m \in {"goroutines", "tls"}, MonitorExit(m)  PROVE TypeOK'
  BY <1>1, <1>36 DEF MonitorExit
<1> QED
  BY <1>2, <1>3, <1>4, <1>5, <1>6, <1>7, <1>8, <1>9, <1>10, <1>11, <1>12, <1>13,
     <1>14, <1>15, <1>16, <1>17, <1>18, <1>19, <1>20, <1>21, <1>22, <1>23, <1>24,
     <1>25, <1>26, <1>27, <1>28, <1>29, <1>30, <1>31, <1>32, <1>33, <1>34, <1>35,
     <1>36
     DEF Next, AcceptStep, RequestStep, DeferStep, StopStep

\* Every step keeps the relations between the program counters.
LEMMA ControlStep ==
    ASSUME TypeOK, Control, Next
    PROVE  Control'
<1> USE DEF TypeOK, Control, AcceptPath,
            startVars, accVars, countVars, connVars, stopVars, handlerKeeps
<1>2. CASE StartClaim  BY <1>2 DEF StartClaim
<1>3. CASE StartFail  BY <1>3 DEF StartFail
<1>4. CASE StartServe  BY <1>4 DEF StartServe
<1>5. CASE CancelServerCtx  BY <1>5 DEF CancelServerCtx
<1>6. CASE AcceptSelect  BY <1>6 DEF AcceptSelect
<1>7. CASE AcceptError  BY <1>7 DEF AcceptError
<1>8. CASE StopSignal  BY <1>8 DEF StopSignal
<1>9. CASE StopCloseListener  BY <1>9 DEF StopCloseListener
<1>10. CASE StopAllDone  BY <1>10 DEF StopAllDone
<1>11. CASE StopForce  BY <1>11 DEF StopForce
<1>12. CASE StopForceDone  BY <1>12 DEF StopForceDone
<1>13. CASE StopPoolWait  BY <1>13 DEF StopPoolWait
<1>14. CASE StopReturn  BY <1>14 DEF StopReturn
<1>15. CASE StopCtxExpires  BY <1>15 DEF StopCtxExpires
<1>16. ASSUME NEW c \in Conns, Dial(c)  PROVE Control'
  BY <1>16 DEF Dial
<1>17. ASSUME NEW c \in Conns, AcceptConn(c)  PROVE Control'
  BY <1>17 DEF AcceptConn
<1>18. ASSUME NEW c \in Conns, AcquireSlot(c)  PROVE Control'
  BY <1>18 DEF AcquireSlot
<1>19. ASSUME NEW c \in Conns, Reject(c)  PROVE Control'
  BY <1>19 DEF Reject
<1>20. ASSUME NEW c \in Conns, PoolAdd(c)  PROVE Control'
  BY <1>20 DEF PoolAdd
<1>21. ASSUME NEW c \in Conns, IncActive(c)  PROVE Control'
  BY <1>21 DEF IncActive
<1>22. ASSUME NEW c \in Conns, SpawnHandler(c)  PROVE Control'
  BY <1>22 DEF SpawnHandler
<1>23. ASSUME NEW c \in Conns, LoopTop(c)  PROVE Control'
  BY <1>23 DEF LoopTop
<1>24. ASSUME NEW c \in Conns, RequestBegins(c)  PROVE Control'
  BY <1>24 DEF RequestBegins
<1>25. ASSUME NEW c \in Conns, WaitFails(c)  PROVE Control'
  BY <1>25 DEF WaitFails
<1>26. ASSUME NEW c \in Conns, RequestDone(c)  PROVE Control'
  BY <1>26 DEF RequestDone
<1>27. ASSUME NEW c \in Conns, RequestEndsConn(c)  PROVE Control'
  BY <1>27 DEF RequestEndsConn
<1>28. ASSUME NEW c \in Conns, Panic(c)  PROVE Control'
  BY <1>28 DEF Panic
<1>29. ASSUME NEW c \in Conns, DeferReason(c)  PROVE Control'
  BY <1>29 DEF DeferReason
<1>30. ASSUME NEW c \in Conns, DeferClose(c)  PROVE Control'
  BY <1>30 DEF DeferClose
<1>31. ASSUME NEW c \in Conns, DeferRemove(c)  PROVE Control'
  BY <1>31 DEF DeferRemove
<1>32. ASSUME NEW c \in Conns, DeferDecActive(c)  PROVE Control'
  BY <1>32 DEF DeferDecActive
<1>33. ASSUME NEW c \in Conns, DeferRelease(c)  PROVE Control'
  BY <1>33 DEF DeferRelease
<1>34. ASSUME NEW c \in Conns, DeferDone(c)  PROVE Control'
  BY <1>34 DEF DeferDone
<1>35. ASSUME NEW c \in Conns, StopAbort(c)  PROVE Control'
  BY <1>35 DEF StopAbort
<1>36. ASSUME NEW m \in {"goroutines", "tls"}, MonitorExit(m)  PROVE Control'
  BY <1>36 DEF MonitorExit
<1> QED
  BY <1>2, <1>3, <1>4, <1>5, <1>6, <1>7, <1>8, <1>9, <1>10, <1>11, <1>12, <1>13,
     <1>14, <1>15, <1>16, <1>17, <1>18, <1>19, <1>20, <1>21, <1>22, <1>23, <1>24,
     <1>25, <1>26, <1>27, <1>28, <1>29, <1>30, <1>31, <1>32, <1>33, <1>34, <1>35,
     <1>36
     DEF Next, AcceptStep, RequestStep, DeferStep, StopStep

\* When the WaitGroup is at zero nothing of the server is left: its counter
\* covers the handlers, the monitors and the accept loop, and every connection
\* that is pooled, counted or holds a slot belongs to one of them.
LEMMA Quiescent ==
    ASSUME TypeOK, Counting, Control, wg = 0
    PROVE  /\ At(AcceptPath \cup InWg) = {}
           /\ accPc \in {"off", "exited"} /\ monitors = {}
           /\ pool = {} /\ sem = 0 /\ active = 0
<1>1. Cardinality(At(InWg)) = 0 /\ Cardinality(monitors) = 0 /\ AcceptLive = 0
  <2>1. AcceptLive \in Nat /\ Cardinality(monitors) \in Nat /\ Cardinality(At(InWg)) \in Nat
    BY AtFinite, MonitorCounts DEF AcceptLive, TypeOK
  <2> QED  BY <2>1 DEF Counting
<1>2. At(InWg) = {}  BY <1>1, AtFinite, FS_EmptySet
<1>3. monitors = {}
  <2> SUFFICES ASSUME NEW m \in monitors PROVE FALSE  OBVIOUS
  <2>1. Cardinality(monitors \ {m}) = 0 - 1
    BY <1>1, MonitorCounts DEF TypeOK
  <2>2. monitors \ {m} \in SUBSET {"goroutines", "tls"}  BY DEF TypeOK
  <2>3. Cardinality(monitors \ {m}) \in Nat  BY <2>2, MonitorCounts
  <2> QED  BY <2>1, <2>3
<1>4. accPc \in {"off", "exited"}  BY <1>1 DEF AcceptLive, TypeOK
<1>5. At(AcceptPath \cup InWg) = {}
  BY <1>2, <1>4 DEF At, Control
<1>6. ASSUME NEW S, S \subseteq AcceptPath \cup InWg
      PROVE  At(S) = {} /\ Cardinality(At(S)) = 0
  <2>1. At(S) = {}  BY <1>5, <1>6 DEF At
  <2> QED  BY <2>1, FS_EmptySet
<1>7. At(InPool) = {}
  BY <1>6 DEF InPool, AcceptPath, InWg, Working, Unwinding
<1>8. Cardinality(At(HoldsSlot)) = 0
  BY <1>6 DEF HoldsSlot, AcceptPath, InWg, Working, Unwinding
<1>9. Cardinality(At(Counted)) = 0
  BY <1>6 DEF Counted, AcceptPath, InWg, Working, Unwinding
<1> QED  BY <1>3, <1>4, <1>5, <1>7, <1>8, <1>9 DEF Counting

\* Stop's view of the WaitGroup does not go stale: after it has seen zero, no
\* step adds to it, since Start and the accept loop are the only ones that do.
LEMMA GracefulStep ==
    ASSUME TypeOK, Counting, Control, GracefulWait, Next
    PROVE  GracefulWait'
<1> USE DEF GracefulWait, startVars, accVars, countVars, connVars, stopVars, handlerKeeps
<1>1. (stopPc \in {"poolwait", "flag"} /\ ~forced)
        => /\ accPc \in {"off", "exited"} /\ monitors = {} /\ startPc = "idle"
           /\ \A c \in Conns : pc[c] \notin AcceptPath \cup InWg
  BY Quiescent DEF Control, At
<1>2. CASE StartClaim  BY <1>1, <1>2 DEF StartClaim
<1>3. CASE StartFail
  <2>1. running' \in BOOLEAN /\ startPc' \in {"idle", "listening"}  BY <1>3 DEF StartFail
  <2>2. UNCHANGED <<starts, ctxDone, accVars, countVars, connVars, stopVars>>
    BY <1>3 DEF StartFail
  <2> QED  BY <2>1, <2>2
<1>4. CASE StartServe  BY <1>1, <1>4 DEF StartServe
<1>5. CASE CancelServerCtx  BY <1>1, <1>5 DEF CancelServerCtx
<1>6. CASE AcceptSelect  BY <1>1, <1>6 DEF AcceptSelect
<1>7. CASE AcceptError  BY <1>1, <1>7 DEF AcceptError
<1>8. CASE StopSignal  BY <1>1, <1>8 DEF StopSignal
<1>9. CASE StopCloseListener  BY <1>1, <1>9 DEF StopCloseListener
<1>10. CASE StopAllDone  BY <1>1, <1>10 DEF StopAllDone
<1>11. CASE StopForce  BY <1>1, <1>11 DEF StopForce
<1>12. CASE StopForceDone  BY <1>1, <1>12 DEF StopForceDone, Control
<1>13. CASE StopPoolWait  BY <1>1, <1>13 DEF StopPoolWait
<1>14. CASE StopReturn
  <2>1. running' \in BOOLEAN /\ stopPc' = "returned"  BY <1>14 DEF StopReturn
  <2>2. UNCHANGED <<startPc, starts, ctxDone, accVars, countVars, connVars,
                    stopChan, stopExpired, forceList, forced, killed>>
    BY <1>14 DEF StopReturn
  <2> QED  BY <2>1, <2>2
<1>15. CASE StopCtxExpires  BY <1>1, <1>15 DEF StopCtxExpires
<1>16. ASSUME NEW c \in Conns, Dial(c)  PROVE GracefulWait'
  BY <1>1, <1>16 DEF Dial
<1>17. ASSUME NEW c \in Conns, AcceptConn(c)  PROVE GracefulWait'
  BY <1>1, <1>17 DEF AcceptConn
<1>18. ASSUME NEW c \in Conns, AcquireSlot(c)  PROVE GracefulWait'
  BY <1>1, <1>18 DEF AcquireSlot
<1>19. ASSUME NEW c \in Conns, Reject(c)  PROVE GracefulWait'
  BY <1>1, <1>19 DEF Reject
<1>20. ASSUME NEW c \in Conns, PoolAdd(c)  PROVE GracefulWait'
  BY <1>1, <1>20 DEF PoolAdd
<1>21. ASSUME NEW c \in Conns, IncActive(c)  PROVE GracefulWait'
  BY <1>1, <1>21 DEF IncActive
<1>22. ASSUME NEW c \in Conns, SpawnHandler(c)  PROVE GracefulWait'
  BY <1>1, <1>22 DEF SpawnHandler, AcceptPath
<1>23. ASSUME NEW c \in Conns, LoopTop(c)  PROVE GracefulWait'
  BY <1>1, <1>23 DEF LoopTop
<1>24. ASSUME NEW c \in Conns, RequestBegins(c)  PROVE GracefulWait'
  BY <1>1, <1>24 DEF RequestBegins
<1>25. ASSUME NEW c \in Conns, WaitFails(c)  PROVE GracefulWait'
  BY <1>1, <1>25 DEF WaitFails
<1>26. ASSUME NEW c \in Conns, RequestDone(c)  PROVE GracefulWait'
  BY <1>1, <1>26 DEF RequestDone
<1>27. ASSUME NEW c \in Conns, RequestEndsConn(c)  PROVE GracefulWait'
  BY <1>1, <1>27 DEF RequestEndsConn
<1>28. ASSUME NEW c \in Conns, Panic(c)  PROVE GracefulWait'
  BY <1>1, <1>28 DEF Panic
<1>29. ASSUME NEW c \in Conns, DeferReason(c)  PROVE GracefulWait'
  BY <1>1, <1>29 DEF DeferReason
<1>30. ASSUME NEW c \in Conns, DeferClose(c)  PROVE GracefulWait'
  BY <1>1, <1>30 DEF DeferClose
<1>31. ASSUME NEW c \in Conns, DeferRemove(c)  PROVE GracefulWait'
  BY <1>1, <1>31 DEF DeferRemove
<1>32. ASSUME NEW c \in Conns, DeferDecActive(c)  PROVE GracefulWait'
  BY <1>1, <1>32 DEF DeferDecActive
<1>33. ASSUME NEW c \in Conns, DeferRelease(c)  PROVE GracefulWait'
  BY <1>1, <1>33 DEF DeferRelease
<1>34. ASSUME NEW c \in Conns, DeferDone(c)  PROVE GracefulWait'
  BY <1>1, <1>34 DEF DeferDone, InWg, Unwinding
<1>35. ASSUME NEW c \in Conns, StopAbort(c)  PROVE GracefulWait'
  BY <1>1, <1>35 DEF StopAbort
<1>36. ASSUME NEW m \in {"goroutines", "tls"}, MonitorExit(m)  PROVE GracefulWait'
  BY <1>1, <1>36 DEF MonitorExit
<1> QED
  BY <1>2, <1>3, <1>4, <1>5, <1>6, <1>7, <1>8, <1>9, <1>10, <1>11, <1>12, <1>13,
     <1>14, <1>15, <1>16, <1>17, <1>18, <1>19, <1>20, <1>21, <1>22, <1>23, <1>24,
     <1>25, <1>26, <1>27, <1>28, <1>29, <1>30, <1>31, <1>32, <1>33, <1>34, <1>35,
     <1>36
     DEF Next, AcceptStep, RequestStep, DeferStep, StopStep

\* A connection the forced stop closed under its handler keeps a reason that
\* names the shutdown: the stop channel was closed before, and the deferred
\* function looks at it last.
LEMMA ForcedStep ==
    ASSUME TypeOK, Control, ForcedCloseIsReportedAsShutdown, Next
    PROVE  ForcedCloseIsReportedAsShutdown'
<1> USE DEF ForcedCloseIsReportedAsShutdown, TypeOK, Working,
            startVars, accVars, countVars, connVars, stopVars, handlerKeeps
<1>2. CASE StartClaim  BY <1>2 DEF StartClaim
<1>3. CASE StartFail  BY <1>3 DEF StartFail
<1>4. CASE StartServe  BY <1>4 DEF StartServe
<1>5. CASE CancelServerCtx  BY <1>5 DEF CancelServerCtx
<1>6. CASE AcceptSelect  BY <1>6 DEF AcceptSelect
<1>7. CASE AcceptError  BY <1>7 DEF AcceptError
<1>8. CASE StopSignal  BY <1>8 DEF StopSignal
<1>9. CASE StopCloseListener  BY <1>9 DEF StopCloseListener
<1>10. CASE StopAllDone  BY <1>10 DEF StopAllDone
<1>11. CASE StopForce  BY <1>11 DEF StopForce
<1>12. CASE StopForceDone  BY <1>12 DEF StopForceDone
<1>13. CASE StopPoolWait  BY <1>13 DEF StopPoolWait
<1>14. CASE StopReturn  BY <1>14 DEF StopReturn
<1>15. CASE StopCtxExpires  BY <1>15 DEF StopCtxExpires
<1>16. ASSUME NEW c \in Conns, Dial(c)  PROVE ForcedCloseIsReportedAsShutdown'
  BY <1>16 DEF Dial
<1>17. ASSUME NEW c \in Conns, AcceptConn(c)  PROVE ForcedCloseIsReportedAsShutdown'
  BY <1>17 DEF AcceptConn
<1>18. ASSUME NEW c \in Conns, AcquireSlot(c)  PROVE ForcedCloseIsReportedAsShutdown'
  BY <1>18 DEF AcquireSlot
<1>19. ASSUME NEW c \in Conns, Reject(c)  PROVE ForcedCloseIsReportedAsShutdown'
  BY <1>19 DEF Reject
<1>20. ASSUME NEW c \in Conns, PoolAdd(c)  PROVE ForcedCloseIsReportedAsShutdown'
  BY <1>20 DEF PoolAdd
<1>21. ASSUME NEW c \in Conns, IncActive(c)  PROVE ForcedCloseIsReportedAsShutdown'
  BY <1>21 DEF IncActive
<1>22. ASSUME NEW c \in Conns, SpawnHandler(c)  PROVE ForcedCloseIsReportedAsShutdown'
  BY <1>22 DEF SpawnHandler
<1>23. ASSUME NEW c \in Conns, LoopTop(c)  PROVE ForcedCloseIsReportedAsShutdown'
  BY <1>23 DEF LoopTop
<1>24. ASSUME NEW c \in Conns, RequestBegins(c)  PROVE ForcedCloseIsReportedAsShutdown'
  BY <1>24 DEF RequestBegins
<1>25. ASSUME NEW c \in Conns, WaitFails(c)  PROVE ForcedCloseIsReportedAsShutdown'
  BY <1>25 DEF WaitFails
<1>26. ASSUME NEW c \in Conns, RequestDone(c)  PROVE ForcedCloseIsReportedAsShutdown'
  BY <1>26 DEF RequestDone
<1>27. ASSUME NEW c \in Conns, RequestEndsConn(c)  PROVE ForcedCloseIsReportedAsShutdown'
  BY <1>27 DEF RequestEndsConn
<1>28. ASSUME NEW c \in Conns, Panic(c)  PROVE ForcedCloseIsReportedAsShutdown'
  BY <1>28 DEF Panic
<1>29. ASSUME NEW c \in Conns, DeferReason(c)  PROVE ForcedCloseIsReportedAsShutdown'
  BY <1>29 DEF DeferReason, Control
<1>30. ASSUME NEW c \in Conns, DeferClose(c)  PROVE ForcedCloseIsReportedAsShutdown'
  BY <1>30 DEF DeferClose
<1>31. ASSUME NEW c \in Conns, DeferRemove(c)  PROVE ForcedCloseIsReportedAsShutdown'
  BY <1>31 DEF DeferRemove
<1>32. ASSUME NEW c \in Conns, DeferDecActive(c)  PROVE ForcedCloseIsReportedAsShutdown'
  BY <1>32 DEF DeferDecActive
<1>33. ASSUME NEW c \in Conns, DeferRelease(c)  PROVE ForcedCloseIsReportedAsShutdown'
  BY <1>33 DEF DeferRelease
<1>34. ASSUME NEW c \in Conns, DeferDone(c)  PROVE ForcedCloseIsReportedAsShutdown'
  BY <1>34 DEF DeferDone
<1>35. ASSUME NEW c \in Conns, StopAbort(c)  PROVE ForcedCloseIsReportedAsShutdown'
  BY <1>35 DEF StopAbort
<1>36. ASSUME NEW m \in {"goroutines", "tls"}, MonitorExit(m)  PROVE ForcedCloseIsReportedAsShutdown'
  BY <1>36 DEF MonitorExit
<1> QED
  BY <1>2, <1>3, <1>4, <1>5, <1>6, <1>7, <1>8, <1>9, <1>10, <1>11, <1>12, <1>13,
     <1>14, <1>15, <1>16, <1>17, <1>18, <1>19, <1>20, <1>21, <1>22, <1>23, <1>24,
     <1>25, <1>26, <1>27, <1>28, <1>29, <1>30, <1>31, <1>32, <1>33, <1>34, <1>35,
     <1>36
     DEF Next, AcceptStep, RequestStep, DeferStep, StopStep

-----------------------------------------------------------------------------
(* The theorems *)

\* The invariant holds initially: no connection is anywhere yet.
LEMMA InitInv == Init => IndInv
<1> SUFFICES ASSUME Init PROVE IndInv  OBVIOUS
<1>1. ASSUME NEW S, "client" \notin S  PROVE At(S) = {} /\ Cardinality(At(S)) = 0
  <2>1. At(S) = {}  BY <1>1 DEF Init, At
  <2> QED  BY <2>1, FS_EmptySet
<1>2. Counting
  <2>1. Cardinality(At(HoldsSlot)) = 0 /\ At(InPool) = {}
    BY <1>1 DEF HoldsSlot, InPool, Working
  <2>2. Cardinality(At(Counted)) = 0 /\ Cardinality(At(InWg)) = 0
    BY <1>1 DEF Counted, InWg, Working, Unwinding
  <2> QED
    BY <2>1, <2>2, FS_EmptySet, ServerAssumption DEF Init, Counting, AcceptLive, ServerAssumption
<1>3. TypeOK
  <2>1. pc \in [Conns -> PCs]  BY DEF Init, PCs, Outside
  <2>2. reason \in [Conns -> Reasons]  BY DEF Init, Reasons
  <2>3. starts \in 0..MaxStarts /\ reqs \in [Conns -> 0..MaxRequests]
    BY ServerAssumption DEF Init, ServerAssumption
  <2> QED  BY <2>1, <2>2, <2>3 DEF Init, TypeOK
<1>4. Control  BY DEF Init, Control, AcceptPath
<1> QED
  BY <1>2, <1>3, <1>4 DEF IndInv, Init, GracefulWait, ForcedCloseIsReportedAsShutdown

\* Every step of the server keeps the invariant.
LEMMA NextInv == IndInv /\ [Next]_vars => IndInv'
<1> SUFFICES ASSUME IndInv, [Next]_vars PROVE IndInv'  OBVIOUS
<1> USE DEF IndInv
<1>1. CASE Next
  <2>1. Counting'
    BY <1>1, CountingControlSteps, CountingConnSteps DEF Next
  <2>2. TypeOK'  BY <1>1, <2>1, TypeStep
  <2>3. Control'  BY <1>1, ControlStep
  <2>4. GracefulWait'  BY <1>1, GracefulStep
  <2>5. ForcedCloseIsReportedAsShutdown'  BY <1>1, ForcedStep
  <2> QED  BY <2>1, <2>2, <2>3, <2>4, <2>5
<1>2. CASE UNCHANGED vars
  BY <1>2 DEF vars, startVars, accVars, countVars, connVars, stopVars, TypeOK, Counting,
       Control, GracefulWait, ForcedCloseIsReportedAsShutdown, At, AcceptLive
<1> QED  BY <1>1, <1>2

\* The inductive invariant holds in every reachable state.
THEOREM Invariance == Spec => []IndInv
BY InitInv, NextInv, PTL DEF Spec

\* Type correctness; in particular no counter of the server goes below zero.
THEOREM TypeCorrect == Spec => []TypeOK
<1>1. IndInv => TypeOK  BY DEF IndInv
<1> QED  BY <1>1, Invariance, PTL

\* The semaphore counts exactly the connections between admission and release
\* and never exceeds the limit, for any number of connections and any limit.
THEOREM SlotsAreBalanced == Spec => []SlotsBalanced
<1>1. IndInv => SlotsBalanced  BY DEF IndInv, Counting, SlotsBalanced
<1> QED  BY <1>1, Invariance, PTL

\* The connection pool and the gauge of active connections match the admitted
\* connections and stay within the limit.
THEOREM PoolAndGaugeAreExact == Spec => []PoolAndGaugeMatch
<1>1. ASSUME IndInv PROVE PoolAndGaugeMatch
  <2>1. Cardinality(At(InPool)) <= Cardinality(At(HoldsSlot))
    BY AtMonotone DEF InPool, HoldsSlot, Working
  <2>2. Cardinality(At(Counted)) <= Cardinality(At(HoldsSlot))
    BY AtMonotone DEF Counted, HoldsSlot, Working
  <2> QED
    BY <1>1, <2>1, <2>2, AtFinite, ServerAssumption
       DEF IndInv, Counting, PoolAndGaugeMatch, ServerAssumption
<1> QED  BY <1>1, Invariance, PTL

\* A Stop that ends in its graceful branch leaves nothing of the server behind.
THEOREM GracefulStopLeavesNothing == Spec => []GracefulStopIsComplete
<1>1. IndInv => GracefulStopIsComplete
  BY Quiescent DEF IndInv, GracefulWait, GracefulStopIsComplete
<1> QED  BY <1>1, Invariance, PTL

\* A forced close is reported as a shutdown whatever the handler was doing.
THEOREM ForcedCloseReason == Spec => []ForcedCloseIsReportedAsShutdown
<1>1. IndInv => ForcedCloseIsReportedAsShutdown  BY DEF IndInv
<1> QED  BY <1>1, Invariance, PTL

-----------------------------------------------------------------------------
(* The server implements AdmissionControl *)

\* Both modules count with the same Cardinality.
LEMMA SameCardinality == \A S : Admission!Cardinality(S) = Cardinality(S)
BY DEF Cardinality, Admission!Cardinality

\* A step that moves no connection, or moves one between places that the
\* abstraction does not tell apart, is a stuttering step of AdmissionControl.
LEMMA AdmissionStutter ==
    ASSUME TypeOK,
           \/ UNCHANGED pc
           \/ \E c \in Conns, v \in PCs :
                /\ pc' = [pc EXCEPT ![c] = v]
                /\ pc[c] \in HoldsSlot <=> v \in HoldsSlot
                /\ pc[c] = "rejected" <=> v = "rejected"
                /\ pc[c] \in {"waitdone", "gone"} <=> v \in {"waitdone", "gone"}
    PROVE  UNCHANGED Admission!vars
<1>1. CASE UNCHANGED pc  BY <1>1 DEF Admission!vars, At
<1>2. ASSUME NEW c \in Conns, NEW v \in PCs, pc' = [pc EXCEPT ![c] = v],
             pc[c] \in HoldsSlot <=> v \in HoldsSlot,
             pc[c] = "rejected" <=> v = "rejected",
             pc[c] \in {"waitdone", "gone"} <=> v \in {"waitdone", "gone"}
      PROVE  UNCHANGED Admission!vars
  <2>1. At(HoldsSlot)' = At(HoldsSlot)  BY <1>2, AtStays DEF TypeOK
  <2>2. At({"rejected"})' = At({"rejected"})  BY <1>2 DEF TypeOK, At
  <2>3. At({"waitdone", "gone"})' = At({"waitdone", "gone"})  BY <1>2 DEF TypeOK, At
  <2> QED  BY <2>1, <2>2, <2>3 DEF Admission!vars
<1> QED  BY <1>1, <1>2

\* Every step of the server is an admission, a refusal, a release or a
\* stuttering step of AdmissionControl.
LEMMA AdmissionStep ==
    ASSUME IndInv, Next
    PROVE  Admission!Next \/ UNCHANGED Admission!vars
<1> USE DEF IndInv
<1>1. CASE UNCHANGED pc  BY <1>1, AdmissionStutter
<1>2. ASSUME NEW c \in Conns, AcquireSlot(c)  PROVE Admission!Admit(c)
  <2>1. pc' = [pc EXCEPT ![c] = "slotted"] /\ pc[c] = "accepted"  BY <1>2 DEF AcquireSlot
  <2>2. At(HoldsSlot)' = At(HoldsSlot) \cup {c}
    BY <2>1, AtMoveIn DEF TypeOK, HoldsSlot, Working
  <2>3. At({"rejected"})' = At({"rejected"}) /\ At({"waitdone", "gone"})' = At({"waitdone", "gone"})
    BY <2>1 DEF TypeOK, At
  <2>4. c \notin At(HoldsSlot) /\ c \notin At({"rejected"}) /\ c \notin At({"waitdone", "gone"})
    BY <2>1 DEF At, HoldsSlot, Working
  <2>5. Cardinality(At(HoldsSlot)) < MaxConnections  BY <1>2 DEF AcquireSlot, Counting
  <2>6. Admission!Fresh(c)  BY <2>4 DEF Admission!Fresh
  <2> QED  BY <2>2, <2>3, <2>5, <2>6, SameCardinality DEF Admission!Admit
<1>3. ASSUME NEW c \in Conns, Reject(c)  PROVE Admission!Refuse(c)
  <2>1. pc' = [pc EXCEPT ![c] = "rejected"] /\ pc[c] = "accepted"  BY <1>3 DEF Reject
  <2>2. At({"rejected"})' = At({"rejected"}) \cup {c}  BY <2>1 DEF TypeOK, At
  <2>3. At(HoldsSlot)' = At(HoldsSlot)
    BY <2>1, AtStays DEF TypeOK, HoldsSlot, Working
  <2>4. At({"waitdone", "gone"})' = At({"waitdone", "gone"})  BY <2>1 DEF TypeOK, At
  <2>5. c \notin At(HoldsSlot) /\ c \notin At({"rejected"}) /\ c \notin At({"waitdone", "gone"})
    BY <2>1 DEF At, HoldsSlot, Working
  <2>6. Cardinality(At(HoldsSlot)) = MaxConnections
    BY <1>3, ServerAssumption DEF Reject, Counting, TypeOK, ServerAssumption
  <2>7. Admission!Fresh(c)  BY <2>5 DEF Admission!Fresh
  <2> QED  BY <2>2, <2>3, <2>4, <2>6, <2>7, SameCardinality DEF Admission!Refuse
<1>4. ASSUME NEW c \in Conns, DeferRelease(c)  PROVE Admission!Release(c)
  <2>1. pc' = [pc EXCEPT ![c] = "waitdone"] /\ pc[c] = "release"  BY <1>4 DEF DeferRelease
  <2>2. At(HoldsSlot)' = At(HoldsSlot) \ {c} /\ c \in At(HoldsSlot)
    BY <2>1, AtMoveOut DEF TypeOK, HoldsSlot, Working, At
  <2>3. At({"waitdone", "gone"})' = At({"waitdone", "gone"}) \cup {c}  BY <2>1 DEF TypeOK, At
  <2>4. At({"rejected"})' = At({"rejected"})  BY <2>1 DEF TypeOK, At
  <2> QED  BY <2>2, <2>3, <2>4 DEF Admission!Release
<1>5. ASSUME NEW c \in Conns,
             \/ Dial(c) \/ AcceptConn(c) \/ PoolAdd(c) \/ IncActive(c) \/ SpawnHandler(c)
             \/ LoopTop(c) \/ RequestStep(c) \/ DeferReason(c) \/ DeferClose(c)
             \/ DeferRemove(c) \/ DeferDecActive(c) \/ DeferDone(c)
      PROVE  UNCHANGED Admission!vars
  <2> DEFINE Same(v) ==
        \/ pc[c] \in {"client", "dialled"} /\ v \in {"dialled", "accepted"}
        \/ pc[c] \in HoldsSlot /\ v \in HoldsSlot
        \/ pc[c] = "waitdone" /\ v = "gone"
  <2>1. \E v \in PCs : pc' = [pc EXCEPT ![c] = v] /\ Same(v)
    <3> USE DEF HoldsSlot, Working, PCs, AcceptPath, Unwinding, Outside
    <3>1. CASE Dial(c) \/ AcceptConn(c)  BY <3>1 DEF Dial, AcceptConn
    <3>2. CASE PoolAdd(c) \/ IncActive(c) \/ SpawnHandler(c)
      BY <3>2 DEF PoolAdd, IncActive, SpawnHandler
    <3>3. CASE LoopTop(c)  BY <3>3 DEF LoopTop
    <3>4. CASE RequestStep(c)
      BY <3>4 DEF RequestStep, RequestBegins, WaitFails, RequestDone, RequestEndsConn, Panic
    <3>5. CASE DeferReason(c) \/ DeferClose(c) \/ DeferRemove(c) \/ DeferDecActive(c)
      BY <3>5 DEF DeferReason, DeferClose, DeferRemove, DeferDecActive
    <3>6. CASE DeferDone(c)  BY <3>6 DEF DeferDone
    <3> QED  BY <1>5, <3>1, <3>2, <3>3, <3>4, <3>5, <3>6
  <2>2. PICK v \in PCs : pc' = [pc EXCEPT ![c] = v] /\ Same(v)  BY <2>1
  <2>3. /\ pc[c] \in HoldsSlot <=> v \in HoldsSlot
        /\ pc[c] = "rejected" <=> v = "rejected"
        /\ pc[c] \in {"waitdone", "gone"} <=> v \in {"waitdone", "gone"}
    BY <2>2 DEF HoldsSlot, Working
  <2> QED  BY <2>2, <2>3, AdmissionStutter
<1>6. ASSUME NEW c \in Conns, StopAbort(c)  PROVE UNCHANGED pc
  BY <1>6 DEF StopAbort
<1>7. ASSUME NEW m \in {"goroutines", "tls"}, MonitorExit(m)  PROVE UNCHANGED pc
  BY <1>7 DEF MonitorExit, connVars
<1>8. CASE \/ StartClaim \/ StartFail \/ StartServe \/ CancelServerCtx
           \/ AcceptSelect \/ AcceptError \/ StopStep \/ StopCtxExpires
  <2>1. UNCHANGED pc
    BY <1>8 DEF StartClaim, StartFail, StartServe, CancelServerCtx, AcceptSelect, AcceptError,
         StopStep, StopSignal, StopCloseListener, StopAllDone, StopForce, StopForceDone,
         StopPoolWait, StopReturn, StopCtxExpires, connVars
  <2> QED  BY <2>1, <1>1
<1> QED
  BY <1>1, <1>2, <1>3, <1>4, <1>5, <1>6, <1>7, <1>8
     DEF Next, AcceptStep, DeferStep, Admission!Next

\* The accept loop, the semaphore and the handlers' deferred release implement
\* admission control: no connection is admitted over the limit, refused below
\* it, or released twice.
THEOREM ServerImplementsAdmission == Spec => AdmissionSpec
<1>1. Init => Admission!Init
  BY DEF Init, Admission!Init, At, HoldsSlot, Working
<1>2. IndInv /\ [Next]_vars => [Admission!Next]_(Admission!vars)
  <2>1. CASE UNCHANGED vars
    BY <2>1 DEF vars, connVars, Admission!vars, At
  <2> QED  BY <2>1, AdmissionStep
<1> QED  BY <1>1, <1>2, Invariance, PTL DEF Spec, AdmissionSpec, Admission!Spec
=============================================================================
