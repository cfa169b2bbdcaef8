----------------------- MODULE RuntimeManager_proofs -----------------------
(***************************************************************************)
(* Proofs about RuntimeManager for any number of concurrent management     *)
(* requests, scenario sets, configurations and edits of the files.  Three  *)
(* facts carry them: m.mu admits one request at a time to its critical     *)
(* section, so what was checked there still holds when it is applied; the  *)
(* registries are locked in order, so a swap runs with all of them locked; *)
(* and m.cfg, m.sets and the registries change together.                   *)
(***************************************************************************)
EXTENDS RuntimeManager, FiniteSetTheorems, FunctionTheorems, TLAPS

-----------------------------------------------------------------------------
(* The inductive invariant *)

N == Len(SetSeq)

CallRecords ==
    [pc : Pcs, kind : Kinds, path : Paths \cup {NoPath}, new : Configs \cup {Bad},
     built : Seq(Contents), round : 1..2, total : 0..MaxTotal, seen : Seq(Counts)]

Registries == [content : Contents, src : Srcs, gen : Nat]

Managed ==
    /\ cfg \in Configs /\ configPath \in Paths \cup {NoPath}
    /\ spec \in [Sets -> Srcs] /\ mu \in Calls \cup {"free"} /\ api \subseteq Ops
    /\ file \in [Paths -> Configs \cup {Bad}]
    /\ disk \in [Srcs -> [Sets -> Contents \cup {Bad}]]
    /\ swaps \in Nat /\ arrived \in 0..MaxCalls /\ edits \in 0..MaxEdits

Served == active \in [Sets -> Registries]

Published == health \in 0..MaxTotal /\ gauge \in [Sets -> Counts]

Calling == call \in [Calls -> CallRecords]

\* Between locking and releasing m.mu.
InSection == {"build", "wlock", "swap", "wunlock", "commit"}

\* m.mu is held by the call that is in its critical section.
Mutex == \A c \in Calls : mu = c <=> call[c].pc \in InSection

\* What a call has at each of its stages.
Stage(c) ==
    /\ call[c].pc \in {"auth", "allow", "path", "read", "lock"} => call[c].built = <<>>
    /\ call[c].pc \in {"auth", "allow"} /\ call[c].kind = "load" => call[c].path \in Paths
    /\ call[c].pc = "path" => IsConfigCall(c)
    /\ call[c].pc = "read" => call[c].path \in Paths /\ IsConfigCall(c)
    /\ call[c].pc \in {"lock"} \cup InSection /\ IsConfigCall(c) =>
         call[c].path \in Paths /\ call[c].new \in Configs
    /\ call[c].pc \in InSection /\ IsConfigCall(c) => call[c].new.static = cfg.static
    /\ call[c].pc = "configure" => call[c].new \in Configs
    /\ Len(call[c].built) <= N /\ Len(call[c].seen) <= N
    /\ call[c].pc = "build" => Len(call[c].built) < N
    /\ call[c].pc \in {"wlock", "swap"} => Len(call[c].built) = N
    /\ call[c].pc = "tally" => Len(call[c].seen) < N
    /\ call[c].pc = "publish" => Len(call[c].seen) = N

Stages == \A c \in Calls : Stage(c)

\* The first k registries, in the order in which they are locked.
Prefix(k) == {SetSeq[i] : i \in 1..k}

\* The registries are locked in order by the call in the critical section.
Locks ==
    /\ \E k \in 0..N : wlocked = Prefix(k)
    /\ mu = "free" => wlocked = {}
    /\ \A c \in Calls :
        /\ call[c].pc \in {"build", "commit"} => wlocked = {}
        /\ call[c].pc = "wlock" => Cardinality(wlocked) < N
        /\ call[c].pc = "swap" => wlocked = Sets
        /\ call[c].pc = "wunlock" => wlocked # {}

\* m.sets follows m.cfg; the registries follow it except between the swap and
\* the end of the critical section, when they follow the call's configuration.
Sources ==
    /\ \A s \in Sets : spec[s] = cfg.src
    /\ (\A c \in Calls : call[c].pc \notin {"wunlock", "commit"}) =>
         \A s \in Sets : active[s].src = cfg.src
    /\ \A c \in Calls : call[c].pc \in {"wunlock", "commit"} =>
         \A s \in Sets : active[s].src = SourceOf(c, s)

\* All registries are of the last generation.
OneGeneration == \A s \in Sets : active[s].gen = swaps

\* The replacements built so far fit the registries they will replace.
Fitting ==
    \A c \in Calls : call[c].pc \in {"build", "wlock", "swap"} =>
        \A i \in 1..Len(call[c].built) :
            SameTopology(active[SetSeq[i]].content, call[c].built[i])

\* Every swap has its request.
Waiting == {c \in Calls : call[c].pc \in {"auth", "allow", "path", "read", "lock", "build",
                                           "wlock", "swap"}}
SwapsRequested == swaps + Cardinality(Waiting) <= arrived

IndInv == /\ Managed /\ Served /\ Published /\ Calling /\ Mutex /\ Stages /\ Locks
          /\ Sources /\ OneGeneration /\ Fitting /\ SwapsRequested

-----------------------------------------------------------------------------
(* Induction, and what SumOf computes *)

\* Induction up to m, for a set of numbers: if S had 0 and every successor but
\* not m, adding one would map the part of S below m into itself without 0,
\* injectively, which no finite set allows.
LEMMA UpTo ==
    ASSUME NEW m \in Nat, NEW S, 0 \in S, \A n \in Nat : n < m /\ n \in S => n + 1 \in S
    PROVE  m \in S
<1> DEFINE T == {n \in 0..m : n \in S}
<1> SUFFICES ASSUME m \notin S  PROVE FALSE  OBVIOUS
<1>1. IsFiniteSet(0..m)  BY FS_Interval
<1>2. IsFiniteSet(T) /\ 0 \in T  BY <1>1, FS_Subset
<1>3. IsFiniteSet(T \ {0}) /\ Cardinality(T \ {0}) = Cardinality(T) - 1 /\ Cardinality(T) \in Nat
  BY <1>2, FS_RemoveElement, FS_CardinalityType
<1>4. [n \in T |-> n + 1] \in Injection(T, T \ {0})
  <2>1. \A n \in T : n + 1 \in T \ {0}  OBVIOUS
  <2> QED  BY <2>1 DEF Injection, IsInjective
<1>5. Cardinality(T) <= Cardinality(T \ {0})  BY <1>3, <1>4, FS_Injection
<1> QED  BY <1>3, <1>5

\* The recursion of SumOf defines a function.
LEMMA PartialSums ==
    ASSUME NEW q \in Seq(Nat)
    PROVE  \E g : g = [i \in 0..Len(q) |-> IF i = 0 THEN 0 ELSE g[i - 1] + q[i]]
<1> DEFINE Good(n) == \E g : g = [i \in 0..n |-> IF i = 0 THEN 0 ELSE g[i - 1] + q[i]]
           S == {n \in Nat : Good(n)}
<1>1. 0 \in S
  <2> DEFINE z == [i \in 0..0 |-> 0]
  <2>1. z = [i \in 0..0 |-> IF i = 0 THEN 0 ELSE z[i - 1] + q[i]]  OBVIOUS
  <2> QED  BY <2>1
<1>2. ASSUME NEW n \in Nat, n \in S  PROVE n + 1 \in S
  <2>1. PICK g : g = [i \in 0..n |-> IF i = 0 THEN 0 ELSE g[i - 1] + q[i]]  BY <1>2
  <2> DEFINE h == [i \in 0..(n + 1) |-> IF i = n + 1 THEN g[n] + q[n + 1] ELSE g[i]]
  <2>2. h = [i \in 0..(n + 1) |-> IF i = 0 THEN 0 ELSE h[i - 1] + q[i]]
    <3>1. ASSUME NEW i \in 0..(n + 1)  PROVE h[i] = IF i = 0 THEN 0 ELSE h[i - 1] + q[i]
      BY <2>1
    <3> QED  BY <3>1
  <2>3. Good(n + 1)
    <3> HIDE DEF h
    <3> QED  BY <2>2
  <2> HIDE DEF Good
  <2> QED  BY <2>3
<1>3. Len(q) \in S
  <2> HIDE DEF S
  <2> QED  BY <1>1, <1>2, UpTo
<1> QED  BY <1>3

\* The sum of counts is bounded by their number.
LEMMA SumBounded ==
    ASSUME NEW q \in Seq(Nat), NEW m \in Nat, \A i \in 1..Len(q) : q[i] <= m
    PROVE  SumOf(q) \in 0..(Len(q) * m)
<1> DEFINE p == CHOOSE g : g = [i \in 0..Len(q) |-> IF i = 0 THEN 0 ELSE g[i - 1] + q[i]]
           S == {n \in Nat : n <= Len(q) => p[n] \in 0..(n * m)}
<1>1. SumOf(q) = p[Len(q)]  BY DEF SumOf
<1>2. p = [i \in 0..Len(q) |-> IF i = 0 THEN 0 ELSE p[i - 1] + q[i]]  BY PartialSums
<1> HIDE DEF p
<1>3. 0 \in S  BY <1>2
<1>4. ASSUME NEW n \in Nat, n \in S  PROVE n + 1 \in S
  <2> SUFFICES ASSUME n + 1 <= Len(q)  PROVE p[n + 1] \in 0..((n + 1) * m)  OBVIOUS
  <2>1. p[n + 1] = p[n] + q[n + 1]  BY <1>2
  <2>2. (n + 1) * m = n * m + m /\ n * m \in Nat  OBVIOUS
  <2> QED  BY <1>4, <2>1, <2>2
<1>5. Len(q) \in S
  <2> HIDE DEF S
  <2> QED  BY <1>3, <1>4, UpTo
<1> QED  BY <1>1, <1>5

\* The total over all sets is within its bound.
LEMMA TotalBounded ==
    ASSUME NEW q \in Seq(Counts), Len(q) = N
    PROVE  SumOf(q) \in 0..MaxTotal
<1>1. MaxCount \in Nat  BY ManagerAssumption DEF ManagerAssumption
<1>2. q \in Seq(Nat) /\ \A i \in 1..Len(q) : q[i] <= MaxCount  BY <1>1 DEF Counts
<1> QED  BY <1>1, <1>2, SumBounded DEF MaxTotal, N

-----------------------------------------------------------------------------
(* The order of the registries *)

\* SetSeq numbers the sets from 1 to N.
LEMMA Order ==
    /\ N \in Nat \ {0} /\ DOMAIN SetSeq = 1..N /\ SetSeq \in [1..N -> Sets]
    /\ \A s \in Sets : \E j \in 1..N : SetSeq[j] = s
    /\ \A i, j \in 1..N : SetSeq[i] = SetSeq[j] => i = j
<1>1. SetSeq \in Seq(Sets) /\ SetSeq # <<>>  BY ManagerAssumption DEF ManagerAssumption
<1>2. N \in Nat \ {0} /\ DOMAIN SetSeq = 1..N /\ SetSeq \in [1..N -> Sets]  BY <1>1 DEF N
<1>3. \A s \in Sets : \E j \in 1..N : SetSeq[j] = s  BY <1>2 DEF Sets
<1>4. \A i, j \in 1..N : SetSeq[i] = SetSeq[j] => i = j
  BY <1>2, ManagerAssumption DEF ManagerAssumption
<1> QED  BY <1>2, <1>3, <1>4

\* The position of a set, as the code's loops find it.
LEMMA Position ==
    ASSUME NEW s \in Sets
    PROVE  LET j == CHOOSE j \in DOMAIN SetSeq : SetSeq[j] = s
           IN  j \in 1..N /\ SetSeq[j] = s
BY Order

\* The first k registries are k.
LEMMA PrefixCount ==
    ASSUME NEW k \in 0..N
    PROVE  /\ IsFiniteSet(Prefix(k)) /\ Cardinality(Prefix(k)) = k
           /\ Prefix(k) \subseteq Sets /\ (k = N => Prefix(k) = Sets)
           /\ (k = 0 <=> Prefix(k) = {})
<1> DEFINE b == [i \in 1..k |-> SetSeq[i]]
<1>1. 1..k \subseteq 1..N /\ k \in Nat  BY Order
<1>2. b \in Bijection(1..k, Prefix(k))
  BY <1>1, Order DEF Bijection, Injection, Surjection, IsInjective, Prefix
<1>3. Cardinality(Prefix(k)) = k /\ IsFiniteSet(Prefix(k))
  BY <1>1, <1>2, FS_CountingElements, FS_NatBijection DEF ExistsBijection
<1>4. Prefix(k) \subseteq Sets /\ (k = N => Prefix(k) = Sets)  BY <1>1, Order DEF Prefix
<1> QED  BY <1>1, <1>3, <1>4, FS_EmptySet

\* Locking the next registry and unlocking the last one.
LEMMA PrefixNext ==
    ASSUME NEW k \in 0..N
    PROVE  /\ k < N => Prefix(k) \cup {SetSeq[k + 1]} = Prefix(k + 1)
           /\ k > 0 => Prefix(k) \ {SetSeq[k]} = Prefix(k - 1)
<1>1. k < N => Prefix(k) \cup {SetSeq[k + 1]} = Prefix(k + 1)
  <2> SUFFICES ASSUME k < N  PROVE Prefix(k) \cup {SetSeq[k + 1]} = Prefix(k + 1)  OBVIOUS
  <2>1. 1..(k + 1) = 1..k \cup {k + 1}  BY Order
  <2> QED  BY <2>1 DEF Prefix
<1>2. k > 0 => Prefix(k) \ {SetSeq[k]} = Prefix(k - 1)
  <2> SUFFICES ASSUME k > 0  PROVE Prefix(k) \ {SetSeq[k]} = Prefix(k - 1)  OBVIOUS
  <2>1. 1..k = 1..(k - 1) \cup {k}  BY Order
  <2>2. \A i \in 1..(k - 1) : i \in 1..N /\ k \in 1..N /\ i # k  BY Order
  <2>3. \A i \in 1..(k - 1) : SetSeq[i] # SetSeq[k]  BY <2>2, Order
  <2> QED  BY <2>1, <2>3 DEF Prefix
<1> QED  BY <1>1, <1>2

-----------------------------------------------------------------------------
(* Every step keeps each part *)

\* What the assumptions say of one configuration and one content.
LEMMA Values ==
    /\ \A v \in Configs : v.src \in Srcs /\ v.ops \subseteq Ops /\ v # Bad
    /\ \A v \in Contents : v.exact \in BOOLEAN /\ v.count \in Counts /\ v # Bad
    /\ NoPath \notin Paths /\ "free" \notin Calls /\ MaxCalls \in Nat /\ MaxEdits \in Nat
    /\ MaxCount \in Nat /\ MaxTotal \in Nat
<1>1. MaxCount \in Nat /\ N \in Nat  BY ManagerAssumption, Order DEF ManagerAssumption
<1>2. MaxTotal \in Nat  BY <1>1 DEF MaxTotal, N
<1> QED  BY <1>1, <1>2, ManagerAssumption DEF ManagerAssumption, Counts

\* The record of a call that waits or has been answered.
LEMMA IdleIsACall == IdleCall \in CallRecords /\ IdleCall.built = <<>> /\ IdleCall.seen = <<>>
<1>1. MaxTotal \in Nat  BY Values
<1> QED  BY <1>1 DEF IdleCall, CallRecords, Pcs, Kinds

\* A record of a call stays one when its fields are replaced.
LEMMA Fields ==
    ASSUME NEW x \in CallRecords, NEW pc \in Pcs
    PROVE  /\ [x EXCEPT !.pc = pc] \in CallRecords
           /\ \A p \in Paths : [x EXCEPT !.path = p, !.pc = pc] \in CallRecords
           /\ \A v \in Configs : [x EXCEPT !.new = v, !.pc = pc] \in CallRecords
           /\ \A b \in Seq(Contents) : [x EXCEPT !.built = b, !.pc = pc] \in CallRecords
           /\ \A q \in Seq(Counts) : [x EXCEPT !.pc = pc, !.seen = q] \in CallRecords
           /\ \A q \in Seq(Counts), t \in 0..MaxTotal, k \in 1..2 :
                [x EXCEPT !.seen = q, !.total = t, !.round = k, !.pc = pc] \in CallRecords
BY DEF CallRecords

\* Only the call that takes the step changes.
LEMMA Moved ==
    ASSUME Calling, NEW c \in Calls, NEW x \in CallRecords, call' = [call EXCEPT ![c] = x]
    PROVE  Calling' /\ call'[c] = x /\ \A d \in Calls \ {c} : call'[d] = call[d]
BY DEF Calling

\* A call that only goes on.
LEMMA Goes ==
    ASSUME Calling, NEW c \in Calls, NEW pc \in Pcs, Goto(c, pc)
    PROVE  /\ Calling' /\ \A d \in Calls \ {c} : call'[d] = call[d]
           /\ call'[c] = [call[c] EXCEPT !.pc = pc]
           /\ call[c] \in CallRecords /\ call'[c] \in CallRecords
<1>1. call' = [call EXCEPT ![c] = [call[c] EXCEPT !.pc = pc]]  BY DEF Goto
<1>2. call[c] \in CallRecords /\ [call[c] EXCEPT !.pc = pc] \in CallRecords
  BY Fields DEF Calling
<1> QED  BY <1>1, <1>2, Moved

\* A call that is answered.
LEMMA Answered ==
    ASSUME Calling, NEW c \in Calls, Answer(c)
    PROVE  Calling' /\ call'[c] = IdleCall /\ \A d \in Calls \ {c} : call'[d] = call[d]
BY IdleIsACall, Moved DEF Answer

\* The types of the manager, the API state and the files.
LEMMA ManagedStep ==
    ASSUME Managed, Calling, Stages, Next
    PROVE  Managed'
<1>1. ASSUME UNCHANGED <<cfg, configPath, spec, mu, api, file, disk, swaps, arrived, edits>>
      PROVE  Managed'
  BY <1>1 DEF Managed
<1> USE DEF mgrVars, regVars, pubVars, envVars
<1>2. ASSUME NEW c \in Calls, NEW kind \in Kinds, NEW p \in Paths, Arrive(c, kind, p)
      PROVE  Managed'
  BY <1>2, Values DEF Arrive, At, Managed
<1>3. ASSUME NEW c \in Calls, Authenticate(c)  PROVE Managed'
  BY <1>1, <1>3 DEF Authenticate, At, Answer, Goto
<1>4. ASSUME NEW c \in Calls, Allow(c)  PROVE Managed'
  BY <1>1, <1>4 DEF Allow, At, Answer, Goto
<1>5. ASSUME NEW c \in Calls, ReadCurrentPath(c)  PROVE Managed'
  BY <1>1, <1>5 DEF ReadCurrentPath, At, Answer
<1>6. ASSUME NEW c \in Calls, LoadAndValidate(c)  PROVE Managed'
  BY <1>1, <1>6 DEF LoadAndValidate, At, Answer
<1>7. ASSUME NEW c \in Calls, LockForReload(c)  PROVE Managed'
  BY <1>7 DEF LockForReload, At, Goto, Managed
<1>8. ASSUME NEW c \in Calls, LockForConfig(c)  PROVE Managed'
  BY <1>8 DEF LockForConfig, At, Answer, Goto, Managed
<1>9. ASSUME NEW c \in Calls, BuildReplacement(c)  PROVE Managed'
  BY <1>9 DEF BuildReplacement, At, Answer, Managed
<1>10. ASSUME NEW c \in Calls, LockRegistry(c)  PROVE Managed'
  BY <1>1, <1>10 DEF LockRegistry, At, Goto
<1>11. ASSUME NEW c \in Calls, SwapRegistries(c)  PROVE Managed'
  BY <1>11 DEF SwapRegistries, At, Goto, Managed
<1>12. ASSUME NEW c \in Calls, UnlockRegistry(c)  PROVE Managed'
  BY <1>1, <1>12 DEF UnlockRegistry, At, Goto
<1>13. ASSUME NEW c \in Calls, CommitReload(c)  PROVE Managed'
  BY <1>13 DEF CommitReload, At, Goto, Managed
<1>14. ASSUME NEW c \in Calls, CommitConfig(c)  PROVE Managed'
  BY <1>14, Values
     DEF CommitConfig, At, Goto, Managed, Calling, CallRecords, Stages, Stage, InSection,
         SourceOf
<1>15. ASSUME NEW c \in Calls, Configure(c)  PROVE Managed'
  BY <1>15, Values DEF Configure, At, Goto, Managed, Calling, CallRecords, Stages, Stage
<1>16. ASSUME NEW c \in Calls, CopySets(c)  PROVE Managed'  BY <1>1, <1>16 DEF CopySets, At
<1>17. ASSUME NEW c \in Calls, TallySet(c)  PROVE Managed'  BY <1>1, <1>17 DEF TallySet, At
<1>18. ASSUME NEW c \in Calls, Publish(c)  PROVE Managed'
  BY <1>1, <1>18 DEF Publish, At, Answer
<1>19. ASSUME NEW p \in Paths, NEW v \in Configs \cup {Bad}, EditConfigFile(p, v)
      PROVE  Managed'
  BY <1>19, Values DEF EditConfigFile, Managed
<1>20. ASSUME NEW d \in Srcs, NEW s \in Sets, NEW v \in Contents \cup {Bad}, EditScenarios(d, s, v)
      PROVE  Managed'
  BY <1>20, Values DEF EditScenarios, Managed
<1> QED
  BY <1>2, <1>3, <1>4, <1>5, <1>6, <1>7, <1>8, <1>9, <1>10, <1>11, <1>12, <1>13, <1>14,
     <1>15, <1>16, <1>17, <1>18, <1>19, <1>20
     DEF Next, CallStep

\* The registries hold loaded contents.
LEMMA ServedStep ==
    ASSUME Managed, Calling, Stages, Served, Next
    PROVE  Served'
<1>1. ASSUME UNCHANGED <<active>>
      PROVE  Served'
  BY <1>1 DEF Served
<1> USE DEF mgrVars, regVars, pubVars, envVars
<1>2. ASSUME NEW c \in Calls, NEW kind \in Kinds, NEW p \in Paths, Arrive(c, kind, p)
      PROVE  Served'
  BY <1>1, <1>2 DEF Arrive, At
<1>3. ASSUME NEW c \in Calls, Authenticate(c)  PROVE Served'
  BY <1>1, <1>3 DEF Authenticate, At, Answer, Goto
<1>4. ASSUME NEW c \in Calls, Allow(c)  PROVE Served'
  BY <1>1, <1>4 DEF Allow, At, Answer, Goto
<1>5. ASSUME NEW c \in Calls, ReadCurrentPath(c)  PROVE Served'
  BY <1>1, <1>5 DEF ReadCurrentPath, At, Answer
<1>6. ASSUME NEW c \in Calls, LoadAndValidate(c)  PROVE Served'
  BY <1>1, <1>6 DEF LoadAndValidate, At, Answer
<1>7. ASSUME NEW c \in Calls, LockForReload(c)  PROVE Served'
  BY <1>1, <1>7 DEF LockForReload, At, Goto
<1>8. ASSUME NEW c \in Calls, LockForConfig(c)  PROVE Served'
  BY <1>1, <1>8 DEF LockForConfig, At, Answer, Goto
<1>9. ASSUME NEW c \in Calls, BuildReplacement(c)  PROVE Served'
  BY <1>1, <1>9 DEF BuildReplacement, At, Answer
<1>10. ASSUME NEW c \in Calls, LockRegistry(c)  PROVE Served'
  BY <1>1, <1>10 DEF LockRegistry, At, Goto
<1>11. ASSUME NEW c \in Calls, SwapRegistries(c)  PROVE Served'
  <2>1. Len(call[c].built) = N /\ call[c].built \in Seq(Contents)
    BY <1>11 DEF SwapRegistries, At, Stages, Stage, Calling, CallRecords
  <2>2. ASSUME NEW s \in Sets  PROVE SourceOf(c, s) \in Srcs
    BY <1>11, Values DEF SwapRegistries, At, SourceOf, Stages, Stage, InSection, Managed
  <2>3. ASSUME NEW s \in Sets
        PROVE  call[c].built[CHOOSE j \in DOMAIN SetSeq : SetSeq[j] = s] \in Contents
    BY <2>1, Position
  <2>4. swaps + 1 \in Nat  BY DEF Managed
  <2> HIDE DEF SwapRegistries
  <2>5. ASSUME NEW s \in Sets  PROVE active'[s] \in Registries
    BY <1>11, <2>2, <2>3, <2>4 DEF SwapRegistries, Registries
  <2>6. active' = [s \in Sets |-> active'[s]]  BY <1>11 DEF SwapRegistries
  <2> QED  BY <2>5, <2>6 DEF Served
<1>12. ASSUME NEW c \in Calls, UnlockRegistry(c)  PROVE Served'
  BY <1>1, <1>12 DEF UnlockRegistry, At, Goto
<1>13. ASSUME NEW c \in Calls, CommitReload(c)  PROVE Served'
  BY <1>1, <1>13 DEF CommitReload, At, Goto
<1>14. ASSUME NEW c \in Calls, CommitConfig(c)  PROVE Served'
  BY <1>1, <1>14 DEF CommitConfig, At, Goto
<1>15. ASSUME NEW c \in Calls, Configure(c)  PROVE Served'
  BY <1>1, <1>15 DEF Configure, At, Goto
<1>16. ASSUME NEW c \in Calls, CopySets(c)  PROVE Served'  BY <1>1, <1>16 DEF CopySets, At
<1>17. ASSUME NEW c \in Calls, TallySet(c)  PROVE Served'  BY <1>1, <1>17 DEF TallySet, At
<1>18. ASSUME NEW c \in Calls, Publish(c)  PROVE Served'
  BY <1>1, <1>18 DEF Publish, At, Answer
<1>19. ASSUME NEW p \in Paths, NEW v \in Configs \cup {Bad}, EditConfigFile(p, v)
      PROVE  Served'
  BY <1>1, <1>19 DEF EditConfigFile
<1>20. ASSUME NEW d \in Srcs, NEW s \in Sets, NEW v \in Contents \cup {Bad}, EditScenarios(d, s, v)
      PROVE  Served'
  BY <1>1, <1>20 DEF EditScenarios
<1> QED
  BY <1>2, <1>3, <1>4, <1>5, <1>6, <1>7, <1>8, <1>9, <1>10, <1>11, <1>12, <1>13, <1>14,
     <1>15, <1>16, <1>17, <1>18, <1>19, <1>20
     DEF Next, CallStep

\* A replacement is built and checked.
Builds(c) ==
    LET done == call[c].built
        s    == SetSeq[Len(done) + 1]
        v    == LoadSource(c, s)
    IN  /\ v # Bad /\ SameTopology(active[s].content, v)
        /\ call' = [call EXCEPT ![c].built = Append(done, v),
                       ![c].pc = IF Len(done) + 1 = Len(SetSeq) THEN "wlock" ELSE "build"]
        /\ mu' = mu

\* A replacement that is built is a content loaded from the right source.
LEMMA Built ==
    ASSUME Managed, Calling, Stages, NEW c \in Calls,
           call[c].pc = "build", Builds(c)
    PROVE  LET k == Len(call[c].built) + 1
               v == LoadSource(c, SetSeq[k])
           IN  /\ k \in 1..N /\ call[c].built \in Seq(Contents)
               /\ v \in Contents /\ SameTopology(active[SetSeq[k]].content, v)
               /\ Append(call[c].built, v) \in Seq(Contents)
               /\ call'[c] = [call[c] EXCEPT !.built = Append(call[c].built, v),
                                             !.pc = IF k = N THEN "wlock" ELSE "build"]
               /\ Calling' /\ \A d \in Calls \ {c} : call'[d] = call[d]
<1> DEFINE k == Len(call[c].built) + 1
           v == LoadSource(c, SetSeq[k])
           pc == IF k = N THEN "wlock" ELSE "build"
<1>1. /\ v # Bad /\ SameTopology(active[SetSeq[k]].content, v)
      /\ call' = [call EXCEPT ![c] = [call[c] EXCEPT !.built = Append(call[c].built, v), !.pc = pc]]
  BY DEF Builds, N
<1>2. k \in 1..N /\ call[c].built \in Seq(Contents) /\ call[c] \in CallRecords
  BY Order DEF Calling, CallRecords, Stages, Stage
<1>3. SetSeq[k] \in Sets  BY <1>2, Order
<1>4. SourceOf(c, SetSeq[k]) \in Srcs
  BY <1>3, Values DEF SourceOf, Stages, Stage, InSection, Managed
<1>5. v \in Contents
  <2>1. v \in Contents \cup {Bad}  BY <1>3, <1>4 DEF LoadSource, Managed
  <2> QED  BY <1>1, <2>1
<1>6. pc \in Pcs  BY DEF Pcs
<1> HIDE DEF v, k, pc
<1>7. Append(call[c].built, v) \in Seq(Contents)  BY <1>2, <1>5
<1>8. [call[c] EXCEPT !.built = Append(call[c].built, v), !.pc = pc] \in CallRecords
  BY <1>2, <1>6, <1>7, Fields
<1>9. /\ call'[c] = [call[c] EXCEPT !.built = Append(call[c].built, v), !.pc = pc]
      /\ Calling' /\ \A d \in Calls \ {c} : call'[d] = call[d]
  BY <1>1, <1>8, Moved
<1> QED  BY <1>1, <1>2, <1>5, <1>7, <1>9 DEF v, k, pc

\* A set that is counted adds a count.
LEMMA Tallied ==
    ASSUME Managed, Calling, Stages, Served, NEW c \in Calls, TallySet(c)
    PROVE  LET k == Len(call[c].seen) + 1
               seen == Append(call[c].seen, active[SetSeq[k]].content.count)
           IN  /\ k \in 1..N /\ seen \in Seq(Counts) /\ Len(seen) = k
               /\ health' \in {health, SumOf(seen)} /\ (health' = health \/ k = N)
               /\ \E t \in 0..MaxTotal, j \in 1..2, pc \in {"tally", "count", "publish"} :
                    /\ (pc = "tally" <=> k # N)
                    /\ call'[c] = [call[c] EXCEPT !.seen = seen, !.total = t, !.round = j, !.pc = pc]
               /\ Calling' /\ \A d \in Calls \ {c} : call'[d] = call[d]
<1> DEFINE k == Len(call[c].seen) + 1
           seen == Append(call[c].seen, active[SetSeq[k]].content.count)
<1>1. k \in 1..N /\ call[c].seen \in Seq(Counts) /\ call[c] \in CallRecords
  <2>1. call[c] \in CallRecords /\ call[c].seen \in Seq(Counts)  BY DEF Calling, CallRecords
  <2>2. Len(call[c].seen) < N  BY DEF TallySet, At, Stages, Stage
  <2> QED  BY <2>1, <2>2, Order
<1>2. active[SetSeq[k]].content.count \in Counts  BY <1>1, Order, Values DEF Served, Registries
<1>3. seen \in Seq(Counts) /\ Len(seen) = k  BY <1>1, <1>2
<1>4. k = N => SumOf(seen) \in 0..MaxTotal  BY <1>3, TotalBounded
<1> DEFINE last == Len(seen) = Len(SetSeq)
           t == IF last /\ call[c].round = 1 THEN SumOf(seen) ELSE call[c].total
           j == IF last THEN 2 ELSE call[c].round
           pc == IF ~last THEN "tally" ELSE IF call[c].round = 1 THEN "count" ELSE "publish"
           x == [call[c] EXCEPT !.seen = seen, !.total = t, !.round = j, !.pc = pc]
<1>5. call' = [call EXCEPT ![c] = x]  BY DEF TallySet
<1>6. health' \in {health, SumOf(seen)} /\ (health' = health \/ last)  BY DEF TallySet
<1>7. last <=> k = N  BY <1>3 DEF N
<1>8. pc \in {"tally", "count", "publish"} /\ (pc = "tally" <=> k # N)  BY <1>7
<1>9. t \in 0..MaxTotal /\ j \in 1..2
  <2>1. call[c].total \in 0..MaxTotal /\ call[c].round \in 1..2  BY <1>1 DEF CallRecords
  <2> QED  BY <1>4, <1>7, <2>1
<1>10. pc \in Pcs  BY <1>8 DEF Pcs
<1> HIDE DEF seen, k, t, j, pc, last
<1>11. x \in CallRecords  BY <1>1, <1>3, <1>9, <1>10, Fields
<1> HIDE DEF x
<1>12. Calling' /\ call'[c] = x /\ \A d \in Calls \ {c} : call'[d] = call[d]
  BY <1>5, <1>11, Moved
<1>13. call'[c] = [call[c] EXCEPT !.seen = seen, !.total = t, !.round = j, !.pc = pc]
  BY <1>12 DEF x
<1>14. \E tt \in 0..MaxTotal, jj \in 1..2, pp \in {"tally", "count", "publish"} :
         /\ (pp = "tally" <=> k # N)
         /\ call'[c] = [call[c] EXCEPT !.seen = seen, !.total = tt, !.round = jj, !.pc = pp]
  BY <1>8, <1>9, <1>13
<1> QED  BY <1>1, <1>3, <1>6, <1>7, <1>12, <1>14 DEF seen, k

\* A call goes from one of its records to another.
LEMMA CallingStep ==
    ASSUME Managed, Calling, Stages, Served, Next
    PROVE  Calling'
<1>1. ASSUME UNCHANGED <<call>>
      PROVE  Calling'
  BY <1>1 DEF Calling
<1> USE DEF mgrVars, regVars, pubVars, envVars
<1>2. ASSUME NEW c \in Calls, NEW kind \in Kinds, NEW p \in Paths, Arrive(c, kind, p)
      PROVE  Calling'
  <2> DEFINE x == [IdleCall EXCEPT !.pc = "auth", !.kind = kind,
                                    !.path = IF kind = "load" THEN p ELSE NoPath]
  <2>1. x \in CallRecords  BY IdleIsACall DEF CallRecords, Pcs
  <2>2. call' = [call EXCEPT ![c] = x]  BY <1>2 DEF Arrive
  <2> HIDE DEF x
  <2> QED  BY <2>1, <2>2, Moved
<1>3. ASSUME NEW c \in Calls, Authenticate(c)  PROVE Calling'
  <2>1. Answer(c) \/ (\E pc \in {"allow"} : Goto(c, pc))  BY <1>3 DEF Authenticate
  <2>2. {"allow"} \subseteq Pcs  BY DEF Pcs
  <2> QED  BY <2>1, <2>2, Goes, Answered
<1>4. ASSUME NEW c \in Calls, Allow(c)  PROVE Calling'
  <2>1. Answer(c) \/ (\E pc \in {"lock", "path", "read"} : Goto(c, pc))  BY <1>4 DEF Allow
  <2>2. {"lock", "path", "read"} \subseteq Pcs  BY DEF Pcs
  <2> QED  BY <2>1, <2>2, Goes, Answered
<1>5. ASSUME NEW c \in Calls, ReadCurrentPath(c)  PROVE Calling'
  <2>1. CASE Answer(c)  BY <2>1, Answered
  <2>2. CASE configPath # NoPath /\ call' = [call EXCEPT ![c].path = configPath, ![c].pc = "read"]
    <3>1. call' = [call EXCEPT ![c] = [call[c] EXCEPT !.path = configPath, !.pc = "read"]]
      BY <2>2
    <3>2. [call[c] EXCEPT !.path = configPath, !.pc = "read"] \in CallRecords
      BY <2>2, Fields DEF Managed, Calling, Pcs
    <3> QED  BY <3>1, <3>2, Moved
  <2> QED  BY <1>5, <2>1, <2>2 DEF ReadCurrentPath
<1>6. ASSUME NEW c \in Calls, LoadAndValidate(c)  PROVE Calling'
  <2>1. CASE Answer(c)  BY <2>1, Answered
  <2>2. CASE /\ file[call[c].path] # Bad
             /\ call' = [call EXCEPT ![c].new = file[call[c].path], ![c].pc = "lock"]
    <3> DEFINE v == file[call[c].path]
    <3>1. v \in Configs  BY <1>6, <2>2 DEF LoadAndValidate, At, Stages, Stage, Managed
    <3>2. call' = [call EXCEPT ![c] = [call[c] EXCEPT !.new = v, !.pc = "lock"]]  BY <2>2
    <3>3. [call[c] EXCEPT !.new = v, !.pc = "lock"] \in CallRecords
      BY <3>1, Fields DEF Calling, Pcs
    <3> QED  BY <3>2, <3>3, Moved
  <2> QED  BY <1>6, <2>1, <2>2 DEF LoadAndValidate
<1>7. ASSUME NEW c \in Calls, LockForReload(c)  PROVE Calling'
  <2>1. Goto(c, "build") /\ "build" \in Pcs  BY <1>7 DEF LockForReload, Pcs
  <2> QED  BY <2>1, Goes
<1>8. ASSUME NEW c \in Calls, LockForConfig(c)  PROVE Calling'
  <2>1. Answer(c) \/ (\E pc \in {"build"} : Goto(c, pc))  BY <1>8 DEF LockForConfig
  <2>2. {"build"} \subseteq Pcs  BY DEF Pcs
  <2> QED  BY <2>1, <2>2, Goes, Answered
<1>9. ASSUME NEW c \in Calls, BuildReplacement(c)  PROVE Calling'
  <2>1. call[c].pc = "build" /\ (Answer(c) \/ Builds(c))
    BY <1>9 DEF BuildReplacement, At, Builds
  <2> QED  BY <2>1, Answered, Built
<1>10. ASSUME NEW c \in Calls, LockRegistry(c)  PROVE Calling'
  <2>1. (\E pc \in {"swap", "wlock"} : Goto(c, pc))  BY <1>10 DEF LockRegistry
  <2>2. {"swap", "wlock"} \subseteq Pcs  BY DEF Pcs
  <2> QED  BY <2>1, <2>2, Goes
<1>11. ASSUME NEW c \in Calls, SwapRegistries(c)  PROVE Calling'
  <2>1. Goto(c, "wunlock") /\ "wunlock" \in Pcs  BY <1>11 DEF SwapRegistries, Pcs
  <2> QED  BY <2>1, Goes
<1>12. ASSUME NEW c \in Calls, UnlockRegistry(c)  PROVE Calling'
  <2>1. (\E pc \in {"commit", "wunlock"} : Goto(c, pc))  BY <1>12 DEF UnlockRegistry
  <2>2. {"commit", "wunlock"} \subseteq Pcs  BY DEF Pcs
  <2> QED  BY <2>1, <2>2, Goes
<1>13. ASSUME NEW c \in Calls, CommitReload(c)  PROVE Calling'
  <2>1. Goto(c, "count") /\ "count" \in Pcs  BY <1>13 DEF CommitReload, Pcs
  <2> QED  BY <2>1, Goes
<1>14. ASSUME NEW c \in Calls, CommitConfig(c)  PROVE Calling'
  <2>1. Goto(c, "configure") /\ "configure" \in Pcs  BY <1>14 DEF CommitConfig, Pcs
  <2> QED  BY <2>1, Goes
<1>15. ASSUME NEW c \in Calls, Configure(c)  PROVE Calling'
  <2>1. Goto(c, "count") /\ "count" \in Pcs  BY <1>15 DEF Configure, Pcs
  <2> QED  BY <2>1, Goes
<1>16. ASSUME NEW c \in Calls, CopySets(c)  PROVE Calling'
  <2>1. call' = [call EXCEPT ![c] = [call[c] EXCEPT !.pc = "tally", !.seen = <<>>]]
    BY <1>16 DEF CopySets
  <2>2. call[c] \in CallRecords /\ "tally" \in Pcs /\ <<>> \in Seq(Counts)  BY DEF Calling, Pcs
  <2>3. [call[c] EXCEPT !.pc = "tally", !.seen = <<>>] \in CallRecords  BY <2>2, Fields
  <2> QED  BY <2>1, <2>3, Moved
<1>17. ASSUME NEW c \in Calls, TallySet(c)  PROVE Calling'
  BY <1>17, Tallied DEF TallySet, At
<1>18. ASSUME NEW c \in Calls, Publish(c)  PROVE Calling'
  <2>1. Answer(c)  BY <1>18 DEF Publish
  <2> QED  BY <2>1, Answered
<1>19. ASSUME NEW p \in Paths, NEW v \in Configs \cup {Bad}, EditConfigFile(p, v)
      PROVE  Calling'
  BY <1>1, <1>19 DEF EditConfigFile
<1>20. ASSUME NEW d \in Srcs, NEW s \in Sets, NEW v \in Contents \cup {Bad}, EditScenarios(d, s, v)
      PROVE  Calling'
  BY <1>1, <1>20 DEF EditScenarios
<1> QED
  BY <1>2, <1>3, <1>4, <1>5, <1>6, <1>7, <1>8, <1>9, <1>10, <1>11, <1>12, <1>13, <1>14,
     <1>15, <1>16, <1>17, <1>18, <1>19, <1>20
     DEF Next, CallStep

\* The published counts are counts.
LEMMA PublishedStep ==
    ASSUME Managed, Calling, Stages, Served, Published, Next
    PROVE  Published'
<1>1. ASSUME UNCHANGED <<health, gauge>>
      PROVE  Published'
  BY <1>1 DEF Published
<1> USE DEF mgrVars, regVars, pubVars, envVars
<1>2. ASSUME NEW c \in Calls, NEW kind \in Kinds, NEW p \in Paths, Arrive(c, kind, p)
      PROVE  Published'
  BY <1>1, <1>2 DEF Arrive, At
<1>3. ASSUME NEW c \in Calls, Authenticate(c)  PROVE Published'
  BY <1>1, <1>3 DEF Authenticate, At, Answer, Goto
<1>4. ASSUME NEW c \in Calls, Allow(c)  PROVE Published'
  BY <1>1, <1>4 DEF Allow, At, Answer, Goto
<1>5. ASSUME NEW c \in Calls, ReadCurrentPath(c)  PROVE Published'
  BY <1>1, <1>5 DEF ReadCurrentPath, At, Answer
<1>6. ASSUME NEW c \in Calls, LoadAndValidate(c)  PROVE Published'
  BY <1>1, <1>6 DEF LoadAndValidate, At, Answer
<1>7. ASSUME NEW c \in Calls, LockForReload(c)  PROVE Published'
  BY <1>1, <1>7 DEF LockForReload, At, Goto
<1>8. ASSUME NEW c \in Calls, LockForConfig(c)  PROVE Published'
  BY <1>1, <1>8 DEF LockForConfig, At, Answer, Goto
<1>9. ASSUME NEW c \in Calls, BuildReplacement(c)  PROVE Published'
  BY <1>1, <1>9 DEF BuildReplacement, At, Answer
<1>10. ASSUME NEW c \in Calls, LockRegistry(c)  PROVE Published'
  BY <1>1, <1>10 DEF LockRegistry, At, Goto
<1>11. ASSUME NEW c \in Calls, SwapRegistries(c)  PROVE Published'
  BY <1>1, <1>11 DEF SwapRegistries, At, Goto
<1>12. ASSUME NEW c \in Calls, UnlockRegistry(c)  PROVE Published'
  BY <1>1, <1>12 DEF UnlockRegistry, At, Goto
<1>13. ASSUME NEW c \in Calls, CommitReload(c)  PROVE Published'
  BY <1>1, <1>13 DEF CommitReload, At, Goto
<1>14. ASSUME NEW c \in Calls, CommitConfig(c)  PROVE Published'
  BY <1>1, <1>14 DEF CommitConfig, At, Goto
<1>15. ASSUME NEW c \in Calls, Configure(c)  PROVE Published'
  BY <1>1, <1>15 DEF Configure, At, Goto
<1>16. ASSUME NEW c \in Calls, CopySets(c)  PROVE Published'
  BY <1>1, <1>16 DEF CopySets, At
<1>17. ASSUME NEW c \in Calls, TallySet(c)  PROVE Published'
  <2>1. gauge' = gauge  BY <1>17 DEF TallySet
  <2>2. \E seen \in Seq(Counts) : /\ health' \in {health, SumOf(seen)}
                                  /\ health' = health \/ Len(seen) = N
    BY <1>17, Tallied
  <2> QED  BY <2>1, <2>2, TotalBounded DEF Published
<1>18. ASSUME NEW c \in Calls, Publish(c)  PROVE Published'
  <2>1. call[c].seen \in Seq(Counts) /\ Len(call[c].seen) = N /\ call[c].total \in 0..MaxTotal
    BY <1>18 DEF Publish, At, Calling, CallRecords, Stages, Stage
  <2>2. ASSUME NEW s \in Sets
        PROVE  call[c].seen[CHOOSE j \in DOMAIN SetSeq : SetSeq[j] = s] \in Counts
    BY <2>1, Position
  <2> QED  BY <1>18, <2>1, <2>2 DEF Publish, Published
<1>19. ASSUME NEW p \in Paths, NEW v \in Configs \cup {Bad}, EditConfigFile(p, v)
      PROVE  Published'
  BY <1>1, <1>19 DEF EditConfigFile
<1>20. ASSUME NEW d \in Srcs, NEW s \in Sets, NEW v \in Contents \cup {Bad}, EditScenarios(d, s, v)
      PROVE  Published'
  BY <1>1, <1>20 DEF EditScenarios
<1> QED
  BY <1>2, <1>3, <1>4, <1>5, <1>6, <1>7, <1>8, <1>9, <1>10, <1>11, <1>12, <1>13, <1>14,
     <1>15, <1>16, <1>17, <1>18, <1>19, <1>20
     DEF Next, CallStep

-----------------------------------------------------------------------------
(* Where a step takes the call that makes it *)

\* The call goes on to one of the places T, with its kind and configuration.
GoesOn(c, T) ==
    /\ call'[c].pc \in T /\ call'[c].kind = call[c].kind
    /\ call'[c].new = call[c].new /\ call'[c].path = call[c].path

\* The call keeps what it has built and counted.
Keeps(c) == call'[c].built = call[c].built /\ call'[c].seen = call[c].seen

\* The call is answered and its slot is free.
Freed(c) == call'[c] = IdleCall

\* Only call c moves.
OnlyMoves(c) == \A d \in Calls \ {c} : call'[d] = call[d]

\* Going on and being answered, in these terms.
LEMMA Motion ==
    ASSUME Calling, NEW c \in Calls
    PROVE  /\ \A pc \in Pcs : Goto(c, pc) =>
                OnlyMoves(c) /\ GoesOn(c, {pc}) /\ Keeps(c)
           /\ Answer(c) => OnlyMoves(c) /\ Freed(c)
<1>1. ASSUME NEW pc \in Pcs, Goto(c, pc)
      PROVE  OnlyMoves(c) /\ GoesOn(c, {pc}) /\ Keeps(c)
  <2>1. OnlyMoves(c)  BY <1>1, Goes DEF OnlyMoves
  <2>2. call[c] \in CallRecords /\ call'[c] = [call[c] EXCEPT !.pc = pc]  BY <1>1, Goes
  <2> QED  BY <2>1, <2>2 DEF GoesOn, Keeps, CallRecords
<1> QED  BY <1>1, Answered DEF OnlyMoves, Freed

\* The steps of a call.
LEMMA CallMoves ==
    ASSUME Managed, Calling, Stages, Served, NEW c \in Calls
    PROVE  /\ Authenticate(c) =>
              /\ call[c].pc = "auth" /\ OnlyMoves(c)
              /\ Freed(c) \/ (GoesOn(c, {"allow"}) /\ Keeps(c))
           /\ Allow(c) =>
              /\ call[c].pc = "allow" /\ OnlyMoves(c)
              /\ \/ Freed(c)
                 \/ /\ GoesOn(c, {"lock", "path", "read"}) /\ Keeps(c)
                    /\ call'[c].pc = "lock" <=> ~IsConfigCall(c)
                    /\ call'[c].pc = "read" => call[c].kind = "load"
           /\ ReadCurrentPath(c) =>
              /\ call[c].pc = "path" /\ OnlyMoves(c)
              /\ \/ Freed(c)
                 \/ /\ call'[c].pc = "read" /\ call'[c].kind = call[c].kind
                    /\ call'[c].path = configPath /\ configPath # NoPath /\ Keeps(c)
           /\ LoadAndValidate(c) =>
              /\ call[c].pc = "read" /\ OnlyMoves(c)
              /\ \/ Freed(c)
                 \/ /\ call'[c].pc = "lock" /\ call'[c].kind = call[c].kind
                    /\ call'[c].path = call[c].path
                    /\ call'[c].new = file[call[c].path] /\ file[call[c].path] # Bad /\ Keeps(c)
           /\ LockForConfig(c) =>
              /\ call[c].pc = "lock" /\ OnlyMoves(c)
              /\ \/ Freed(c) /\ mu' = mu
                 \/ GoesOn(c, {"build"}) /\ Keeps(c) /\ mu' = c /\ ~NeedsRestart(c)
           /\ BuildReplacement(c) =>
              /\ call[c].pc = "build" /\ OnlyMoves(c)
              /\ \/ Freed(c) /\ mu' = "free"
                 \/ /\ GoesOn(c, {"build", "wlock"}) /\ mu' = mu /\ call'[c].seen = call[c].seen
                    /\ \E v \in Contents : /\ call'[c].built = Append(call[c].built, v)
                                          /\ SameTopology(active[SetSeq[Len(call[c].built) + 1]].content, v)
                    /\ Len(call'[c].built) = Len(call[c].built) + 1 /\ Len(call'[c].built) <= N
                    /\ call'[c].pc = "build" <=> Len(call'[c].built) < N
           /\ TallySet(c) =>
              /\ call[c].pc = "tally" /\ OnlyMoves(c)
              /\ GoesOn(c, {"tally", "count", "publish"}) /\ call'[c].built = call[c].built
                 /\ Len(call'[c].seen) = Len(call[c].seen) + 1 /\ Len(call'[c].seen) <= N
                 /\ (call'[c].pc = "tally" <=> Len(call'[c].seen) < N)
           /\ LockForReload(c) =>
              /\ call[c].pc = "lock" /\ OnlyMoves(c)
              /\ GoesOn(c, {"build"}) /\ Keeps(c)
           /\ LockRegistry(c) =>
              /\ call[c].pc = "wlock" /\ OnlyMoves(c)
              /\ GoesOn(c, {"wlock", "swap"}) /\ Keeps(c)
           /\ SwapRegistries(c) =>
              /\ call[c].pc = "swap" /\ OnlyMoves(c)
              /\ GoesOn(c, {"wunlock"}) /\ Keeps(c)
           /\ UnlockRegistry(c) =>
              /\ call[c].pc = "wunlock" /\ OnlyMoves(c)
              /\ GoesOn(c, {"wunlock", "commit"}) /\ Keeps(c)
           /\ CommitReload(c) =>
              /\ call[c].pc = "commit" /\ OnlyMoves(c)
              /\ GoesOn(c, {"count"}) /\ Keeps(c)
           /\ CommitConfig(c) =>
              /\ call[c].pc = "commit" /\ OnlyMoves(c)
              /\ GoesOn(c, {"configure"}) /\ Keeps(c)
           /\ Configure(c) =>
              /\ call[c].pc = "configure" /\ OnlyMoves(c)
              /\ GoesOn(c, {"count"}) /\ Keeps(c)
           /\ CopySets(c) =>
              /\ call[c].pc = "count" /\ OnlyMoves(c)
              /\ GoesOn(c, {"tally"}) /\ call'[c].built = call[c].built /\ call'[c].seen = <<>>
           /\ Publish(c) =>
              /\ call[c].pc = "publish" /\ OnlyMoves(c)
              /\ Freed(c)
<1>1. ASSUME Authenticate(c)
      PROVE  /\ call[c].pc = "auth" /\ OnlyMoves(c)
             /\ Freed(c) \/ (GoesOn(c, {"allow"}) /\ Keeps(c))
  <2>1. Answer(c) \/ \E pc \in {"allow"} : Goto(c, pc)  BY <1>1 DEF Authenticate
  <2>2. {"allow"} \subseteq Pcs  BY DEF Pcs
  <2>3. call[c].pc = "auth"  BY <1>1 DEF Authenticate, At
  <2>4. CASE Answer(c)  BY <2>3, <2>4, Motion
  <2> QED  BY <2>1, <2>2, <2>3, Motion, <2>4 DEF GoesOn
<1>2. ASSUME Allow(c)
      PROVE  /\ call[c].pc = "allow" /\ OnlyMoves(c)
             /\ \/ Freed(c)
                \/ /\ GoesOn(c, {"lock", "path", "read"}) /\ Keeps(c)
                   /\ call'[c].pc = "lock" <=> ~IsConfigCall(c)
                   /\ call'[c].pc = "read" => call[c].kind = "load"
  <2>1. call[c].pc = "allow"  BY <1>2 DEF Allow, At
  <2>2. CASE Answer(c)  BY <2>1, <2>2, Motion
  <2>3. CASE ~Answer(c)
    <3> DEFINE pc == CASE call[c].kind = "reload-scenarios" -> "lock"
                       [] call[c].kind = "reload-current"   -> "path"
                       [] OTHER                             -> "read"
    <3>1. Goto(c, pc)  BY <1>2, <2>3 DEF Allow
    <3>2. call[c].kind \in Kinds  BY DEF Calling, CallRecords
    <3>3. /\ pc \in {"lock", "path", "read"} /\ (pc = "lock" <=> ~IsConfigCall(c))
          /\ pc = "read" => call[c].kind = "load"
      BY <3>2 DEF Kinds, IsConfigCall
    <3>4. pc \in Pcs  BY <3>3 DEF Pcs
    <3> HIDE DEF pc
    <3>5. OnlyMoves(c) /\ GoesOn(c, {pc}) /\ Keeps(c)  BY <3>1, <3>4, Motion
    <3> QED  BY <2>1, <3>3, <3>5 DEF GoesOn
  <2> QED  BY <2>2, <2>3
<1>3. ASSUME ReadCurrentPath(c)
      PROVE  /\ call[c].pc = "path" /\ OnlyMoves(c)
             /\ \/ Freed(c)
                \/ /\ call'[c].pc = "read" /\ call'[c].kind = call[c].kind
                   /\ call'[c].path = configPath /\ configPath # NoPath /\ Keeps(c)
  <2>1. CASE Answer(c)  BY <1>3, <2>1, Motion DEF ReadCurrentPath, At
  <2>2. CASE ~Answer(c)
    BY <1>3, <2>2 DEF ReadCurrentPath, At, Calling, CallRecords, OnlyMoves, Keeps
  <2> QED  BY <2>1, <2>2
<1>4. ASSUME LoadAndValidate(c)
      PROVE  /\ call[c].pc = "read" /\ OnlyMoves(c)
             /\ \/ Freed(c)
                \/ /\ call'[c].pc = "lock" /\ call'[c].kind = call[c].kind
                   /\ call'[c].path = call[c].path
                   /\ call'[c].new = file[call[c].path] /\ file[call[c].path] # Bad /\ Keeps(c)
  <2>1. CASE Answer(c)  BY <1>4, <2>1, Motion DEF LoadAndValidate, At
  <2>2. CASE ~Answer(c)
    BY <1>4, <2>2 DEF LoadAndValidate, At, Calling, CallRecords, OnlyMoves, Keeps
  <2> QED  BY <2>1, <2>2
<1>5. ASSUME LockForConfig(c)
      PROVE  /\ call[c].pc = "lock" /\ OnlyMoves(c)
             /\ \/ Freed(c) /\ mu' = mu
                \/ GoesOn(c, {"build"}) /\ Keeps(c) /\ mu' = c /\ ~NeedsRestart(c)
  <2>1. CASE NeedsRestart(c)  BY <1>5, <2>1, Motion DEF LockForConfig, At
  <2>2. CASE ~NeedsRestart(c)
    <3>1. "build" \in Pcs  BY DEF Pcs
    <3> QED  BY <1>5, <2>2, <3>1, Motion DEF LockForConfig, At, GoesOn
  <2> QED  BY <2>1, <2>2
<1>6. ASSUME BuildReplacement(c)
      PROVE  /\ call[c].pc = "build" /\ OnlyMoves(c)
             /\ \/ Freed(c) /\ mu' = "free"
                \/ /\ GoesOn(c, {"build", "wlock"}) /\ mu' = mu /\ call'[c].seen = call[c].seen
                   /\ \E v \in Contents : /\ call'[c].built = Append(call[c].built, v)
                                         /\ SameTopology(active[SetSeq[Len(call[c].built) + 1]].content, v)
                   /\ Len(call'[c].built) = Len(call[c].built) + 1 /\ Len(call'[c].built) <= N
                   /\ call'[c].pc = "build" <=> Len(call'[c].built) < N
  <2>1. (Answer(c) /\ mu' = "free") \/ Builds(c)
    BY <1>6 DEF BuildReplacement, Builds
  <2>2. CASE Answer(c) /\ mu' = "free"  BY <1>6, <2>2, Motion DEF BuildReplacement, At
  <2>3. CASE Builds(c)
    <3> DEFINE k == Len(call[c].built) + 1
               v == LoadSource(c, SetSeq[k])
               pc == IF k = N THEN "wlock" ELSE "build"
    <3>1. call[c].pc = "build" /\ mu' = mu  BY <1>6, <2>3 DEF BuildReplacement, At, Builds
    <3>2. /\ k \in 1..N /\ call[c].built \in Seq(Contents) /\ v \in Contents
          /\ SameTopology(active[SetSeq[k]].content, v)
          /\ call'[c] = [call[c] EXCEPT !.built = Append(call[c].built, v), !.pc = pc]
      BY <2>3, <3>1, Built
    <3>3. OnlyMoves(c) /\ call[c] \in CallRecords  BY <2>3, <3>1, Built DEF OnlyMoves, Calling
    <3>4. pc \in {"build", "wlock"} /\ (pc = "build" <=> k < N)  BY <3>2, Order
    <3> HIDE DEF v, pc
    <3>5. /\ GoesOn(c, {"build", "wlock"}) /\ call'[c].seen = call[c].seen /\ call'[c].pc = pc
          /\ call'[c].built = Append(call[c].built, v)
      BY <3>2, <3>3, <3>4 DEF GoesOn, CallRecords
    <3>6. Len(call'[c].built) = k /\ k <= N  BY <3>2, <3>5
    <3>7. \E w \in Contents : /\ call'[c].built = Append(call[c].built, w)
                             /\ SameTopology(active[SetSeq[k]].content, w)
      BY <3>2, <3>5
    <3> QED  BY <3>1, <3>3, <3>4, <3>5, <3>6, <3>7
  <2> QED  BY <2>1, <2>2, <2>3
<1>7. ASSUME TallySet(c)
      PROVE  /\ call[c].pc = "tally" /\ OnlyMoves(c)
             /\ GoesOn(c, {"tally", "count", "publish"}) /\ call'[c].built = call[c].built
                /\ Len(call'[c].seen) = Len(call[c].seen) + 1 /\ Len(call'[c].seen) <= N
                /\ (call'[c].pc = "tally" <=> Len(call'[c].seen) < N)
  <2> DEFINE k == Len(call[c].seen) + 1
             q == Append(call[c].seen, active[SetSeq[k]].content.count)
  <2>1. \E t \in 0..MaxTotal, j \in 1..2, pc \in {"tally", "count", "publish"} :
          /\ (pc = "tally" <=> k # N)
          /\ call'[c] = [call[c] EXCEPT !.seen = q, !.total = t, !.round = j, !.pc = pc]
    BY <1>7, Tallied, Zenon
  <2> HIDE DEF q, k
  <2>2. OnlyMoves(c) /\ call[c] \in CallRecords  BY <1>7, Tallied DEF OnlyMoves, Calling
  <2>3. Len(q) = k /\ k \in 1..N  BY <1>7, Tallied DEF q, k
  <2>4. /\ GoesOn(c, {"tally", "count", "publish"}) /\ call'[c].built = call[c].built
        /\ call'[c].seen = q /\ (call'[c].pc = "tally" <=> k # N)
    BY <2>1, <2>2 DEF GoesOn, CallRecords
  <2>5. k # N <=> k < N  BY <2>3, Order
  <2>6. call[c].pc = "tally"  BY <1>7 DEF TallySet, At
  <2>7. Len(call'[c].seen) = k /\ k <= N  BY <2>3, <2>4
  <2> QED  BY <2>2, <2>4, <2>5, <2>6, <2>7 DEF k
<1>8. ASSUME LockForReload(c)
      PROVE  /\ call[c].pc = "lock" /\ OnlyMoves(c)
             /\ GoesOn(c, {"build"}) /\ Keeps(c)
  <2>1. \E pc \in {"build"} : Goto(c, pc)  BY <1>8 DEF LockForReload
  <2>2. {"build"} \subseteq Pcs  BY DEF Pcs
  <2>3. call[c].pc = "lock"  BY <1>8 DEF LockForReload, At
  <2> QED  BY <2>1, <2>2, <2>3, Motion DEF GoesOn
<1>9. ASSUME LockRegistry(c)
      PROVE  /\ call[c].pc = "wlock" /\ OnlyMoves(c)
             /\ GoesOn(c, {"wlock", "swap"}) /\ Keeps(c)
  <2>1. \E pc \in {"wlock", "swap"} : Goto(c, pc)  BY <1>9 DEF LockRegistry
  <2>2. {"wlock", "swap"} \subseteq Pcs  BY DEF Pcs
  <2>3. call[c].pc = "wlock"  BY <1>9 DEF LockRegistry, At
  <2> QED  BY <2>1, <2>2, <2>3, Motion DEF GoesOn
<1>10. ASSUME SwapRegistries(c)
      PROVE  /\ call[c].pc = "swap" /\ OnlyMoves(c)
             /\ GoesOn(c, {"wunlock"}) /\ Keeps(c)
  <2>1. \E pc \in {"wunlock"} : Goto(c, pc)  BY <1>10 DEF SwapRegistries
  <2>2. {"wunlock"} \subseteq Pcs  BY DEF Pcs
  <2>3. call[c].pc = "swap"  BY <1>10 DEF SwapRegistries, At
  <2> QED  BY <2>1, <2>2, <2>3, Motion DEF GoesOn
<1>11. ASSUME UnlockRegistry(c)
      PROVE  /\ call[c].pc = "wunlock" /\ OnlyMoves(c)
             /\ GoesOn(c, {"wunlock", "commit"}) /\ Keeps(c)
  <2>1. \E pc \in {"wunlock", "commit"} : Goto(c, pc)  BY <1>11 DEF UnlockRegistry
  <2>2. {"wunlock", "commit"} \subseteq Pcs  BY DEF Pcs
  <2>3. call[c].pc = "wunlock"  BY <1>11 DEF UnlockRegistry, At
  <2> QED  BY <2>1, <2>2, <2>3, Motion DEF GoesOn
<1>12. ASSUME CommitReload(c)
      PROVE  /\ call[c].pc = "commit" /\ OnlyMoves(c)
             /\ GoesOn(c, {"count"}) /\ Keeps(c)
  <2>1. \E pc \in {"count"} : Goto(c, pc)  BY <1>12 DEF CommitReload
  <2>2. {"count"} \subseteq Pcs  BY DEF Pcs
  <2>3. call[c].pc = "commit"  BY <1>12 DEF CommitReload, At
  <2> QED  BY <2>1, <2>2, <2>3, Motion DEF GoesOn
<1>13. ASSUME CommitConfig(c)
      PROVE  /\ call[c].pc = "commit" /\ OnlyMoves(c)
             /\ GoesOn(c, {"configure"}) /\ Keeps(c)
  <2>1. \E pc \in {"configure"} : Goto(c, pc)  BY <1>13 DEF CommitConfig
  <2>2. {"configure"} \subseteq Pcs  BY DEF Pcs
  <2>3. call[c].pc = "commit"  BY <1>13 DEF CommitConfig, At
  <2> QED  BY <2>1, <2>2, <2>3, Motion DEF GoesOn
<1>14. ASSUME Configure(c)
      PROVE  /\ call[c].pc = "configure" /\ OnlyMoves(c)
             /\ GoesOn(c, {"count"}) /\ Keeps(c)
  <2>1. \E pc \in {"count"} : Goto(c, pc)  BY <1>14 DEF Configure
  <2>2. {"count"} \subseteq Pcs  BY DEF Pcs
  <2>3. call[c].pc = "configure"  BY <1>14 DEF Configure, At
  <2> QED  BY <2>1, <2>2, <2>3, Motion DEF GoesOn
<1>15. ASSUME CopySets(c)
      PROVE  /\ call[c].pc = "count" /\ OnlyMoves(c)
             /\ GoesOn(c, {"tally"}) /\ call'[c].built = call[c].built /\ call'[c].seen = <<>>
  BY <1>15 DEF CopySets, At, OnlyMoves, GoesOn, Calling, CallRecords
<1>16. ASSUME Publish(c)
      PROVE  /\ call[c].pc = "publish" /\ OnlyMoves(c)
             /\ Freed(c)
  BY <1>16, Motion DEF Publish, At
<1> QED
  BY <1>1, <1>2, <1>3, <1>4, <1>5, <1>6, <1>7, <1>8, <1>9, <1>10, <1>11, <1>12, <1>13,
     <1>14, <1>15, <1>16

\* A new call has everything still to do.
LEMMA Arrives ==
    ASSUME Calling, NEW c \in Calls, NEW kind \in Kinds, NEW p \in Paths, Arrive(c, kind, p)
    PROVE  /\ call[c].pc = "idle" /\ OnlyMoves(c) /\ call'[c].pc = "auth"
           /\ call'[c].built = <<>> /\ call'[c].seen = <<>>
BY DEF Arrive, At, IdleCall, Calling, CallRecords, OnlyMoves

-----------------------------------------------------------------------------
(* Every step keeps each part, continued *)

\* The steps of a call before and after its critical section.
Outside(c) == \/ Authenticate(c) \/ Allow(c) \/ ReadCurrentPath(c) \/ LoadAndValidate(c)
              \/ Configure(c) \/ CopySets(c) \/ TallySet(c) \/ Publish(c)

\* Outside of its critical section a call changes none of the manager's state.
LEMMA OutsideMoves ==
    ASSUME Managed, Calling, Stages, Served, NEW c \in Calls, Outside(c)
    PROVE  /\ OnlyMoves(c) /\ call[c].pc \notin InSection /\ call'[c].pc \notin InSection
           /\ UNCHANGED <<cfg, spec, mu, active, wlocked, swaps, arrived>>
           /\ c \in Waiting' => c \in Waiting
<1> USE DEF InSection, Waiting, GoesOn, Freed, IdleCall, mgrVars, regVars, envVars
<1>1. CASE Authenticate(c)
  <2>1. /\ call[c].pc = "auth" /\ OnlyMoves(c)
        /\ Freed(c) \/ (GoesOn(c, {"allow"}) /\ Keeps(c))
    BY <1>1, CallMoves
  <2> QED  BY <1>1, <2>1 DEF Authenticate
<1>2. CASE Allow(c)
  <2>1. /\ call[c].pc = "allow" /\ OnlyMoves(c)
        /\ \/ Freed(c)
           \/ /\ GoesOn(c, {"lock", "path", "read"}) /\ Keeps(c)
              /\ call'[c].pc = "lock" <=> ~IsConfigCall(c)
              /\ call'[c].pc = "read" => call[c].kind = "load"
    BY <1>2, CallMoves
  <2> QED  BY <1>2, <2>1 DEF Allow
<1>3. CASE ReadCurrentPath(c)
  <2>1. /\ call[c].pc = "path" /\ OnlyMoves(c)
        /\ \/ Freed(c)
           \/ /\ call'[c].pc = "read" /\ call'[c].kind = call[c].kind
              /\ call'[c].path = configPath /\ configPath # NoPath /\ Keeps(c)
    BY <1>3, CallMoves
  <2> QED  BY <1>3, <2>1 DEF ReadCurrentPath
<1>4. CASE LoadAndValidate(c)
  <2>1. /\ call[c].pc = "read" /\ OnlyMoves(c)
        /\ \/ Freed(c)
           \/ /\ call'[c].pc = "lock" /\ call'[c].kind = call[c].kind
              /\ call'[c].path = call[c].path
              /\ call'[c].new = file[call[c].path] /\ file[call[c].path] # Bad /\ Keeps(c)
    BY <1>4, CallMoves
  <2> QED  BY <1>4, <2>1 DEF LoadAndValidate
<1>5. CASE Configure(c)
  <2>1. /\ call[c].pc = "configure" /\ OnlyMoves(c)
        /\ GoesOn(c, {"count"}) /\ Keeps(c)
    BY <1>5, CallMoves
  <2> QED  BY <1>5, <2>1 DEF Configure
<1>6. CASE CopySets(c)
  <2>1. /\ call[c].pc = "count" /\ OnlyMoves(c)
        /\ GoesOn(c, {"tally"}) /\ call'[c].built = call[c].built /\ call'[c].seen = <<>>
    BY <1>6, CallMoves
  <2> QED  BY <1>6, <2>1 DEF CopySets
<1>7. CASE TallySet(c)
  <2>1. /\ call[c].pc = "tally" /\ OnlyMoves(c)
        /\ GoesOn(c, {"tally", "count", "publish"}) /\ call'[c].built = call[c].built
           /\ Len(call'[c].seen) = Len(call[c].seen) + 1 /\ Len(call'[c].seen) <= N
           /\ (call'[c].pc = "tally" <=> Len(call'[c].seen) < N)
    BY <1>7, CallMoves
  <2> QED  BY <1>7, <2>1 DEF TallySet
<1>8. CASE Publish(c)
  <2>1. /\ call[c].pc = "publish" /\ OnlyMoves(c)
        /\ Freed(c)
    BY <1>8, CallMoves
  <2> QED  BY <1>8, <2>1 DEF Publish
<1> QED  BY <1>1, <1>2, <1>3, <1>4, <1>5, <1>6, <1>7, <1>8 DEF Outside

\* m.mu admits one call at a time to its critical section.
LEMMA MutexStep ==
    ASSUME Managed, Calling, Stages, Served, Mutex, Next
    PROVE  Mutex'
<1>1. ASSUME UNCHANGED <<call, mu>>
      PROVE  Mutex'
  BY <1>1 DEF Mutex
<1> USE DEF mgrVars, regVars, pubVars, envVars
<1>2. ASSUME NEW c \in Calls, NEW kind \in Kinds, NEW p \in Paths, Arrive(c, kind, p)
      PROVE  Mutex'
  <2>1. /\ call[c].pc = "idle" /\ OnlyMoves(c) /\ call'[c].pc = "auth"
        /\ call'[c].built = <<>> /\ call'[c].seen = <<>>
    BY <1>2, Arrives
  <2> QED  BY <1>2, <2>1 DEF Arrive, Mutex, InSection, OnlyMoves
<1>3. ASSUME NEW c \in Calls, Outside(c)  PROVE Mutex'
  <2>1. /\ OnlyMoves(c) /\ call[c].pc \notin InSection /\ call'[c].pc \notin InSection
        /\ UNCHANGED <<cfg, spec, mu, active, wlocked, swaps, arrived>>
        /\ c \in Waiting' => c \in Waiting
    BY <1>3, OutsideMoves
  <2> QED  BY <2>1 DEF Mutex, OnlyMoves
<1>4. ASSUME NEW c \in Calls, LockForReload(c)  PROVE Mutex'
  <2>1. /\ call[c].pc = "lock" /\ OnlyMoves(c)
        /\ GoesOn(c, {"build"}) /\ Keeps(c)
    BY <1>4, CallMoves
  <2> QED
    BY <1>4, <2>1, Values
       DEF LockForReload, Mutex, InSection, GoesOn, Freed, OnlyMoves, IdleCall, Managed
<1>5. ASSUME NEW c \in Calls, LockForConfig(c)  PROVE Mutex'
  <2>1. /\ call[c].pc = "lock" /\ OnlyMoves(c)
        /\ \/ Freed(c) /\ mu' = mu
           \/ GoesOn(c, {"build"}) /\ Keeps(c) /\ mu' = c /\ ~NeedsRestart(c)
    BY <1>5, CallMoves
  <2> QED
    BY <1>5, <2>1, Values
       DEF LockForConfig, Mutex, InSection, GoesOn, Freed, OnlyMoves, IdleCall, Managed
<1>6. ASSUME NEW c \in Calls, BuildReplacement(c)  PROVE Mutex'
  <2>1. /\ call[c].pc = "build" /\ OnlyMoves(c)
        /\ \/ Freed(c) /\ mu' = "free"
           \/ /\ GoesOn(c, {"build", "wlock"}) /\ mu' = mu /\ call'[c].seen = call[c].seen
              /\ \E v \in Contents : /\ call'[c].built = Append(call[c].built, v)
                                    /\ SameTopology(active[SetSeq[Len(call[c].built) + 1]].content, v)
              /\ Len(call'[c].built) = Len(call[c].built) + 1 /\ Len(call'[c].built) <= N
              /\ call'[c].pc = "build" <=> Len(call'[c].built) < N
    BY <1>6, CallMoves
  <2>2. call'[c].pc \in InSection => mu' = mu  BY <2>1 DEF InSection, Freed, IdleCall
  <2>3. call'[c].pc \notin InSection => mu' = "free"  BY <2>1 DEF InSection, GoesOn
  <2>4. mu = c /\ \A d \in Calls \ {c} : call'[d].pc \notin InSection
    BY <2>1 DEF Mutex, InSection, OnlyMoves
  <2> QED  BY <2>2, <2>3, <2>4, Values DEF Mutex
<1>7. ASSUME NEW c \in Calls, LockRegistry(c)  PROVE Mutex'
  <2>1. /\ call[c].pc = "wlock" /\ OnlyMoves(c)
        /\ GoesOn(c, {"wlock", "swap"}) /\ Keeps(c)
    BY <1>7, CallMoves
  <2> QED
    BY <1>7, <2>1, Values
       DEF LockRegistry, Mutex, InSection, GoesOn, Freed, OnlyMoves, IdleCall, Managed
<1>8. ASSUME NEW c \in Calls, SwapRegistries(c)  PROVE Mutex'
  <2>1. /\ call[c].pc = "swap" /\ OnlyMoves(c)
        /\ GoesOn(c, {"wunlock"}) /\ Keeps(c)
    BY <1>8, CallMoves
  <2> QED
    BY <1>8, <2>1, Values
       DEF SwapRegistries, Mutex, InSection, GoesOn, Freed, OnlyMoves, IdleCall, Managed
<1>9. ASSUME NEW c \in Calls, UnlockRegistry(c)  PROVE Mutex'
  <2>1. /\ call[c].pc = "wunlock" /\ OnlyMoves(c)
        /\ GoesOn(c, {"wunlock", "commit"}) /\ Keeps(c)
    BY <1>9, CallMoves
  <2> QED
    BY <1>9, <2>1, Values
       DEF UnlockRegistry, Mutex, InSection, GoesOn, Freed, OnlyMoves, IdleCall, Managed
<1>10. ASSUME NEW c \in Calls, CommitReload(c)  PROVE Mutex'
  <2>1. /\ call[c].pc = "commit" /\ OnlyMoves(c)
        /\ GoesOn(c, {"count"}) /\ Keeps(c)
    BY <1>10, CallMoves
  <2> QED
    BY <1>10, <2>1, Values
       DEF CommitReload, Mutex, InSection, GoesOn, Freed, OnlyMoves, IdleCall, Managed
<1>11. ASSUME NEW c \in Calls, CommitConfig(c)  PROVE Mutex'
  <2>1. /\ call[c].pc = "commit" /\ OnlyMoves(c)
        /\ GoesOn(c, {"configure"}) /\ Keeps(c)
    BY <1>11, CallMoves
  <2> QED
    BY <1>11, <2>1, Values
       DEF CommitConfig, Mutex, InSection, GoesOn, Freed, OnlyMoves, IdleCall, Managed
<1>12. ASSUME NEW p \in Paths, NEW v \in Configs \cup {Bad}, EditConfigFile(p, v)
      PROVE  Mutex'
  BY <1>1, <1>12 DEF EditConfigFile
<1>13. ASSUME NEW d \in Srcs, NEW s \in Sets, NEW v \in Contents \cup {Bad}, EditScenarios(d, s, v)
      PROVE  Mutex'
  BY <1>1, <1>13 DEF EditScenarios
<1> QED
  BY <1>2, <1>3, <1>4, <1>5, <1>6, <1>7, <1>8, <1>9, <1>10, <1>11, <1>12, <1>13
     DEF Next, CallStep, Outside

\* The stage of a call that was answered.
LEMMA FreedStage ==
    ASSUME NEW c \in Calls, Freed(c)
    PROVE  Stage(c)'
BY IdleIsACall, Order DEF Freed, IdleCall, Stage, InSection, IsConfigCall

\* A call reaches each stage with what it needs there.
LEMMA StagesStep ==
    ASSUME Managed, Calling, Stages, Served, Mutex, Next
    PROVE  Stages'
<1>1. ASSUME UNCHANGED <<call, cfg>>
      PROVE  Stages'
  BY <1>1 DEF Stages, Stage, IsConfigCall
<1> USE DEF mgrVars, regVars, pubVars, envVars
<1>2. ASSUME NEW c \in Calls, NEW kind \in Kinds, NEW p \in Paths, Arrive(c, kind, p)
      PROVE  Stages'
  <2>1. /\ call[c].pc = "idle" /\ OnlyMoves(c) /\ call'[c].pc = "auth"
        /\ call'[c].built = <<>> /\ call'[c].seen = <<>>
    BY <1>2, Arrives
  <2>2. ASSUME NEW d \in Calls, d # c  PROVE Stage(d)'
    BY <1>2, <2>1, <2>2 DEF Arrive, OnlyMoves, Stages, Stage, IsConfigCall
  <2>3. Stage(c)'
    BY <1>2, <2>1, Order, Values
       DEF Arrive, At, IdleCall, Stages, Stage, InSection, IsConfigCall, NeedsRestart,
           Managed
  <2> QED  BY <2>2, <2>3 DEF Stages
<1>3. ASSUME NEW c \in Calls, Authenticate(c)  PROVE Stages'
  <2>1. /\ call[c].pc = "auth" /\ OnlyMoves(c)
        /\ Freed(c) \/ (GoesOn(c, {"allow"}) /\ Keeps(c))
    BY <1>3, CallMoves
  <2>2. ASSUME NEW d \in Calls, d # c  PROVE Stage(d)'
    BY <1>3, <2>1, <2>2 DEF Authenticate, OnlyMoves, Stages, Stage, IsConfigCall
  <2>3. Stage(c)'
    BY <1>3, <2>1, Order, Values
       DEF Authenticate, At, GoesOn, Keeps, Freed, IdleCall, Stages, Stage, InSection,
           IsConfigCall, NeedsRestart,
           Managed
  <2> QED  BY <2>2, <2>3 DEF Stages
<1>4. ASSUME NEW c \in Calls, Allow(c)  PROVE Stages'
  <2>1. /\ call[c].pc = "allow" /\ OnlyMoves(c)
        /\ \/ Freed(c)
           \/ /\ GoesOn(c, {"lock", "path", "read"}) /\ Keeps(c)
              /\ call'[c].pc = "lock" <=> ~IsConfigCall(c)
              /\ call'[c].pc = "read" => call[c].kind = "load"
    BY <1>4, CallMoves
  <2>2. ASSUME NEW d \in Calls, d # c  PROVE Stage(d)'
    BY <1>4, <2>1, <2>2 DEF Allow, OnlyMoves, Stages, Stage, IsConfigCall
  <2>3. CASE Freed(c)  BY <2>2, <2>3, FreedStage DEF Stages
  <2>4. CASE ~Freed(c)
    <3>1. /\ GoesOn(c, {"lock", "path", "read"}) /\ Keeps(c)
          /\ call'[c].pc = "lock" => ~IsConfigCall(c)
          /\ call'[c].pc = "path" => IsConfigCall(c)
          /\ call'[c].pc = "read" => IsConfigCall(c) /\ call[c].path \in Paths
      BY <2>1, <2>4 DEF Stages, Stage, IsConfigCall
    <3>2. Len(call[c].built) <= N /\ Len(call[c].seen) <= N /\ call[c].built = <<>>
      BY <2>1 DEF Stages, Stage
    <3>3. Stage(c)'  BY <3>1, <3>2 DEF GoesOn, Keeps, Stage, InSection, IsConfigCall
    <3> QED  BY <2>2, <3>3 DEF Stages
  <2> QED  BY <2>3, <2>4
<1>5. ASSUME NEW c \in Calls, ReadCurrentPath(c)  PROVE Stages'
  <2>1. /\ call[c].pc = "path" /\ OnlyMoves(c)
        /\ \/ Freed(c)
           \/ /\ call'[c].pc = "read" /\ call'[c].kind = call[c].kind
              /\ call'[c].path = configPath /\ configPath # NoPath /\ Keeps(c)
    BY <1>5, CallMoves
  <2>2. ASSUME NEW d \in Calls, d # c  PROVE Stage(d)'
    BY <1>5, <2>1, <2>2 DEF ReadCurrentPath, OnlyMoves, Stages, Stage, IsConfigCall
  <2>3. Stage(c)'
    BY <1>5, <2>1, Order, Values
       DEF ReadCurrentPath, At, GoesOn, Keeps, Freed, IdleCall, Stages, Stage, InSection,
           IsConfigCall, NeedsRestart,
           Managed
  <2> QED  BY <2>2, <2>3 DEF Stages
<1>6. ASSUME NEW c \in Calls, LoadAndValidate(c)  PROVE Stages'
  <2>1. /\ call[c].pc = "read" /\ OnlyMoves(c)
        /\ \/ Freed(c)
           \/ /\ call'[c].pc = "lock" /\ call'[c].kind = call[c].kind
              /\ call'[c].path = call[c].path
              /\ call'[c].new = file[call[c].path] /\ file[call[c].path] # Bad /\ Keeps(c)
    BY <1>6, CallMoves
  <2>2. ASSUME NEW d \in Calls, d # c  PROVE Stage(d)'
    BY <1>6, <2>1, <2>2 DEF LoadAndValidate, OnlyMoves, Stages, Stage, IsConfigCall
  <2>3. CASE Freed(c)  BY <2>2, <2>3, FreedStage DEF Stages
  <2>4. CASE ~Freed(c)
    <3>1. call[c].path \in Paths /\ Len(call[c].built) <= N /\ Len(call[c].seen) <= N /\ call[c].built = <<>>
      BY <2>1 DEF Stages, Stage
    <3>2. call'[c].new \in Configs  BY <2>1, <2>4, <3>1 DEF Managed
    <3>3. Stage(c)'  BY <2>1, <2>4, <3>1, <3>2 DEF Keeps, Stage, InSection
    <3> QED  BY <2>2, <3>3 DEF Stages
  <2> QED  BY <2>3, <2>4
<1>7. ASSUME NEW c \in Calls, LockForReload(c)  PROVE Stages'
  <2>1. /\ call[c].pc = "lock" /\ OnlyMoves(c)
        /\ GoesOn(c, {"build"}) /\ Keeps(c)
    BY <1>7, CallMoves
  <2>2. ASSUME NEW d \in Calls, d # c  PROVE Stage(d)'
    BY <1>7, <2>1, <2>2 DEF LockForReload, OnlyMoves, Stages, Stage, IsConfigCall
  <2>3. Stage(c)'
    BY <1>7, <2>1, Order, Values
       DEF LockForReload, At, GoesOn, Keeps, Freed, IdleCall, Stages, Stage, InSection,
           IsConfigCall, NeedsRestart,
           Managed
  <2> QED  BY <2>2, <2>3 DEF Stages
<1>8. ASSUME NEW c \in Calls, LockForConfig(c)  PROVE Stages'
  <2>1. /\ call[c].pc = "lock" /\ OnlyMoves(c)
        /\ \/ Freed(c) /\ mu' = mu
           \/ GoesOn(c, {"build"}) /\ Keeps(c) /\ mu' = c /\ ~NeedsRestart(c)
    BY <1>8, CallMoves
  <2>2. ASSUME NEW d \in Calls, d # c  PROVE Stage(d)'
    BY <1>8, <2>1, <2>2 DEF LockForConfig, OnlyMoves, Stages, Stage, IsConfigCall
  <2>3. Stage(c)'
    BY <1>8, <2>1, Order, Values
       DEF LockForConfig, At, GoesOn, Keeps, Freed, IdleCall, Stages, Stage, InSection,
           IsConfigCall, NeedsRestart,
           Managed
  <2> QED  BY <2>2, <2>3 DEF Stages
<1>9. ASSUME NEW c \in Calls, BuildReplacement(c)  PROVE Stages'
  <2>1. /\ call[c].pc = "build" /\ OnlyMoves(c)
        /\ \/ Freed(c) /\ mu' = "free"
           \/ /\ GoesOn(c, {"build", "wlock"}) /\ mu' = mu /\ call'[c].seen = call[c].seen
              /\ \E v \in Contents : /\ call'[c].built = Append(call[c].built, v)
                                    /\ SameTopology(active[SetSeq[Len(call[c].built) + 1]].content, v)
              /\ Len(call'[c].built) = Len(call[c].built) + 1 /\ Len(call'[c].built) <= N
              /\ call'[c].pc = "build" <=> Len(call'[c].built) < N
    BY <1>9, CallMoves
  <2>2. ASSUME NEW d \in Calls, d # c  PROVE Stage(d)'
    BY <1>9, <2>1, <2>2 DEF BuildReplacement, OnlyMoves, Stages, Stage, IsConfigCall
  <2>3. CASE Freed(c)
    <3>1. Stage(c)'  BY <2>3, FreedStage
    <3> QED  BY <2>2, <3>1 DEF Stages
  <2>4. CASE GoesOn(c, {"build", "wlock"})
    <3>1. cfg' = cfg  BY <1>9 DEF BuildReplacement
    <3>2. Len(call[c].seen) <= N  BY DEF Stages, Stage
    <3>3. /\ call'[c].seen = call[c].seen /\ Len(call'[c].built) = Len(call[c].built) + 1
          /\ Len(call'[c].built) <= N /\ (call'[c].pc = "build" <=> Len(call'[c].built) < N)
      BY <2>1, <2>4 DEF Freed, GoesOn, IdleCall
    <3>4. Len(call[c].built) \in Nat  BY DEF Calling, CallRecords
    <3>5. call'[c].pc = "wlock" => Len(call'[c].built) = N  BY <3>3, <3>4, Order
    <3>6. Stage(c)'
      BY <2>1, <2>4, <3>1, <3>2, <3>3, <3>5
         DEF GoesOn, Stages, Stage, InSection, IsConfigCall
    <3> QED  BY <2>2, <3>6 DEF Stages
  <2> QED  BY <2>1, <2>3, <2>4
<1>10. ASSUME NEW c \in Calls, LockRegistry(c)  PROVE Stages'
  <2>1. /\ call[c].pc = "wlock" /\ OnlyMoves(c)
        /\ GoesOn(c, {"wlock", "swap"}) /\ Keeps(c)
    BY <1>10, CallMoves
  <2>2. ASSUME NEW d \in Calls, d # c  PROVE Stage(d)'
    BY <1>10, <2>1, <2>2 DEF LockRegistry, OnlyMoves, Stages, Stage, IsConfigCall
  <2>3. Stage(c)'
    BY <1>10, <2>1, Order, Values
       DEF LockRegistry, At, GoesOn, Keeps, Freed, IdleCall, Stages, Stage, InSection,
           IsConfigCall, NeedsRestart,
           Managed
  <2> QED  BY <2>2, <2>3 DEF Stages
<1>11. ASSUME NEW c \in Calls, SwapRegistries(c)  PROVE Stages'
  <2>1. /\ call[c].pc = "swap" /\ OnlyMoves(c)
        /\ GoesOn(c, {"wunlock"}) /\ Keeps(c)
    BY <1>11, CallMoves
  <2>2. ASSUME NEW d \in Calls, d # c  PROVE Stage(d)'
    BY <1>11, <2>1, <2>2 DEF SwapRegistries, OnlyMoves, Stages, Stage, IsConfigCall
  <2>3. Stage(c)'
    BY <1>11, <2>1, Order, Values
       DEF SwapRegistries, At, GoesOn, Keeps, Freed, IdleCall, Stages, Stage, InSection,
           IsConfigCall, NeedsRestart,
           Managed
  <2> QED  BY <2>2, <2>3 DEF Stages
<1>12. ASSUME NEW c \in Calls, UnlockRegistry(c)  PROVE Stages'
  <2>1. /\ call[c].pc = "wunlock" /\ OnlyMoves(c)
        /\ GoesOn(c, {"wunlock", "commit"}) /\ Keeps(c)
    BY <1>12, CallMoves
  <2>2. ASSUME NEW d \in Calls, d # c  PROVE Stage(d)'
    BY <1>12, <2>1, <2>2 DEF UnlockRegistry, OnlyMoves, Stages, Stage, IsConfigCall
  <2>3. Stage(c)'
    BY <1>12, <2>1, Order, Values
       DEF UnlockRegistry, At, GoesOn, Keeps, Freed, IdleCall, Stages, Stage, InSection,
           IsConfigCall, NeedsRestart,
           Managed
  <2> QED  BY <2>2, <2>3 DEF Stages
<1>13. ASSUME NEW c \in Calls, CommitReload(c)  PROVE Stages'
  <2>1. /\ call[c].pc = "commit" /\ OnlyMoves(c)
        /\ GoesOn(c, {"count"}) /\ Keeps(c)
    BY <1>13, CallMoves
  <2>2. ASSUME NEW d \in Calls, d # c  PROVE Stage(d)'
    BY <1>13, <2>1, <2>2 DEF CommitReload, OnlyMoves, Stages, Stage, IsConfigCall
  <2>3. Stage(c)'
    BY <1>13, <2>1, Order, Values
       DEF CommitReload, At, GoesOn, Keeps, Freed, IdleCall, Stages, Stage, InSection,
           IsConfigCall, NeedsRestart,
           Managed
  <2> QED  BY <2>2, <2>3 DEF Stages
<1>14. ASSUME NEW c \in Calls, CommitConfig(c)  PROVE Stages'
  <2>1. /\ call[c].pc = "commit" /\ OnlyMoves(c)
        /\ GoesOn(c, {"configure"}) /\ Keeps(c)
    BY <1>14, CallMoves
  <2>2. ASSUME NEW d \in Calls, d # c  PROVE Stage(d)'
    <3>1. call[d].pc \notin InSection  BY <2>1, <2>2, Values DEF Mutex, InSection
    <3> QED  BY <2>1, <2>2, <3>1 DEF OnlyMoves, Stages, Stage, IsConfigCall
  <2>3. Stage(c)'
    BY <1>14, <2>1, Order, Values
       DEF CommitConfig, At, GoesOn, Keeps, Freed, IdleCall, Stages, Stage, InSection,
           IsConfigCall, NeedsRestart,
           Managed
  <2> QED  BY <2>2, <2>3 DEF Stages
<1>15. ASSUME NEW c \in Calls, Configure(c)  PROVE Stages'
  <2>1. /\ call[c].pc = "configure" /\ OnlyMoves(c)
        /\ GoesOn(c, {"count"}) /\ Keeps(c)
    BY <1>15, CallMoves
  <2>2. ASSUME NEW d \in Calls, d # c  PROVE Stage(d)'
    BY <1>15, <2>1, <2>2 DEF Configure, OnlyMoves, Stages, Stage, IsConfigCall
  <2>3. Stage(c)'
    BY <1>15, <2>1, Order, Values
       DEF Configure, At, GoesOn, Keeps, Freed, IdleCall, Stages, Stage, InSection,
           IsConfigCall, NeedsRestart,
           Managed
  <2> QED  BY <2>2, <2>3 DEF Stages
<1>16. ASSUME NEW c \in Calls, CopySets(c)  PROVE Stages'
  <2>1. /\ call[c].pc = "count" /\ OnlyMoves(c)
        /\ GoesOn(c, {"tally"}) /\ call'[c].built = call[c].built /\ call'[c].seen = <<>>
    BY <1>16, CallMoves
  <2>2. ASSUME NEW d \in Calls, d # c  PROVE Stage(d)'
    BY <1>16, <2>1, <2>2 DEF CopySets, OnlyMoves, Stages, Stage, IsConfigCall
  <2>3. Stage(c)'
    BY <1>16, <2>1, Order, Values
       DEF CopySets, At, GoesOn, Keeps, Freed, IdleCall, Stages, Stage, InSection,
           IsConfigCall, NeedsRestart,
           Managed
  <2> QED  BY <2>2, <2>3 DEF Stages
<1>17. ASSUME NEW c \in Calls, TallySet(c)  PROVE Stages'
  <2>1. /\ call[c].pc = "tally" /\ OnlyMoves(c)
        /\ GoesOn(c, {"tally", "count", "publish"}) /\ call'[c].built = call[c].built
           /\ Len(call'[c].seen) = Len(call[c].seen) + 1 /\ Len(call'[c].seen) <= N
           /\ (call'[c].pc = "tally" <=> Len(call'[c].seen) < N)
    BY <1>17, CallMoves
  <2>2. ASSUME NEW d \in Calls, d # c  PROVE Stage(d)'
    BY <1>17, <2>1, <2>2 DEF TallySet, OnlyMoves, Stages, Stage, IsConfigCall
  <2>3. Len(call[c].built) <= N  BY DEF Stages, Stage
  <2>4. call'[c].pc = "publish" => Len(call'[c].seen) = N  BY <2>1, Order
  <2>5. Stage(c)'  BY <2>1, <2>3, <2>4 DEF GoesOn, Stage, InSection
  <2> QED  BY <2>2, <2>5 DEF Stages
<1>18. ASSUME NEW c \in Calls, Publish(c)  PROVE Stages'
  <2>1. /\ call[c].pc = "publish" /\ OnlyMoves(c)
        /\ Freed(c)
    BY <1>18, CallMoves
  <2>2. ASSUME NEW d \in Calls, d # c  PROVE Stage(d)'
    BY <1>18, <2>1, <2>2 DEF Publish, OnlyMoves, Stages, Stage, IsConfigCall
  <2>3. Stage(c)'
    BY <1>18, <2>1, Order, Values
       DEF Publish, At, GoesOn, Keeps, Freed, IdleCall, Stages, Stage, InSection, IsConfigCall,
           NeedsRestart,
           Managed
  <2> QED  BY <2>2, <2>3 DEF Stages
<1>19. ASSUME NEW p \in Paths, NEW v \in Configs \cup {Bad}, EditConfigFile(p, v)
      PROVE  Stages'
  BY <1>1, <1>19 DEF EditConfigFile
<1>20. ASSUME NEW d \in Srcs, NEW s \in Sets, NEW v \in Contents \cup {Bad}, EditScenarios(d, s, v)
      PROVE  Stages'
  BY <1>1, <1>20 DEF EditScenarios
<1> QED
  BY <1>2, <1>3, <1>4, <1>5, <1>6, <1>7, <1>8, <1>9, <1>10, <1>11, <1>12, <1>13, <1>14,
     <1>15, <1>16, <1>17, <1>18, <1>19, <1>20
     DEF Next, CallStep

\* How many registries are locked.
LEMMA LockedCount ==
    ASSUME Locks
    PROVE  /\ Cardinality(wlocked) \in 0..N /\ wlocked = Prefix(Cardinality(wlocked))
           /\ (wlocked = {} <=> Cardinality(wlocked) = 0)
<1>1. PICK k \in 0..N : wlocked = Prefix(k)  BY DEF Locks
<1>2. Cardinality(wlocked) = k  BY <1>1, PrefixCount
<1> QED  BY <1>1, <1>2, PrefixCount

\* A step outside the critical section leaves the locks alone.
LEMMA LocksStay ==
    ASSUME Locks, NEW c \in Calls, OnlyMoves(c), UNCHANGED <<wlocked, mu>>,
           call'[c].pc \notin InSection
    PROVE  Locks'
BY DEF Locks, OnlyMoves, InSection

\* A step that is not at the swap or after it leaves the sources alone.
LEMMA SourcesStay ==
    ASSUME Sources, NEW c \in Calls, OnlyMoves(c), UNCHANGED <<cfg, spec, active>>,
           call[c].pc \notin {"wunlock", "commit"}, call'[c].pc \notin {"wunlock", "commit"}
    PROVE  Sources'
<1>1. \A d \in Calls \ {c}, s \in Sets : SourceOf(d, s)' = SourceOf(d, s)
  BY DEF OnlyMoves, SourceOf, IsConfigCall
<1>2. \A d \in Calls : d # c => call'[d].pc = call[d].pc  BY DEF OnlyMoves
<1> QED  BY <1>1, <1>2 DEF Sources

\* The registries are locked and unlocked in order.
LEMMA LocksStep ==
    ASSUME Managed, Calling, Stages, Served, Mutex, Locks, Next
    PROVE  Locks'
<1>1. ASSUME UNCHANGED <<call, mu, wlocked>>
      PROVE  Locks'
  BY <1>1 DEF Locks
<1> USE DEF mgrVars, regVars, pubVars, envVars
<1>2. ASSUME NEW c \in Calls, NEW kind \in Kinds, NEW p \in Paths, Arrive(c, kind, p)
      PROVE  Locks'
  <2>1. /\ call[c].pc = "idle" /\ OnlyMoves(c) /\ call'[c].pc = "auth"
        /\ call'[c].built = <<>> /\ call'[c].seen = <<>>
    BY <1>2, Arrives
  <2> QED
    BY <1>2, <2>1, Values DEF Arrive, Mutex, InSection, OnlyMoves, IdleCall, Managed, Locks
<1>3. ASSUME NEW c \in Calls, Outside(c)  PROVE Locks'
  <2>1. /\ OnlyMoves(c) /\ call[c].pc \notin InSection /\ call'[c].pc \notin InSection
        /\ UNCHANGED <<cfg, spec, mu, active, wlocked, swaps, arrived>>
        /\ c \in Waiting' => c \in Waiting
    BY <1>3, OutsideMoves
  <2> QED  BY <2>1, LocksStay
<1>4. ASSUME NEW c \in Calls, LockForReload(c)  PROVE Locks'
  <2>1. /\ call[c].pc = "lock" /\ OnlyMoves(c)
        /\ GoesOn(c, {"build"}) /\ Keeps(c)
    BY <1>4, CallMoves
  <2> QED
    BY <1>4, <2>1, Values
       DEF LockForReload, Mutex, InSection, GoesOn, Freed, OnlyMoves, IdleCall, Managed, Locks
<1>5. ASSUME NEW c \in Calls, LockForConfig(c)  PROVE Locks'
  <2>1. /\ call[c].pc = "lock" /\ OnlyMoves(c)
        /\ \/ Freed(c) /\ mu' = mu
           \/ GoesOn(c, {"build"}) /\ Keeps(c) /\ mu' = c /\ ~NeedsRestart(c)
    BY <1>5, CallMoves
  <2>2. wlocked' = {} /\ wlocked = {}  BY <1>5 DEF LockForConfig, Locks
  <2>3. CASE Freed(c) /\ mu' = mu
    <3>1. call'[c].pc \notin InSection  BY <2>3 DEF Freed, IdleCall, InSection
    <3> QED  BY <2>1, <2>2, <2>3, <3>1, LocksStay
  <2>4. CASE GoesOn(c, {"build"}) /\ mu' = c
    <3>1. \A d \in Calls \ {c} : call'[d].pc \notin InSection
      BY <1>5, <2>1, Values DEF LockForConfig, Mutex, OnlyMoves, Managed
    <3>2. 0 \in 0..N /\ Prefix(0) = {}  BY Order, PrefixCount
    <3> QED  BY <2>2, <2>4, <3>1, <3>2, Values DEF Locks, GoesOn, InSection
  <2> QED  BY <2>1, <2>3, <2>4
<1>6. ASSUME NEW c \in Calls, BuildReplacement(c)  PROVE Locks'
  <2>1. /\ call[c].pc = "build" /\ OnlyMoves(c)
        /\ \/ Freed(c) /\ mu' = "free"
           \/ /\ GoesOn(c, {"build", "wlock"}) /\ mu' = mu /\ call'[c].seen = call[c].seen
              /\ \E v \in Contents : /\ call'[c].built = Append(call[c].built, v)
                                    /\ SameTopology(active[SetSeq[Len(call[c].built) + 1]].content, v)
              /\ Len(call'[c].built) = Len(call[c].built) + 1 /\ Len(call'[c].built) <= N
              /\ call'[c].pc = "build" <=> Len(call'[c].built) < N
    BY <1>6, CallMoves
  <2>2. wlocked' = {} /\ wlocked = {}  BY <1>6, <2>1 DEF BuildReplacement, Locks
  <2>3. \A d \in Calls \ {c} : call'[d].pc \notin InSection
    BY <2>1 DEF Mutex, InSection, OnlyMoves
  <2>4. call'[c].pc \in {"idle", "build", "wlock"}  BY <2>1 DEF GoesOn, Freed, IdleCall
  <2>5. 0 \in 0..N /\ Prefix(0) = {} /\ Cardinality({}) = 0 /\ 0 < N
    BY Order, PrefixCount, FS_EmptySet
  <2> QED  BY <2>2, <2>3, <2>4, <2>5 DEF Locks, InSection
<1>7. ASSUME NEW c \in Calls, LockRegistry(c)  PROVE Locks'
  <2>1. /\ call[c].pc = "wlock" /\ OnlyMoves(c)
        /\ GoesOn(c, {"wlock", "swap"}) /\ Keeps(c)
    BY <1>7, CallMoves
  <2> DEFINE k == Cardinality(wlocked)
             pc == IF k + 1 = N THEN "swap" ELSE "wlock"
  <2>2. k \in 0..N /\ k < N /\ wlocked = Prefix(k)
    BY <2>1, LockedCount DEF Locks
  <2>3. wlocked' = Prefix(k + 1) /\ k + 1 \in 0..N
    BY <1>7, <2>2, PrefixNext, Order DEF LockRegistry
  <2>4. Goto(c, pc) /\ pc \in Pcs  BY <1>7 DEF LockRegistry, N, Pcs
  <2>5. call'[c].pc = pc  BY <2>4, Motion DEF GoesOn
  <2>6. Cardinality(wlocked') = k + 1 /\ (k + 1 = N => wlocked' = Sets)  BY <2>3, PrefixCount
  <2>7. mu = c /\ mu' = mu /\ \A d \in Calls \ {c} : call'[d].pc \notin InSection
    BY <1>7, <2>1 DEF LockRegistry, Mutex, InSection, OnlyMoves
  <2>8. k + 1 # N => k + 1 < N  BY <2>3, Order
  <2> HIDE DEF k
  <2> QED  BY <2>3, <2>5, <2>6, <2>7, <2>8, Values DEF Locks, InSection
<1>8. ASSUME NEW c \in Calls, SwapRegistries(c)  PROVE Locks'
  <2>1. /\ call[c].pc = "swap" /\ OnlyMoves(c)
        /\ GoesOn(c, {"wunlock"}) /\ Keeps(c)
    BY <1>8, CallMoves
  <2>2. Sets # {}  BY Order
  <2> QED
    BY <1>8, <2>1, <2>2, Values
       DEF SwapRegistries, Mutex, InSection, GoesOn, Freed, OnlyMoves, IdleCall, Managed, Locks
<1>9. ASSUME NEW c \in Calls, UnlockRegistry(c)  PROVE Locks'
  <2>1. /\ call[c].pc = "wunlock" /\ OnlyMoves(c)
        /\ GoesOn(c, {"wunlock", "commit"}) /\ Keeps(c)
    BY <1>9, CallMoves
  <2> DEFINE k == Cardinality(wlocked)
             pc == IF k = 1 THEN "commit" ELSE "wunlock"
  <2>2. k \in 0..N /\ k > 0 /\ wlocked = Prefix(k)
    BY <2>1, LockedCount, Order DEF Locks
  <2>3. wlocked' = Prefix(k - 1) /\ k - 1 \in 0..N
    BY <1>9, <2>2, PrefixNext, Order DEF UnlockRegistry
  <2>4. Goto(c, pc) /\ pc \in Pcs  BY <1>9 DEF UnlockRegistry, Pcs
  <2>5. call'[c].pc = pc  BY <2>4, Motion DEF GoesOn
  <2>6. wlocked' = {} <=> k - 1 = 0  BY <2>3, PrefixCount
  <2>7. mu = c /\ mu' = mu /\ \A d \in Calls \ {c} : call'[d].pc \notin InSection
    BY <1>9, <2>1 DEF UnlockRegistry, Mutex, InSection, OnlyMoves
  <2>8. k = 1 <=> k - 1 = 0  BY <2>2, Order
  <2> HIDE DEF k
  <2> QED  BY <2>3, <2>5, <2>6, <2>7, <2>8, Values DEF Locks, InSection
<1>10. ASSUME NEW c \in Calls, CommitReload(c)  PROVE Locks'
  <2>1. /\ call[c].pc = "commit" /\ OnlyMoves(c)
        /\ GoesOn(c, {"count"}) /\ Keeps(c)
    BY <1>10, CallMoves
  <2> QED
    BY <1>10, <2>1, Values
       DEF CommitReload, Mutex, InSection, GoesOn, Freed, OnlyMoves, IdleCall, Managed, Locks
<1>11. ASSUME NEW c \in Calls, CommitConfig(c)  PROVE Locks'
  <2>1. /\ call[c].pc = "commit" /\ OnlyMoves(c)
        /\ GoesOn(c, {"configure"}) /\ Keeps(c)
    BY <1>11, CallMoves
  <2> QED
    BY <1>11, <2>1, Values
       DEF CommitConfig, Mutex, InSection, GoesOn, Freed, OnlyMoves, IdleCall, Managed, Locks
<1>12. ASSUME NEW p \in Paths, NEW v \in Configs \cup {Bad}, EditConfigFile(p, v)
      PROVE  Locks'
  BY <1>1, <1>12 DEF EditConfigFile
<1>13. ASSUME NEW d \in Srcs, NEW s \in Sets, NEW v \in Contents \cup {Bad}, EditScenarios(d, s, v)
      PROVE  Locks'
  BY <1>1, <1>13 DEF EditScenarios
<1> QED
  BY <1>2, <1>3, <1>4, <1>5, <1>6, <1>7, <1>8, <1>9, <1>10, <1>11, <1>12, <1>13
     DEF Next, CallStep, Outside

\* The registries, m.sets and m.cfg change together.
LEMMA SourcesStep ==
    ASSUME Managed, Calling, Stages, Served, Mutex, Sources, Next
    PROVE  Sources'
<1>1. ASSUME UNCHANGED <<call, cfg, spec, active>>
      PROVE  Sources'
  BY <1>1 DEF Sources, SourceOf, IsConfigCall
<1> USE DEF mgrVars, regVars, pubVars, envVars
<1>2. ASSUME NEW c \in Calls, NEW kind \in Kinds, NEW p \in Paths, Arrive(c, kind, p)
      PROVE  Sources'
  <2>1. /\ call[c].pc = "idle" /\ OnlyMoves(c) /\ call'[c].pc = "auth"
        /\ call'[c].built = <<>> /\ call'[c].seen = <<>>
    BY <1>2, Arrives
  <2> QED
    BY <1>2, <2>1, Values
       DEF Arrive, Mutex, InSection, OnlyMoves, IdleCall, Managed, Sources, SourceOf,
           IsConfigCall
<1>3. ASSUME NEW c \in Calls, Outside(c)  PROVE Sources'
  <2>1. /\ OnlyMoves(c) /\ call[c].pc \notin InSection /\ call'[c].pc \notin InSection
        /\ UNCHANGED <<cfg, spec, mu, active, wlocked, swaps, arrived>>
        /\ c \in Waiting' => c \in Waiting
    BY <1>3, OutsideMoves
  <2> QED  BY <2>1, SourcesStay DEF InSection
<1>4. ASSUME NEW c \in Calls, LockForReload(c)  PROVE Sources'
  <2>1. /\ call[c].pc = "lock" /\ OnlyMoves(c)
        /\ GoesOn(c, {"build"}) /\ Keeps(c)
    BY <1>4, CallMoves
  <2>2. call'[c].pc \notin {"wunlock", "commit"}  BY <2>1 DEF GoesOn, Freed, IdleCall
  <2>3. UNCHANGED <<cfg, spec, active>>  BY <1>4 DEF LockForReload
  <2> QED  BY <2>1, <2>2, <2>3, SourcesStay
<1>5. ASSUME NEW c \in Calls, LockForConfig(c)  PROVE Sources'
  <2>1. /\ call[c].pc = "lock" /\ OnlyMoves(c)
        /\ \/ Freed(c) /\ mu' = mu
           \/ GoesOn(c, {"build"}) /\ Keeps(c) /\ mu' = c /\ ~NeedsRestart(c)
    BY <1>5, CallMoves
  <2>2. call'[c].pc \notin {"wunlock", "commit"}  BY <2>1 DEF GoesOn, Freed, IdleCall
  <2>3. UNCHANGED <<cfg, spec, active>>  BY <1>5 DEF LockForConfig
  <2> QED  BY <2>1, <2>2, <2>3, SourcesStay
<1>6. ASSUME NEW c \in Calls, BuildReplacement(c)  PROVE Sources'
  <2>1. /\ call[c].pc = "build" /\ OnlyMoves(c)
        /\ \/ Freed(c) /\ mu' = "free"
           \/ /\ GoesOn(c, {"build", "wlock"}) /\ mu' = mu /\ call'[c].seen = call[c].seen
              /\ \E v \in Contents : /\ call'[c].built = Append(call[c].built, v)
                                    /\ SameTopology(active[SetSeq[Len(call[c].built) + 1]].content, v)
              /\ Len(call'[c].built) = Len(call[c].built) + 1 /\ Len(call'[c].built) <= N
              /\ call'[c].pc = "build" <=> Len(call'[c].built) < N
    BY <1>6, CallMoves
  <2>2. call'[c].pc \notin {"wunlock", "commit"}  BY <2>1 DEF GoesOn, Freed, IdleCall
  <2>3. UNCHANGED <<cfg, spec, active>>  BY <1>6 DEF BuildReplacement
  <2> QED  BY <2>1, <2>2, <2>3, SourcesStay
<1>7. ASSUME NEW c \in Calls, LockRegistry(c)  PROVE Sources'
  <2>1. /\ call[c].pc = "wlock" /\ OnlyMoves(c)
        /\ GoesOn(c, {"wlock", "swap"}) /\ Keeps(c)
    BY <1>7, CallMoves
  <2>2. call'[c].pc \notin {"wunlock", "commit"}  BY <2>1 DEF GoesOn, Freed, IdleCall
  <2>3. UNCHANGED <<cfg, spec, active>>  BY <1>7 DEF LockRegistry
  <2> QED  BY <2>1, <2>2, <2>3, SourcesStay
<1>8. ASSUME NEW c \in Calls, SwapRegistries(c)  PROVE Sources'
  <2>1. /\ call[c].pc = "swap" /\ OnlyMoves(c)
        /\ GoesOn(c, {"wunlock"}) /\ Keeps(c)
    BY <1>8, CallMoves
  <2>2. mu = c /\ \A d \in Calls \ {c} : call'[d].pc \notin InSection
    BY <2>1 DEF Mutex, InSection, OnlyMoves
  <2>3. \A s \in Sets : SourceOf(c, s)' = SourceOf(c, s)
    BY <1>8, <2>1 DEF SwapRegistries, GoesOn, SourceOf, IsConfigCall
  <2>4. \A s \in Sets : active'[s].src = SourceOf(c, s)  BY <1>8 DEF SwapRegistries
  <2>5. \A s \in Sets : spec'[s] = cfg'.src  BY <1>8 DEF SwapRegistries, Sources
  <2>6. call'[c].pc = "wunlock"  BY <2>1 DEF GoesOn
  <2> QED  BY <2>2, <2>3, <2>4, <2>5, <2>6 DEF Sources, InSection
<1>9. ASSUME NEW c \in Calls, UnlockRegistry(c)  PROVE Sources'
  <2>1. /\ call[c].pc = "wunlock" /\ OnlyMoves(c)
        /\ GoesOn(c, {"wunlock", "commit"}) /\ Keeps(c)
    BY <1>9, CallMoves
  <2>2. UNCHANGED <<cfg, spec, active>> /\ call'[c].pc \in {"wunlock", "commit"}
    BY <1>9, <2>1 DEF UnlockRegistry, GoesOn
  <2>3. \A d \in Calls \ {c} : call'[d].pc \notin InSection
    BY <2>1 DEF Mutex, InSection, OnlyMoves
  <2>4. \A s \in Sets : SourceOf(c, s)' = SourceOf(c, s)
    BY <2>1, <2>2 DEF GoesOn, SourceOf, IsConfigCall
  <2> QED  BY <2>1, <2>2, <2>3, <2>4 DEF Sources, InSection
<1>10. ASSUME NEW c \in Calls, CommitReload(c)  PROVE Sources'
  <2>1. /\ call[c].pc = "commit" /\ OnlyMoves(c)
        /\ GoesOn(c, {"count"}) /\ Keeps(c)
    BY <1>10, CallMoves
  <2>2. mu = c /\ \A d \in Calls \ {c} : call'[d].pc \notin InSection
    BY <2>1 DEF Mutex, InSection, OnlyMoves
  <2>3. \A s \in Sets : active'[s].src = SourceOf(c, s) /\ spec[s] = cfg.src
    BY <1>10, <2>1 DEF CommitReload, Sources
  <2>4. \A d \in Calls : call'[d].pc \notin {"wunlock", "commit"}
    BY <2>1, <2>2 DEF GoesOn, InSection
  <2> QED  BY <1>10, <2>3, <2>4 DEF CommitReload, Sources, SourceOf
<1>11. ASSUME NEW c \in Calls, CommitConfig(c)  PROVE Sources'
  <2>1. /\ call[c].pc = "commit" /\ OnlyMoves(c)
        /\ GoesOn(c, {"configure"}) /\ Keeps(c)
    BY <1>11, CallMoves
  <2>2. mu = c /\ \A d \in Calls \ {c} : call'[d].pc \notin InSection
    BY <2>1 DEF Mutex, InSection, OnlyMoves
  <2>3. \A s \in Sets : active'[s].src = SourceOf(c, s) /\ spec[s] = cfg.src
    BY <1>11, <2>1 DEF CommitConfig, Sources
  <2>4. \A d \in Calls : call'[d].pc \notin {"wunlock", "commit"}
    BY <2>1, <2>2 DEF GoesOn, InSection
  <2> QED  BY <1>11, <2>3, <2>4 DEF CommitConfig, Sources, SourceOf
<1>12. ASSUME NEW p \in Paths, NEW v \in Configs \cup {Bad}, EditConfigFile(p, v)
      PROVE  Sources'
  BY <1>1, <1>12 DEF EditConfigFile
<1>13. ASSUME NEW d \in Srcs, NEW s \in Sets, NEW v \in Contents \cup {Bad}, EditScenarios(d, s, v)
      PROVE  Sources'
  BY <1>1, <1>13 DEF EditScenarios
<1> QED
  BY <1>2, <1>3, <1>4, <1>5, <1>6, <1>7, <1>8, <1>9, <1>10, <1>11, <1>12, <1>13
     DEF Next, CallStep, Outside

\* A swap replaces all registries.
LEMMA GenerationStep ==
    ASSUME OneGeneration, Next
    PROVE  OneGeneration'
<1>1. ASSUME UNCHANGED <<active, swaps>>
      PROVE  OneGeneration'
  BY <1>1 DEF OneGeneration
<1> USE DEF mgrVars, regVars, pubVars, envVars
<1>2. ASSUME NEW c \in Calls, NEW kind \in Kinds, NEW p \in Paths, Arrive(c, kind, p)
      PROVE  OneGeneration'
  BY <1>1, <1>2 DEF Arrive, At
<1>3. ASSUME NEW c \in Calls, Outside(c)  PROVE OneGeneration'
  BY <1>3
     DEF Outside, Authenticate, Allow, ReadCurrentPath, LoadAndValidate, Configure,
         CopySets, TallySet, Publish, OneGeneration
<1>4. ASSUME NEW c \in Calls, LockForReload(c)  PROVE OneGeneration'
  BY <1>1, <1>4 DEF LockForReload, At, Goto
<1>5. ASSUME NEW c \in Calls, LockForConfig(c)  PROVE OneGeneration'
  BY <1>1, <1>5 DEF LockForConfig, At, Answer, Goto
<1>6. ASSUME NEW c \in Calls, BuildReplacement(c)  PROVE OneGeneration'
  BY <1>1, <1>6 DEF BuildReplacement, At, Answer
<1>7. ASSUME NEW c \in Calls, LockRegistry(c)  PROVE OneGeneration'
  BY <1>1, <1>7 DEF LockRegistry, At, Goto
<1>8. ASSUME NEW c \in Calls, SwapRegistries(c)  PROVE OneGeneration'
  BY <1>8 DEF SwapRegistries, At, Goto, OneGeneration
<1>9. ASSUME NEW c \in Calls, UnlockRegistry(c)  PROVE OneGeneration'
  BY <1>1, <1>9 DEF UnlockRegistry, At, Goto
<1>10. ASSUME NEW c \in Calls, CommitReload(c)  PROVE OneGeneration'
  BY <1>1, <1>10 DEF CommitReload, At, Goto
<1>11. ASSUME NEW c \in Calls, CommitConfig(c)  PROVE OneGeneration'
  BY <1>1, <1>11 DEF CommitConfig, At, Goto
<1>12. ASSUME NEW p \in Paths, NEW v \in Configs \cup {Bad}, EditConfigFile(p, v)
      PROVE  OneGeneration'
  BY <1>1, <1>12 DEF EditConfigFile
<1>13. ASSUME NEW d \in Srcs, NEW s \in Sets, NEW v \in Contents \cup {Bad}, EditScenarios(d, s, v)
      PROVE  OneGeneration'
  BY <1>1, <1>13 DEF EditScenarios
<1> QED
  BY <1>2, <1>3, <1>4, <1>5, <1>6, <1>7, <1>8, <1>9, <1>10, <1>11, <1>12, <1>13
     DEF Next, CallStep, Outside

\* A step that starts or ends no build leaves the replacements alone.
LEMMA FittingStays ==
    ASSUME Fitting, NEW c \in Calls, OnlyMoves(c), active' = active,
           call'[c].pc \in {"build", "wlock", "swap"} => /\ call[c].pc \in {"build", "wlock", "swap"}
                                                         /\ call'[c].built = call[c].built
    PROVE  Fitting'
BY DEF Fitting, OnlyMoves

\* What was checked when a replacement was built still holds when it is swapped in.
LEMMA FittingStep ==
    ASSUME Managed, Calling, Stages, Served, Mutex, Fitting, Next
    PROVE  Fitting'
<1>1. ASSUME UNCHANGED <<call, active>>
      PROVE  Fitting'
  BY <1>1 DEF Fitting, SameTopology
<1> USE DEF mgrVars, regVars, pubVars, envVars
<1>2. ASSUME NEW c \in Calls, NEW kind \in Kinds, NEW p \in Paths, Arrive(c, kind, p)
      PROVE  Fitting'
  <2>1. /\ call[c].pc = "idle" /\ OnlyMoves(c) /\ call'[c].pc = "auth"
        /\ call'[c].built = <<>> /\ call'[c].seen = <<>>
    BY <1>2, Arrives
  <2>2. active' = active  BY <1>2 DEF Arrive
  <2> QED  BY <2>1, <2>2, FittingStays
<1>3. ASSUME NEW c \in Calls, Outside(c)  PROVE Fitting'
  <2>1. /\ OnlyMoves(c) /\ call[c].pc \notin InSection /\ call'[c].pc \notin InSection
        /\ UNCHANGED <<cfg, spec, mu, active, wlocked, swaps, arrived>>
        /\ c \in Waiting' => c \in Waiting
    BY <1>3, OutsideMoves
  <2> QED  BY <2>1, FittingStays DEF InSection
<1>4. ASSUME NEW c \in Calls, LockForReload(c)  PROVE Fitting'
  <2>1. /\ call[c].pc = "lock" /\ OnlyMoves(c)
        /\ GoesOn(c, {"build"}) /\ Keeps(c)
    BY <1>4, CallMoves
  <2>2. active' = active  BY <1>4 DEF LockForReload
  <2>3. call[c].built = <<>>  BY <2>1 DEF Stages, Stage
  <2>4. call'[c].built = <<>>  BY <2>1, <2>3, IdleIsACall DEF Keeps, Freed
  <2> QED  BY <2>1, <2>2, <2>4 DEF Fitting, OnlyMoves
<1>5. ASSUME NEW c \in Calls, LockForConfig(c)  PROVE Fitting'
  <2>1. /\ call[c].pc = "lock" /\ OnlyMoves(c)
        /\ \/ Freed(c) /\ mu' = mu
           \/ GoesOn(c, {"build"}) /\ Keeps(c) /\ mu' = c /\ ~NeedsRestart(c)
    BY <1>5, CallMoves
  <2>2. active' = active  BY <1>5 DEF LockForConfig
  <2>3. call[c].built = <<>>  BY <2>1 DEF Stages, Stage
  <2>4. call'[c].built = <<>>  BY <2>1, <2>3, IdleIsACall DEF Keeps, Freed
  <2> QED  BY <2>1, <2>2, <2>4 DEF Fitting, OnlyMoves
<1>6. ASSUME NEW c \in Calls, BuildReplacement(c)  PROVE Fitting'
  <2>1. /\ call[c].pc = "build" /\ OnlyMoves(c)
        /\ \/ Freed(c) /\ mu' = "free"
           \/ /\ GoesOn(c, {"build", "wlock"}) /\ mu' = mu /\ call'[c].seen = call[c].seen
              /\ \E v \in Contents : /\ call'[c].built = Append(call[c].built, v)
                                    /\ SameTopology(active[SetSeq[Len(call[c].built) + 1]].content, v)
              /\ Len(call'[c].built) = Len(call[c].built) + 1 /\ Len(call'[c].built) <= N
              /\ call'[c].pc = "build" <=> Len(call'[c].built) < N
    BY <1>6, CallMoves
  <2>2. active' = active  BY <1>6 DEF BuildReplacement
  <2>3. CASE Freed(c)  BY <2>1, <2>2, <2>3, FittingStays DEF Freed, IdleCall
  <2>4. CASE ~Freed(c)
    <3>1. PICK v \in Contents :
            /\ call'[c].built = Append(call[c].built, v)
            /\ SameTopology(active[SetSeq[Len(call[c].built) + 1]].content, v)
      BY <2>1, <2>4
    <3>2. call[c].built \in Seq(Contents)  BY DEF Calling, CallRecords
    <3>3. \A i \in 1..Len(call[c].built) : SameTopology(active[SetSeq[i]].content, call[c].built[i])
      BY <2>1 DEF Fitting
    <3>4. ASSUME NEW i \in 1..Len(call'[c].built)
          PROVE  SameTopology(active[SetSeq[i]].content, call'[c].built[i])
      <4>1. CASE i = Len(call[c].built) + 1
        <5>1. call'[c].built[i] = v  BY <3>1, <3>2, <4>1
        <5> QED  BY <3>1, <4>1, <5>1
      <4>2. CASE i # Len(call[c].built) + 1
        <5>1. i \in 1..Len(call[c].built) /\ call'[c].built[i] = call[c].built[i]
          BY <3>1, <3>2, <4>2
        <5> QED  BY <3>3, <5>1
      <4> QED  BY <4>1, <4>2
    <3>5. ASSUME NEW d \in Calls, call'[d].pc \in {"build", "wlock", "swap"},
                 NEW i \in 1..Len(call'[d].built)
          PROVE  SameTopology(active[SetSeq[i]].content, call'[d].built[i])
      <4>1. CASE d = c  BY <3>4, <4>1
      <4>2. CASE d # c  BY <2>1, <3>5, <4>2 DEF Fitting, OnlyMoves
      <4> QED  BY <4>1, <4>2
    <3> QED  BY <2>2, <3>5 DEF Fitting, SameTopology
  <2> QED  BY <2>3, <2>4
<1>7. ASSUME NEW c \in Calls, LockRegistry(c)  PROVE Fitting'
  <2>1. /\ call[c].pc = "wlock" /\ OnlyMoves(c)
        /\ GoesOn(c, {"wlock", "swap"}) /\ Keeps(c)
    BY <1>7, CallMoves
  <2>2. active' = active  BY <1>7 DEF LockRegistry
  <2> QED  BY <2>1, <2>2, FittingStays DEF Keeps
<1>8. ASSUME NEW c \in Calls, SwapRegistries(c)  PROVE Fitting'
  <2>1. /\ call[c].pc = "swap" /\ OnlyMoves(c)
        /\ GoesOn(c, {"wunlock"}) /\ Keeps(c)
    BY <1>8, CallMoves
  <2>2. \A d \in Calls : call'[d].pc \notin {"build", "wlock", "swap"}
    BY <2>1 DEF Mutex, InSection, OnlyMoves, GoesOn
  <2> QED  BY <2>2 DEF Fitting
<1>9. ASSUME NEW c \in Calls, UnlockRegistry(c)  PROVE Fitting'
  <2>1. /\ call[c].pc = "wunlock" /\ OnlyMoves(c)
        /\ GoesOn(c, {"wunlock", "commit"}) /\ Keeps(c)
    BY <1>9, CallMoves
  <2>2. call'[c].pc \notin {"build", "wlock", "swap"}  BY <2>1 DEF GoesOn, Freed, IdleCall
  <2>3. active' = active  BY <1>9 DEF UnlockRegistry
  <2> QED  BY <2>1, <2>2, <2>3, FittingStays
<1>10. ASSUME NEW c \in Calls, CommitReload(c)  PROVE Fitting'
  <2>1. /\ call[c].pc = "commit" /\ OnlyMoves(c)
        /\ GoesOn(c, {"count"}) /\ Keeps(c)
    BY <1>10, CallMoves
  <2>2. call'[c].pc \notin {"build", "wlock", "swap"}  BY <2>1 DEF GoesOn, Freed, IdleCall
  <2>3. active' = active  BY <1>10 DEF CommitReload
  <2> QED  BY <2>1, <2>2, <2>3, FittingStays
<1>11. ASSUME NEW c \in Calls, CommitConfig(c)  PROVE Fitting'
  <2>1. /\ call[c].pc = "commit" /\ OnlyMoves(c)
        /\ GoesOn(c, {"configure"}) /\ Keeps(c)
    BY <1>11, CallMoves
  <2>2. call'[c].pc \notin {"build", "wlock", "swap"}  BY <2>1 DEF GoesOn, Freed, IdleCall
  <2>3. active' = active  BY <1>11 DEF CommitConfig
  <2> QED  BY <2>1, <2>2, <2>3, FittingStays
<1>12. ASSUME NEW p \in Paths, NEW v \in Configs \cup {Bad}, EditConfigFile(p, v)
      PROVE  Fitting'
  BY <1>1, <1>12 DEF EditConfigFile
<1>13. ASSUME NEW d \in Srcs, NEW s \in Sets, NEW v \in Contents \cup {Bad}, EditScenarios(d, s, v)
      PROVE  Fitting'
  BY <1>1, <1>13 DEF EditScenarios
<1> QED
  BY <1>2, <1>3, <1>4, <1>5, <1>6, <1>7, <1>8, <1>9, <1>10, <1>11, <1>12, <1>13
     DEF Next, CallStep, Outside

\* The calls that have yet to swap are finitely many.
LEMMA WaitingFinite ==
    IsFiniteSet(Waiting) /\ Cardinality(Waiting) \in Nat
<1>1. IsFiniteSet(Calls) /\ Waiting \subseteq Calls
  BY ManagerAssumption DEF ManagerAssumption, Waiting
<1> QED  BY <1>1, FS_Subset, FS_CardinalityType

\* A call that goes on towards its swap or gives up spends nothing.
LEMMA WaitingShrinks ==
    ASSUME Managed, SwapsRequested, NEW c \in Calls, OnlyMoves(c), UNCHANGED <<swaps, arrived>>,
           c \in Waiting' => c \in Waiting
    PROVE  SwapsRequested'
<1>1. Waiting' = Waiting \/ Waiting' = Waiting \ {c}  BY DEF Waiting, OnlyMoves
<1>2. Cardinality(Waiting') <= Cardinality(Waiting) /\ Cardinality(Waiting') \in Nat
  BY <1>1, WaitingFinite, FS_Subset, FS_CardinalityType
<1> QED  BY <1>2, WaitingFinite DEF SwapsRequested, Managed

\* Every swap has its request.
LEMMA RequestedStep ==
    ASSUME Managed, Calling, Stages, Served, SwapsRequested, Next
    PROVE  SwapsRequested'
<1>1. ASSUME UNCHANGED <<call, swaps, arrived>>
      PROVE  SwapsRequested'
  BY <1>1 DEF SwapsRequested, Waiting
<1> USE DEF mgrVars, regVars, pubVars, envVars
<1>2. ASSUME NEW c \in Calls, NEW kind \in Kinds, NEW p \in Paths, Arrive(c, kind, p)
      PROVE  SwapsRequested'
  <2>1. /\ call[c].pc = "idle" /\ OnlyMoves(c) /\ call'[c].pc = "auth"
        /\ call'[c].built = <<>> /\ call'[c].seen = <<>>
    BY <1>2, Arrives
  <2>2. c \notin Waiting /\ Waiting' = Waiting \cup {c}  BY <2>1 DEF Waiting, OnlyMoves
  <2>3. Cardinality(Waiting') = Cardinality(Waiting) + 1  BY <2>2, WaitingFinite, FS_AddElement
  <2>4. swaps' = swaps /\ arrived' = arrived + 1  BY <1>2 DEF Arrive
  <2> QED  BY <2>3, <2>4, WaitingFinite DEF SwapsRequested, Managed
<1>3. ASSUME NEW c \in Calls, Outside(c)  PROVE SwapsRequested'
  <2>1. /\ OnlyMoves(c) /\ call[c].pc \notin InSection /\ call'[c].pc \notin InSection
        /\ UNCHANGED <<cfg, spec, mu, active, wlocked, swaps, arrived>>
        /\ c \in Waiting' => c \in Waiting
    BY <1>3, OutsideMoves
  <2> QED  BY <2>1, WaitingShrinks
<1>4. ASSUME NEW c \in Calls, LockForReload(c)  PROVE SwapsRequested'
  <2>1. /\ call[c].pc = "lock" /\ OnlyMoves(c)
        /\ GoesOn(c, {"build"}) /\ Keeps(c)
    BY <1>4, CallMoves
  <2>2. c \in Waiting  BY <2>1 DEF Waiting
  <2>3. UNCHANGED <<swaps, arrived>>  BY <1>4 DEF LockForReload
  <2> QED  BY <2>1, <2>2, <2>3, WaitingShrinks
<1>5. ASSUME NEW c \in Calls, LockForConfig(c)  PROVE SwapsRequested'
  <2>1. /\ call[c].pc = "lock" /\ OnlyMoves(c)
        /\ \/ Freed(c) /\ mu' = mu
           \/ GoesOn(c, {"build"}) /\ Keeps(c) /\ mu' = c /\ ~NeedsRestart(c)
    BY <1>5, CallMoves
  <2>2. c \in Waiting  BY <2>1 DEF Waiting
  <2>3. UNCHANGED <<swaps, arrived>>  BY <1>5 DEF LockForConfig
  <2> QED  BY <2>1, <2>2, <2>3, WaitingShrinks
<1>6. ASSUME NEW c \in Calls, BuildReplacement(c)  PROVE SwapsRequested'
  <2>1. /\ call[c].pc = "build" /\ OnlyMoves(c)
        /\ \/ Freed(c) /\ mu' = "free"
           \/ /\ GoesOn(c, {"build", "wlock"}) /\ mu' = mu /\ call'[c].seen = call[c].seen
              /\ \E v \in Contents : /\ call'[c].built = Append(call[c].built, v)
                                    /\ SameTopology(active[SetSeq[Len(call[c].built) + 1]].content, v)
              /\ Len(call'[c].built) = Len(call[c].built) + 1 /\ Len(call'[c].built) <= N
              /\ call'[c].pc = "build" <=> Len(call'[c].built) < N
    BY <1>6, CallMoves
  <2>2. c \in Waiting  BY <2>1 DEF Waiting
  <2>3. UNCHANGED <<swaps, arrived>>  BY <1>6 DEF BuildReplacement
  <2> QED  BY <2>1, <2>2, <2>3, WaitingShrinks
<1>7. ASSUME NEW c \in Calls, LockRegistry(c)  PROVE SwapsRequested'
  <2>1. /\ call[c].pc = "wlock" /\ OnlyMoves(c)
        /\ GoesOn(c, {"wlock", "swap"}) /\ Keeps(c)
    BY <1>7, CallMoves
  <2>2. c \in Waiting  BY <2>1 DEF Waiting
  <2>3. UNCHANGED <<swaps, arrived>>  BY <1>7 DEF LockRegistry
  <2> QED  BY <2>1, <2>2, <2>3, WaitingShrinks
<1>8. ASSUME NEW c \in Calls, SwapRegistries(c)  PROVE SwapsRequested'
  <2>1. /\ call[c].pc = "swap" /\ OnlyMoves(c)
        /\ GoesOn(c, {"wunlock"}) /\ Keeps(c)
    BY <1>8, CallMoves
  <2>2. c \in Waiting /\ Waiting' = Waiting \ {c}  BY <2>1 DEF Waiting, OnlyMoves, GoesOn
  <2>3. Cardinality(Waiting') = Cardinality(Waiting) - 1
    BY <2>2, WaitingFinite, FS_RemoveElement
  <2>4. swaps' = swaps + 1 /\ arrived' = arrived  BY <1>8 DEF SwapRegistries
  <2> QED  BY <2>3, <2>4, WaitingFinite DEF SwapsRequested, Managed
<1>9. ASSUME NEW c \in Calls, UnlockRegistry(c)  PROVE SwapsRequested'
  <2>1. /\ call[c].pc = "wunlock" /\ OnlyMoves(c)
        /\ GoesOn(c, {"wunlock", "commit"}) /\ Keeps(c)
    BY <1>9, CallMoves
  <2>2. ~(c \in Waiting')  BY <2>1 DEF Waiting, GoesOn, Freed, IdleCall
  <2>3. UNCHANGED <<swaps, arrived>>  BY <1>9 DEF UnlockRegistry
  <2> QED  BY <2>1, <2>2, <2>3, WaitingShrinks
<1>10. ASSUME NEW c \in Calls, CommitReload(c)  PROVE SwapsRequested'
  <2>1. /\ call[c].pc = "commit" /\ OnlyMoves(c)
        /\ GoesOn(c, {"count"}) /\ Keeps(c)
    BY <1>10, CallMoves
  <2>2. ~(c \in Waiting')  BY <2>1 DEF Waiting, GoesOn, Freed, IdleCall
  <2>3. UNCHANGED <<swaps, arrived>>  BY <1>10 DEF CommitReload
  <2> QED  BY <2>1, <2>2, <2>3, WaitingShrinks
<1>11. ASSUME NEW c \in Calls, CommitConfig(c)  PROVE SwapsRequested'
  <2>1. /\ call[c].pc = "commit" /\ OnlyMoves(c)
        /\ GoesOn(c, {"configure"}) /\ Keeps(c)
    BY <1>11, CallMoves
  <2>2. ~(c \in Waiting')  BY <2>1 DEF Waiting, GoesOn, Freed, IdleCall
  <2>3. UNCHANGED <<swaps, arrived>>  BY <1>11 DEF CommitConfig
  <2> QED  BY <2>1, <2>2, <2>3, WaitingShrinks
<1>12. ASSUME NEW p \in Paths, NEW v \in Configs \cup {Bad}, EditConfigFile(p, v)
      PROVE  SwapsRequested'
  BY <1>1, <1>12 DEF EditConfigFile
<1>13. ASSUME NEW d \in Srcs, NEW s \in Sets, NEW v \in Contents \cup {Bad}, EditScenarios(d, s, v)
      PROVE  SwapsRequested'
  BY <1>1, <1>13 DEF EditScenarios
<1> QED
  BY <1>2, <1>3, <1>4, <1>5, <1>6, <1>7, <1>8, <1>9, <1>10, <1>11, <1>12, <1>13
     DEF Next, CallStep, Outside

-----------------------------------------------------------------------------
(* The theorems *)

\* Only a swap changes the registries, and only a commit the configuration.
LEMMA QuietSteps ==
    ASSUME NEW c \in Calls, CallStep(c)
    PROVE  /\ ~SwapRegistries(c) => active' = active
           /\ ~CommitConfig(c) => cfg' = cfg
BY DEF CallStep, Authenticate, Allow, ReadCurrentPath, LoadAndValidate, LockForReload,
       LockForConfig, BuildReplacement, LockRegistry, SwapRegistries, UnlockRegistry, CommitReload,
       CommitConfig, Configure, CopySets, TallySet, Publish, mgrVars, regVars

\* The inductive invariant holds in every reachable state.
THEOREM Invariance == Spec => []IndInv
<1>1. Init => IndInv
  <2> SUFFICES ASSUME Init  PROVE IndInv  OBVIOUS
  <2>1. PICK start \in Paths :
          /\ file \in StartFiles /\ disk \in StartDisks
          /\ cfg = file[start] /\ configPath \in {start, NoPath}
          /\ spec = [s \in Sets |-> cfg.src]
          /\ active = [s \in Sets |-> [content |-> disk[cfg.src][s], src |-> cfg.src, gen |-> 0]]
    BY DEF Init
  <2>2. /\ mu = "free" /\ wlocked = {} /\ swaps = 0 /\ api = cfg.ops
        /\ health = SumOf(CountsOf(active)) /\ gauge = [s \in Sets |-> active[s].content.count]
        /\ call = [c \in Calls |-> IdleCall] /\ arrived = 0 /\ edits = 0
    BY DEF Init
  <2>3. file \in [Paths -> Configs] /\ disk \in [Srcs -> [Sets -> Contents]]
    BY <2>1, ManagerAssumption DEF ManagerAssumption
  <2>4. cfg \in Configs  BY <2>1, <2>3
  <2>5. Managed  BY <2>1, <2>2, <2>3, <2>4, Values DEF Managed
  <2>6. Served  BY <2>1, <2>3, <2>4, Values DEF Served, Registries
  <2>7. Published
    <3>1. gauge \in [Sets -> Counts]  BY <2>2, <2>6, Values DEF Served, Registries
    <3>2. CountsOf(active) \in [1..N -> Counts]
      BY <2>6, Order, Values DEF CountsOf, Served, Registries
    <3>3. CountsOf(active) \in Seq(Counts) /\ Len(CountsOf(active)) = N  BY <3>2, Order
    <3> QED  BY <2>2, <3>1, <3>3, TotalBounded DEF Published
  <2>8. Calling  BY <2>2, IdleIsACall DEF Calling
  <2>9. \A c \in Calls : call[c] = IdleCall /\ call[c].pc = "idle"  BY <2>2 DEF IdleCall
  <2>10. Mutex /\ Fitting  BY <2>2, <2>9, Values DEF Mutex, Fitting, InSection
  <2>11. Stages  BY <2>9, IdleIsACall, Order DEF Stages, Stage, InSection
  <2>12. Locks
    <3>1. 0 \in 0..N /\ Prefix(0) = {}  BY Order, PrefixCount
    <3> QED  BY <2>2, <2>9, <3>1 DEF Locks
  <2>13. Sources /\ OneGeneration  BY <2>1, <2>2, <2>9 DEF Sources, OneGeneration
  <2>14. SwapsRequested
    <3>1. Waiting = {}  BY <2>9 DEF Waiting
    <3> QED  BY <2>2, <3>1, FS_EmptySet DEF SwapsRequested
  <2> QED
    BY <2>5, <2>6, <2>7, <2>8, <2>10, <2>11, <2>12, <2>13, <2>14 DEF IndInv
<1>2. IndInv /\ [Next]_vars => IndInv'
  <2>1. ASSUME IndInv, Next  PROVE IndInv'
    BY <2>1, ManagedStep, ServedStep, PublishedStep, CallingStep, MutexStep, StagesStep,
       LocksStep,
       SourcesStep, GenerationStep, FittingStep, RequestedStep
       DEF IndInv
  <2>2. ASSUME IndInv, UNCHANGED vars  PROVE IndInv'
    BY <2>2
       DEF IndInv, Managed, Served, Published, Calling, Mutex, Stages, Stage, Locks, Sources,
           OneGeneration, Fitting, SwapsRequested, Waiting, SourceOf, IsConfigCall, SameTopology,
           vars, mgrVars, regVars, pubVars, envVars
  <2> QED  BY <2>1, <2>2
<1> QED  BY <1>1, <1>2, PTL DEF Spec

\* The types of RuntimeManager, with the counts within their bounds and no more
\* swaps than requests.
THEOREM TypeCorrectness == Spec => []TypeOK
<1>1. IndInv => TypeOK
  <2> SUFFICES ASSUME IndInv  PROVE TypeOK  OBVIOUS
  <2> USE DEF IndInv
  <2>1. swaps \in 0..MaxCalls  BY WaitingFinite, Values DEF SwapsRequested, Managed
  <2>2. \A s \in Sets : /\ active[s].content \in Contents
                        /\ active[s].src \in Srcs /\ active[s].gen \in 0..swaps
    BY DEF Served, Registries, OneGeneration, Managed
  <2>3. wlocked \subseteq Sets  BY PrefixCount DEF Locks
  <2>4. ASSUME NEW S, NEW q \in Seq(S), Len(q) <= N  PROVE q \in SeqUpTo(S)
    <3>1. q \in [1..Len(q) -> S] /\ Len(q) \in 0..N  BY <2>4, Order
    <3> QED  BY <3>1 DEF SeqUpTo, N
  <2>5. ASSUME NEW c \in Calls
        PROVE  /\ call[c].pc \in Pcs /\ call[c].kind \in Kinds
               /\ call[c].path \in Paths \cup {NoPath} /\ call[c].new \in Configs \cup {Bad}
               /\ call[c].built \in SeqUpTo(Contents)
               /\ call[c].round \in 1..2 /\ call[c].total \in 0..MaxTotal
               /\ call[c].seen \in SeqUpTo(Counts)
    <3>1. call[c] \in CallRecords /\ Len(call[c].built) <= N /\ Len(call[c].seen) <= N
      BY DEF Calling, Stages, Stage
    <3>2. call[c].built \in Seq(Contents) /\ call[c].seen \in Seq(Counts)
      BY <3>1 DEF CallRecords
    <3>3. call[c].built \in SeqUpTo(Contents) /\ call[c].seen \in SeqUpTo(Counts)
      BY <2>4, <3>1, <3>2
    <3> QED  BY <3>1, <3>3 DEF CallRecords
  <2> QED  BY <2>1, <2>2, <2>3, <2>5 DEF TypeOK, Managed, Published
<1> QED  BY <1>1, Invariance, PTL

\* The registries that can be read at one moment are of one generation.
THEOREM AgreementTheorem == Spec => []ReadableSetsAgree
<1>1. IndInv => ReadableSetsAgree  BY DEF IndInv, OneGeneration, ReadableSetsAgree
<1> QED  BY <1>1, Invariance, PTL

\* Registries change only while all of them are write-locked: no reader is between
\* two of the assignments of replaceScenarioSets.
THEOREM SwapTheorem == Spec => [][active' # active => wlocked = Sets]_vars
<1>1. IndInv /\ [Next]_vars => [active' # active => wlocked = Sets]_vars
  <2> SUFFICES ASSUME IndInv, Next, active' # active  PROVE wlocked = Sets  OBVIOUS
  <2>1. PICK c \in Calls : CallStep(c)
    BY DEF Next, Arrive, EditConfigFile, EditScenarios, regVars
  <2>2. SwapRegistries(c)  BY <2>1, QuietSteps
  <2> QED  BY <2>2 DEF SwapRegistries, At, IndInv, Locks
<1> QED  BY <1>1, Invariance, PTL DEF Spec

\* Whenever m.mu is free the registries and m.sets are those of m.cfg.
THEOREM CurrentConfigTheorem == Spec => []ServedFromCurrentConfig
<1>1. IndInv => ServedFromCurrentConfig
  BY Values DEF IndInv, Mutex, InSection, Sources, ServedFromCurrentConfig
<1> QED  BY <1>1, Invariance, PTL

\* No step changes what needs a restart: a swap brings in what was checked against
\* the registries it replaces, and a commit the static part it was compared with.
THEOREM RestartTheorem == Spec => RestartOnlyPartsAreKept
<1> DEFINE Keep == /\ cfg'.static = cfg.static
                   /\ \A s \in Sets : active[s].content.exact \/ active'[s].content.exact =>
                                        active'[s].content.paths = active[s].content.paths
<1>1. IndInv /\ [Next]_vars => [Keep]_vars
  <2> SUFFICES ASSUME IndInv, Next  PROVE Keep  OBVIOUS
  <2>1. ASSUME cfg' = cfg, active' = active  PROVE Keep  BY <2>1
  <2>2. ASSUME NEW c \in Calls, SwapRegistries(c)  PROVE Keep
    <3>1. cfg' = cfg  BY <2>2 DEF SwapRegistries, mgrVars
    <3>2. call[c].pc = "swap" /\ Len(call[c].built) = N
      BY <2>2 DEF SwapRegistries, At, IndInv, Stages, Stage
    <3>3. ASSUME NEW s \in Sets
          PROVE  SameTopology(active[s].content, active'[s].content)
      <4> DEFINE j == CHOOSE j \in DOMAIN SetSeq : SetSeq[j] = s
      <4>1. j \in 1..N /\ SetSeq[j] = s  BY Position
      <4>2. active'[s].content = call[c].built[j]  BY <2>2 DEF SwapRegistries
      <4> HIDE DEF j
      <4> QED  BY <3>2, <4>1, <4>2 DEF IndInv, Fitting
    <3> QED  BY <3>1, <3>3 DEF SameTopology
  <2>3. ASSUME NEW c \in Calls, CommitConfig(c)  PROVE Keep
    <3>1. cfg' = call[c].new /\ active' = active  BY <2>3 DEF CommitConfig, regVars
    <3>2. call[c].new.static = cfg.static
      BY <2>3 DEF CommitConfig, At, IndInv, Stages, Stage, InSection
    <3> QED  BY <3>1, <3>2
  <2>4. ASSUME NEW c \in Calls, CallStep(c), ~SwapRegistries(c), ~CommitConfig(c)
        PROVE  cfg' = cfg /\ active' = active
    BY <2>4, QuietSteps
  <2> HIDE DEF Keep
  <2> QED  BY <2>1, <2>2, <2>3, <2>4
           DEF Next, Arrive, EditConfigFile, EditScenarios, mgrVars, regVars
<1> QED  BY <1>1, Invariance, PTL DEF Spec, RestartOnlyPartsAreKept
=============================================================================
