------------------------- MODULE RequestPath_proofs -------------------------
(***************************************************************************)
(* Proofs about RequestPath for any scenarios, requests, goroutines, cache *)
(* size, retry limit and parameters of the adaptive timeout.               *)
(*                                                                         *)
(* Four arguments that do not meet: a handler is right for a request       *)
(* wherever it is kept (table, pattern list, cache node, goroutine), so    *)
(* that no order of evictions, refreshes and promotions matters; once a    *)
(* path has its late handler, no place from which a later request could    *)
(* take the old one still has it, unless a lookup was under way meanwhile; *)
(* the ring buffer is the end of the history, and quickselect keeps the    *)
(* rank it is asked for; every retry that is counted is made or counted as *)
(* cancelled.                                                              *)
(***************************************************************************)
EXTENDS RequestPath, FiniteSetTheorems, FunctionTheorems, TLAPS

-----------------------------------------------------------------------------
(* The inductive invariant *)

IsList(q) == q \in Seq(ToSet(q))

\* h serves req the way the scenarios say.
Right(h, req) == DispatchTo(h, req.method) = Expected(req)

\* The table keeps its paths and the methods of its handlers; only gen changes.
Registered ==
    /\ patterns = RegisteredPatterns
    /\ routes = [path \in DOMAIN RegisteredRoutes |-> routes[path]]
    /\ \A path \in DOMAIN RegisteredRoutes :
          /\ DOMAIN routes[path] = {"ep", "gen", "allowed"}
          /\ routes[path].allowed = RegisteredRoutes[path].allowed

\* A node of the cache, in the list or not, has a handler that is right for its key.
NodeOK(x) == DOMAIN x = {"key", "h", "count", "prev", "next"} /\ Right(x.h, x.key)

\* Every key of the map is the key of its node.
CacheOK(c) ==
    /\ DOMAIN c = {"map", "nodes", "head", "tail"}
    /\ IsList(c.nodes) /\ \A i \in DOMAIN c.nodes : NodeOK(c.nodes[i])
    /\ DOMAIN c.map \subseteq Targets
    /\ \A k \in DOMAIN c.map : c.map[k] \in DOMAIN c.nodes /\ c.nodes[c.map[k]].key = k

\* What a goroutine holds at each of its places.
ProcOK(x) ==
    /\ DOMAIN x = {"pc", "req", "node", "h", "limit", "ended", "attempt", "answer", "serves", "fresh"}
    /\ x.attempt \in 0..MaxRetries
    /\ x.pc # "idle" => x.req \in Targets
    /\ x.pc = "pattern" => x.req.path \notin DOMAIN RegisteredRoutes
    /\ x.pc \in {"put", "promote", "deadline", "attempt", "process", "backoff"} => Right(x.h, x.req)
    /\ x.pc = "backoff" => x.answer = "error" /\ x.attempt < MaxRetries
    /\ x.pc \in {"record", "done"} => x.answer \in {"error", Expected(x.req)}

Serving == proc = [p \in Procs |-> proc[p]] /\ \A p \in Procs : ProcOK(proc[p])

At(pcs) == {p \in Procs : proc[p].pc \in pcs}

\* The gauges and counters.
Counted ==
    /\ tally \in [{"success", "exhausted", "non_retryable", "retry", "canceled"} -> Nat]
    /\ {entered, attempts, inflight} \subseteq Nat
    /\ inflight = Cardinality(At({"process"}))
    /\ RetriesAddUp

\* The ring buffer s holds the end of the history h: its cells before head the latest, those
\* from head on, once it has been full, the ones before.
RingOK(s, h) ==
    /\ h \in Seq(Durations)
    /\ DOMAIN s = {"ring", "head", "count", "total"} /\ s.ring \in [1..SampleSize -> Nat]
    /\ s.head \in 1..SampleSize /\ s.total = Len(h)
    /\ s.count = IF Len(h) < SampleSize THEN Len(h) ELSE SampleSize
    /\ Len(h) < SampleSize => s.head = Len(h) + 1
    /\ \A j \in 1..SampleSize :
          /\ j < s.head => s.ring[j] = h[Len(h) - s.head + 1 + j]
          /\ j >= s.head /\ Len(h) >= SampleSize => s.ring[j] = h[Len(h) - s.head + 1 - SampleSize + j]

\* The last n elements of h up to the t-th.
Window(h, t) == SubSeq(h, IF t < SampleSize THEN 1 ELSE t - SampleSize + 1, t)

\* t is the timeout that the window w calls for.
TimeoutFor(t, w) ==
    \E d \in ToSet(w) : /\ IsNthSmallest(d, w, PercentileIndex(Len(w)))
                        /\ t = Clamp(d * SafetyMultiplier)

\* What is known of an endpoint with history h, last adjusted after a requests: no multiple of
\* AdjustmentFreq at which there were enough data has been passed over.
AdjustedOK(h, a) ==
    /\ a \in 0..Len(h)
    /\ MinDataPoints <= SampleSize =>
          \A q \in Nat : MinDataPoints <= AdjustmentFreq * q /\ AdjustmentFreq * q <= Len(h) => AdjustmentFreq * q <= a

Tracked ==
    /\ stats = [k \in Targets |-> stats[k]] /\ hist = [k \in Targets |-> hist[k]]
    /\ adjusted = [k \in Targets |-> adjusted[k]]
    /\ timeout = [k \in DOMAIN timeout |-> timeout[k]] /\ DOMAIN timeout \subseteq Targets
    /\ \A k \in Targets : RingOK(stats[k], hist[k]) /\ AdjustedOK(hist[k], adjusted[k])
    /\ \A k \in DOMAIN timeout : /\ adjusted[k] >= 1 /\ timeout[k] \in MinTimeout..MaxTimeout
                                 /\ TimeoutFor(timeout[k], Window(hist[k], adjusted[k]))

IndInv == Registered /\ CacheOK(lru) /\ Serving /\ Counted /\ Tracked

\* The places of a goroutine that has its handler.
Chosen == {"promote", "deadline", "attempt", "process", "backoff", "record", "done"}

\* Handle has stored the path's new handler, and no Serve was about to cache the old one.
NotOvertaken(path) == path \in LatePaths /\ path \notin overtaken /\ routes[path].gen = 1

\* After Handle the old handler is nowhere from where a later request could get it: no goroutine
\* is about to cache it and, once the cache has been cleared, no entry has it.
Renewed ==
    /\ \A path \in late : routes[path].gen = 1
    /\ \A p \in Procs : proc[p].fresh => Replaced(proc[p].req.path)
    /\ \A p \in Procs : proc[p].pc = "put" /\ NotOvertaken(proc[p].req.path) => proc[p].h = routes[proc[p].req.path]
    /\ \A k \in DOMAIN lru.map : NotOvertaken(k.path) /\ k.path \notin late => lru.nodes[lru.map[k]].h = routes[k.path]
    /\ \A p \in Procs : proc[p].pc \in Chosen /\ proc[p].fresh /\ proc[p].req.path \notin overtaken =>
                          proc[p].h = routes[proc[p].req.path]

-----------------------------------------------------------------------------
(* Numbers *)

\* Induction up to m, for a set of numbers: if S had 0 and every successor but
\* not m, adding one would map the part of S below m into itself without 0,
\* injectively, which no finite set allows.
LEMMA UpTo ==
    ASSUME NEW m \in Nat, NEW S, 0 \in S, \A n \in Nat : n < m /\ n \in S => n + 1 \in S
    PROVE  m \in S
<1> DEFINE T == {n \in 0..m : n \in S}
<1> SUFFICES ASSUME m \notin S  PROVE FALSE  OBVIOUS
<1>1. IsFiniteSet(0..m)  BY FS_Interval
<1>2. IsFiniteSet(T) /\ 0 \in T  BY <1>1, FS_Subset
<1>3. IsFiniteSet(T \ {0}) /\ Cardinality(T \ {0}) = Cardinality(T) - 1 /\ Cardinality(T) \in Nat
  BY <1>2, FS_RemoveElement, FS_CardinalityType
<1>4. [n \in T |-> n + 1] \in Injection(T, T \ {0})
  <2>1. \A n \in T : n + 1 \in T \ {0}  OBVIOUS
  <2> QED  BY <2>1 DEF Injection, IsInjective
<1>5. Cardinality(T) <= Cardinality(T \ {0})  BY <1>3, <1>4, FS_Injection
<1> QED  BY <1>3, <1>5

\* A set of numbers that is not empty has a least element.
LEMMA Least ==
    ASSUME NEW S \in SUBSET Nat, S # {}
    PROVE  Min(S) \in S /\ \A n \in S : Min(S) <= n
<1> DEFINE L == {n \in Nat : \A k \in S : n <= k}
<1>1. ASSUME \A x \in S : \E y \in S : ~(x <= y)  PROVE FALSE
  <2>1. PICK m : m \in S  OBVIOUS
  <2>2. 0 \in L  OBVIOUS
  <2>3. ASSUME NEW n \in Nat, n \in L  PROVE n + 1 \in L
    <3>1. n \notin S  BY <1>1, <2>3
    <3> QED  BY <2>3, <3>1
  <2>4. m + 1 \in L
    <3> HIDE DEF L
    <3> QED  BY <2>1, <2>2, <2>3, UpTo
  <2> QED  BY <2>1, <2>4
<1> QED  BY <1>1 DEF Min

\* A function is defined by its first value and its steps.
Steps(n, V) == [1..n -> [V -> V]]
Follows(g, n, V, a, F) == g \in [0..n -> V] /\ g[0] = a /\ \A i \in 1..n : g[i] = F[i][g[i - 1]]

\* A recursive function on 0..n exists: the values up to k are defined for k = 0 and, with those
\* up to k, for k + 1.
LEMMA Recursion ==
    ASSUME NEW n \in Nat, NEW V, NEW a \in V, NEW F \in Steps(n, V)
    PROVE  \E g : Follows(g, n, V, a, F)
<1> DEFINE Good(k) == \E g \in [0..k -> V] : g[0] = a /\ \A i \in 1..k : g[i] = F[i][g[i - 1]]
           T == {k \in 0..n : Good(k)}
<1> USE DEF Steps
<1>1. 0 \in T
  <2> DEFINE z == [i \in 0..0 |-> a]
  <2>1. z \in [0..0 -> V] /\ z[0] = a /\ \A i \in 1..0 : z[i] = F[i][z[i - 1]]  OBVIOUS
  <2>2. Good(0)
    <3> HIDE DEF z
    <3> QED  BY <2>1
  <2> HIDE DEF Good
  <2> QED  BY <2>2
<1>2. ASSUME NEW k \in Nat, k < n, k \in T  PROVE k + 1 \in T
  <2>1. PICK g \in [0..k -> V] : g[0] = a /\ \A i \in 1..k : g[i] = F[i][g[i - 1]]  BY <1>2
  <2> DEFINE h == [i \in 0..(k + 1) |-> IF i = k + 1 THEN F[k + 1][g[k]] ELSE g[i]]
  <2>2. F[k + 1][g[k]] \in V
    <3>1. k + 1 \in 1..n /\ g[k] \in V  BY <1>2
    <3> QED  BY <3>1
  <2>3. h \in [0..(k + 1) -> V] /\ h[0] = a  BY <2>1, <2>2
  <2>4. ASSUME NEW i \in 1..(k + 1)  PROVE h[i] = F[i][h[i - 1]]
    <3>1. h[i - 1] = g[i - 1]  OBVIOUS
    <3>2. CASE i = k + 1
      <4>1. h[i] = F[k + 1][g[k]] /\ i - 1 = k  BY <3>2
      <4> QED  BY <3>1, <3>2, <4>1
    <3>3. CASE i # k + 1
      <4>1. i \in 1..k /\ h[i] = g[i]  BY <3>3
      <4> QED  BY <2>1, <3>1, <4>1
    <3> QED  BY <3>2, <3>3
  <2>5. Good(k + 1)
    <3> HIDE DEF h
    <3> QED  BY <2>3, <2>4
  <2> HIDE DEF Good
  <2> QED  BY <1>2, <2>5
<1>3. n \in T
  <2> HIDE DEF T
  <2> QED  BY <1>1, <1>2, UpTo
<1> QED  BY <1>3 DEF Follows

-----------------------------------------------------------------------------
(* Lists *)

\* A list is a function on the numbers up to its length.
LEMMA Listed ==
    ASSUME NEW n \in Nat, NEW q, q = [i \in 1..n |-> q[i]]
    PROVE  IsList(q) /\ Len(q) = n /\ DOMAIN q = 1..n
<1>1. DOMAIN q = 1..n  OBVIOUS
<1>2. \A i \in 1..n : q[i] \in ToSet(q)  BY <1>1 DEF ToSet
<1>3. q \in [1..n -> ToSet(q)]  BY <1>2
<1>4. q \in Seq(ToSet(q))  BY <1>3
<1> QED  BY <1>1, <1>4 DEF IsList

\* The parts of Keep(q, S): what it has kept of the first i elements.
KeepsOf(q, S, T, kept) ==
    /\ \A i \in 0..Len(q) : kept[i] \in Seq(T)
    /\ kept[0] = <<>> /\ kept[Len(q)] = Keep(q, S)
    /\ \A i \in 1..Len(q) : kept[i] = IF q[i] \in S THEN Append(kept[i - 1], q[i]) ELSE kept[i - 1]

\* Keep is computed element by element: the recursive function in its definition exists.
LEMMA KeepBySteps ==
    ASSUME NEW T, NEW q \in Seq(T), NEW S
    PROVE  \E kept : KeepsOf(q, S, T, kept)
<1> DEFINE n == Len(q)
           Value(g, i) == IF i = 0 THEN <<>> ELSE IF q[i] \in S THEN Append(g[i - 1], q[i]) ELSE g[i - 1]
           F == [i \in 1..n |-> [v \in Seq(T) |-> IF q[i] \in S THEN Append(v, q[i]) ELSE v]]
           kept == CHOOSE g : g = [i \in 0..n |-> Value(g, i)]
<1>1. n \in Nat /\ DOMAIN q = 1..n /\ \A i \in 1..n : q[i] \in T  OBVIOUS
<1>2. F \in [1..n -> [Seq(T) -> Seq(T)]]
  <2>1. ASSUME NEW i \in 1..n, NEW v \in Seq(T)
        PROVE  (IF q[i] \in S THEN Append(v, q[i]) ELSE v) \in Seq(T)
    BY <1>1
  <2> QED  BY <2>1
<1>3. PICK g \in [0..n -> Seq(T)] : g[0] = <<>> /\ \A i \in 1..n : g[i] = F[i][g[i - 1]]
  <2>0. <<>> \in Seq(T)  OBVIOUS
  <2>1. PICK e \in Seq(T) : e = <<>>  BY <2>0
  <2> HIDE DEF F, n
  <2>2. F \in Steps(n, Seq(T))  BY <1>1, <1>2 DEF Steps
  <2>3. \E g : Follows(g, n, Seq(T), e, F)  BY <1>1, <2>1, <2>2, Recursion
  <2> QED  BY <2>1, <2>3 DEF Follows
<1>4. g = [i \in 0..n |-> Value(g, i)]
  <2>1. ASSUME NEW i \in 0..n  PROVE g[i] = Value(g, i)
    <3>1. CASE i = 0  BY <1>3, <3>1
    <3>2. CASE i # 0
      <4>1. i \in 1..n /\ i - 1 \in 0..n  BY <1>1, <3>2
      <4>2. g[i - 1] \in Seq(T)  BY <4>1
      <4>3. F[i][g[i - 1]] = Value(g, i)  BY <3>2, <4>1, <4>2
      <4> QED  BY <1>3, <4>1, <4>3
    <3> QED  BY <3>1, <3>2
  <2> HIDE DEF Value
  <2> QED  BY <1>3, <2>1
<1>5. kept = [i \in 0..n |-> Value(kept, i)]
  <2> HIDE DEF Value
  <2> QED  BY <1>4
<1>6. Keep(q, S) = kept[n]  BY DEF Keep
<1> HIDE DEF kept, F
<1>7. \A i \in 0..n : kept[i] = Value(kept, i)
  <2> HIDE DEF Value
  <2> QED  BY <1>5
<1> DEFINE G == {k \in 0..n : kept[k] \in Seq(T)}
<1>8. 0 \in G
  <2>1. kept[0] = <<>>  BY <1>1, <1>7
  <2>2. <<>> \in Seq(T)  OBVIOUS
  <2>3. kept[0] \in Seq(T) /\ 0 \in 0..n  BY <1>1, <2>1, <2>2
  <2> QED  BY <2>3
<1>9. ASSUME NEW k \in Nat, k < n, k \in G  PROVE k + 1 \in G
  <2>1. k + 1 \in 1..n /\ (k + 1) - 1 = k /\ q[k + 1] \in T /\ kept[k] \in Seq(T)  BY <1>1, <1>9
  <2>2. kept[k + 1] = IF q[k + 1] \in S THEN Append(kept[k], q[k + 1]) ELSE kept[k]
    BY <1>7, <2>1
  <2>3. kept[k + 1] \in Seq(T)  BY <2>1, <2>2
  <2> QED  BY <2>1, <2>3
<1>10. \A k \in 0..n : k \in G
  <2> TAKE k \in 0..n
  <2>1. k \in Nat /\ \A i \in Nat : i < k /\ i \in G => i + 1 \in G  BY <1>1, <1>9
  <2> HIDE DEF G
  <2> QED  BY <1>8, <2>1, UpTo
<1>11. kept[0] = <<>> /\ \A i \in 1..n : kept[i] = IF q[i] \in S THEN Append(kept[i - 1], q[i]) ELSE kept[i - 1]
  BY <1>1, <1>7
<1> HIDE DEF Value
<1>12. KeepsOf(q, S, T, kept)  BY <1>6, <1>10, <1>11 DEF KeepsOf
<1> QED  BY <1>12

\* How many elements of q are in A.
Count(q, A) == Cardinality({i \in DOMAIN q : q[i] \in A})

\* A count of elements is a number, at most the length.
LEMMA CountType ==
    ASSUME NEW T, NEW q \in Seq(T), NEW A
    PROVE  Count(q, A) \in Nat /\ Count(q, A) <= Len(q) /\ IsFiniteSet({i \in DOMAIN q : q[i] \in A})
<1> DEFINE C == {i \in DOMAIN q : q[i] \in A}
<1>1. Len(q) \in Nat /\ DOMAIN q = 1..Len(q)  OBVIOUS
<1>2. 1 \in Int /\ Len(q) \in Int  BY <1>1
<1>3. IsFiniteSet(1..Len(q)) /\ Cardinality(1..Len(q)) = IF 1 > Len(q) THEN 0 ELSE Len(q) - 1 + 1
  BY <1>2, FS_Interval
<1>4. C \in SUBSET (1..Len(q))  BY <1>1
<1> HIDE DEF C
<1>5. IsFiniteSet(C) /\ Cardinality(C) <= Cardinality(1..Len(q)) /\ Cardinality(C) \in Nat
  BY <1>3, <1>4, FS_Subset, FS_CardinalityType
<1>6. Cardinality(C) <= Len(q)  BY <1>1, <1>3, <1>5
<1> QED  BY <1>5, <1>6 DEF C, Count

\* Counting one element more.
LEMMA CountAppended ==
    ASSUME NEW T, NEW q \in Seq(T), NEW x \in T, NEW A
    PROVE  Count(Append(q, x), A) = Count(q, A) + (IF x \in A THEN 1 ELSE 0)
<1> DEFINE C == {i \in DOMAIN q : q[i] \in A}
           D == {i \in DOMAIN Append(q, x) : Append(q, x)[i] \in A}
           n == Len(q) + 1
<1>1. /\ Len(q) \in Nat /\ DOMAIN q = 1..Len(q)
      /\ DOMAIN Append(q, x) = 1..n /\ \A i \in 1..Len(q) : Append(q, x)[i] = q[i]
      /\ Append(q, x)[n] = x
  OBVIOUS
<1>2. IsFiniteSet(C) /\ Cardinality(C) \in Nat  BY CountType, FS_CardinalityType
<1>3. n \notin C  BY <1>1
<1>4. CASE x \in A
  <2>1. D = C \cup {n}  BY <1>1, <1>4
  <2> HIDE DEF C, D, n
  <2>2. Cardinality(D) = Cardinality(C) + 1  BY <1>2, <1>3, <2>1, FS_AddElement
  <2> QED  BY <1>4, <2>2 DEF C, D, Count
<1>5. CASE x \notin A
  <2>1. D = C  BY <1>1, <1>5
  <2> HIDE DEF C, D, n
  <2>2. Cardinality(D) = Cardinality(C) + 0  BY <1>2, <2>1
  <2> QED  BY <1>5, <2>2 DEF C, D, Count
<1> QED  BY <1>4, <1>5

\* Counting in parts.
LEMMA CountSplit ==
    ASSUME NEW T, NEW q \in Seq(T), NEW A, NEW B, A \cap B = {}
    PROVE  Count(q, A \cup B) = Count(q, A) + Count(q, B)
<1> DEFINE C == {i \in DOMAIN q : q[i] \in A}
           D == {i \in DOMAIN q : q[i] \in B}
<1>1. IsFiniteSet(C) /\ IsFiniteSet(D)  BY CountType
<1>2. {i \in DOMAIN q : q[i] \in A \cup B} = C \cup D /\ C \cap D = {}  OBVIOUS
<1> HIDE DEF C, D
<1>3. Cardinality(C \cup D) = Cardinality(C) + Cardinality(D) - Cardinality(C \cap D)  BY <1>1, FS_Union
<1>4. Cardinality(C) \in Nat /\ Cardinality(D) \in Nat /\ Cardinality(C \cap D) = 0
  BY <1>1, <1>2, FS_CardinalityType, FS_EmptySet
<1>5. Cardinality(C \cup D) = Cardinality(C) + Cardinality(D)  BY <1>3, <1>4
<1> QED  BY <1>2, <1>5 DEF C, D, Count

\* The same for the first k elements.
CountTo(q, k, A) == Cardinality({i \in 1..k : q[i] \in A})

\* Counting one element more of a longer list.
LEMMA CountToNext ==
    ASSUME NEW q, NEW k \in Nat, NEW A
    PROVE  /\ CountTo(q, k, A) \in Nat
           /\ CountTo(q, k + 1, A) = CountTo(q, k, A) + (IF q[k + 1] \in A THEN 1 ELSE 0)
<1> DEFINE C == {i \in 1..k : q[i] \in A}
           D == {i \in 1..(k + 1) : q[i] \in A}
           n == k + 1
<1>1. IsFiniteSet(1..k)  BY FS_Interval
<1>2. C \in SUBSET (1..k) /\ n \notin C  OBVIOUS
<1>3. IsFiniteSet(C) /\ Cardinality(C) \in Nat  BY <1>1, <1>2, FS_Subset, FS_CardinalityType
<1>4. CASE q[k + 1] \in A
  <2>1. D = C \cup {n}  BY <1>4
  <2> HIDE DEF C, D, n
  <2>2. Cardinality(D) = Cardinality(C) + 1  BY <1>2, <1>3, <2>1, FS_AddElement
  <2> QED  BY <1>3, <1>4, <2>2 DEF C, D, CountTo
<1>5. CASE q[k + 1] \notin A
  <2>1. D = C  BY <1>5
  <2> HIDE DEF C, D, n
  <2>2. Cardinality(D) = Cardinality(C) + 0  BY <1>3, <2>1
  <2> QED  BY <1>3, <1>5, <2>2 DEF C, D, CountTo
<1> QED  BY <1>4, <1>5

\* What Keep returns: the elements in S, as often as they are in q.
LEMMA Kept ==
    ASSUME NEW T, NEW q \in Seq(T), NEW S
    PROVE  /\ Keep(q, S) \in Seq(T) /\ \A x \in ToSet(Keep(q, S)) : x \in ToSet(q) /\ x \in S
           /\ Len(Keep(q, S)) = Count(q, S)
           /\ \A A : Count(Keep(q, S), A) = Count(q, S \cap A)
<1>1. PICK kept : KeepsOf(q, S, T, kept)  BY KeepBySteps
<1> DEFINE n == Len(q)
           In(k) == \A i \in DOMAIN kept[k] : kept[k][i] \in ToSet(q) /\ kept[k][i] \in S
           Many(k) == Len(kept[k]) = CountTo(q, k, S) /\ \A A : Count(kept[k], A) = CountTo(q, k, S \cap A)
           G == {k \in 0..n : In(k) /\ Many(k)}
<1>2. n \in Nat /\ DOMAIN q = 1..n /\ (\A i \in 1..n : q[i] \in T)  OBVIOUS
<1>3. 0 \in G
  <2>1. kept[0] = <<>>  BY <1>1 DEF KeepsOf
  <2>2. \A A : CountTo(q, 0, A) = 0
    <3>1. \A A : {i \in 1..0 : q[i] \in A} = {}  OBVIOUS
    <3> QED  BY <3>1, FS_EmptySet DEF CountTo
  <2>3. \A A : Count(<<>>, A) = 0
    <3>1. \A A : {i \in DOMAIN <<>> : <<>>[i] \in A} = {}  OBVIOUS
    <3> QED  BY <3>1, FS_EmptySet DEF Count
  <2>4. Len(<<>>) = 0 /\ DOMAIN <<>> = {}  OBVIOUS
  <2>5. In(0)  BY <2>1, <2>4
  <2>6. Many(0)  BY <2>1, <2>2, <2>3, <2>4
  <2> HIDE DEF In, Many
  <2> QED  BY <1>2, <2>5, <2>6
<1>4. ASSUME NEW k \in Nat, k < n, k \in G  PROVE k + 1 \in G
  <2>1. /\ k + 1 \in 1..n /\ (k + 1) - 1 = k /\ q[k + 1] \in T /\ kept[k] \in Seq(T)
        /\ q[k + 1] \in ToSet(q)
    BY <1>1, <1>2, <1>4 DEF KeepsOf, ToSet
  <2>2. kept[k + 1] = IF q[k + 1] \in S THEN Append(kept[k], q[k + 1]) ELSE kept[k]
    BY <1>1, <2>1 DEF KeepsOf
  <2>3. \A A : CountTo(q, k + 1, A) = CountTo(q, k, A) + (IF q[k + 1] \in A THEN 1 ELSE 0)
    BY CountToNext
  <2>4. CountTo(q, k, S) \in Nat /\ \A A : CountTo(q, k, S \cap A) \in Nat  BY CountToNext
  <2>5. In(k) /\ Many(k)  BY <1>4
  <2>6. CASE q[k + 1] \in S
    <3>1. kept[k + 1] = Append(kept[k], q[k + 1])  BY <2>2, <2>6
    <3>2. In(k + 1)  BY <2>1, <2>5, <2>6, <3>1
    <3>3. Len(kept[k + 1]) = Len(kept[k]) + 1  BY <2>1, <3>1
    <3>4. \A A : Count(kept[k + 1], A) = Count(kept[k], A) + (IF q[k + 1] \in A THEN 1 ELSE 0)
      BY <2>1, <3>1, CountAppended
    <3>5. Len(kept[k + 1]) = CountTo(q, k + 1, S)  BY <2>3, <2>5, <2>6, <3>3
    <3>6. \A A : Count(kept[k + 1], A) = CountTo(q, k + 1, S \cap A)
      <4> TAKE A
      <4>1. Count(kept[k], A) = CountTo(q, k, S \cap A)  BY <2>5
      <4>2. q[k + 1] \in A <=> q[k + 1] \in S \cap A  BY <2>6
      <4> QED  BY <2>3, <3>4, <4>1, <4>2
    <3>7. Many(k + 1)  BY <3>5, <3>6
    <3> HIDE DEF In, Many
    <3> QED  BY <2>1, <3>2, <3>7
  <2>7. CASE q[k + 1] \notin S
    <3>1. kept[k + 1] = kept[k]  BY <2>2, <2>7
    <3>2. In(k + 1)  BY <2>5, <3>1
    <3>3. CountTo(q, k + 1, S) = CountTo(q, k, S)  BY <2>3, <2>4, <2>7
    <3>4. \A A : CountTo(q, k + 1, S \cap A) = CountTo(q, k, S \cap A)
      <4> TAKE A
      <4>1. q[k + 1] \notin S \cap A  BY <2>7
      <4>2. CountTo(q, k + 1, S \cap A) = CountTo(q, k, S \cap A) + 0  BY <2>3, <4>1
      <4>3. CountTo(q, k, S \cap A) \in Nat  BY <2>4
      <4> QED  BY <4>2, <4>3
    <3>5. Many(k + 1)  BY <2>5, <3>1, <3>3, <3>4
    <3> HIDE DEF In, Many
    <3> QED  BY <2>1, <3>2, <3>5
  <2> QED  BY <2>6, <2>7
<1>5. n \in G
  <2> HIDE DEF G
  <2> QED  BY <1>2, <1>3, <1>4, UpTo
<1>6. kept[n] = Keep(q, S) /\ Keep(q, S) \in Seq(T)  BY <1>1, <1>2 DEF KeepsOf
<1>7. \A A : CountTo(q, n, A) = Count(q, A)  BY <1>2 DEF Count, CountTo
<1> HIDE DEF n
<1>8. In(n) /\ Many(n)  BY <1>5
<1>9. Len(Keep(q, S)) = Count(q, S) /\ \A A : Count(Keep(q, S), A) = Count(q, S \cap A)
  BY <1>6, <1>7, <1>8
<1>10. \A x \in ToSet(Keep(q, S)) : x \in ToSet(q) /\ x \in S  BY <1>6, <1>8 DEF ToSet
<1> QED  BY <1>6, <1>9, <1>10

\* Where the elements of M are in q.
Places(q, M) == {i \in DOMAIN q : q[i] \in M}

\* Keep does not change which element of M is the first.
LEMMA FirstKept ==
    ASSUME NEW T, NEW q \in Seq(T), NEW S, NEW M \in SUBSET S
    PROVE  /\ Places(Keep(q, S), M) = {} <=> Places(q, M) = {}
           /\ Places(q, M) # {} => Keep(q, S)[Min(Places(Keep(q, S), M))] = q[Min(Places(q, M))]
<1>1. PICK kept : KeepsOf(q, S, T, kept)  BY KeepBySteps
<1> DEFINE n == Len(q)
           To(k) == {i \in 1..k : q[i] \in M}
           Same(k) == /\ Places(kept[k], M) = {} <=> To(k) = {}
                      /\ To(k) # {} => kept[k][Min(Places(kept[k], M))] = q[Min(To(k))]
           G == {k \in 0..n : Same(k)}
<1>2. n \in Nat /\ DOMAIN q = 1..n /\ (\A i \in 1..n : q[i] \in T)  OBVIOUS
<1>3. 0 \in G
  <2>1. kept[0] = <<>>  BY <1>1 DEF KeepsOf
  <2>2. DOMAIN <<>> = {}  OBVIOUS
  <2>3. Same(0)  BY <2>1, <2>2 DEF Places
  <2> HIDE DEF Same
  <2> QED  BY <1>2, <2>3
<1>4. ASSUME NEW k \in Nat, k < n, k \in G  PROVE k + 1 \in G
  <2>0. k + 1 \in 1..n /\ (k + 1) - 1 = k /\ k \in 0..n  BY <1>2, <1>4
  <2>1. k + 1 \in 1..n /\ (k + 1) - 1 = k /\ q[k + 1] \in T /\ kept[k] \in Seq(T)
    BY <1>1, <1>2, <2>0 DEF KeepsOf
  <2>2. kept[k + 1] = IF q[k + 1] \in S THEN Append(kept[k], q[k + 1]) ELSE kept[k]
    BY <1>1, <2>1 DEF KeepsOf
  <2>3. Same(k)  BY <1>4
  <2> DEFINE H == Places(kept[k], M)
             H1 == Places(kept[k + 1], M)
             m == Len(kept[k]) + 1
  <2>4. m \in Nat /\ H \in SUBSET (1..(m - 1)) /\ To(k) \in SUBSET (1..k)
    BY <2>1 DEF Places
  <2>5. CASE q[k + 1] \notin M
    <3>1. To(k + 1) = To(k)  BY <2>5
    <3>2. H1 = H /\ (H # {} => kept[k + 1][Min(H)] = kept[k][Min(H)])
      <4>1. CASE q[k + 1] \notin S  BY <2>2, <4>1
      <4>2. CASE q[k + 1] \in S
        <5>1. kept[k + 1] = Append(kept[k], q[k + 1])  BY <2>2, <4>2
        <5>2. /\ DOMAIN kept[k] = 1..(m - 1) /\ DOMAIN kept[k + 1] = 1..m /\ kept[k + 1][m] = q[k + 1]
              /\ \A i \in 1..(m - 1) : kept[k + 1][i] = kept[k][i]
          BY <2>1, <5>1
        <5> HIDE DEF m
        <5>3. H1 = H
          <6>1. \A i \in 1..m : i = m \/ i \in 1..(m - 1)  BY <2>4
          <6> QED  BY <2>4, <2>5, <5>2, <6>1 DEF Places
        <5>4. H # {} => Min(H) \in H
          <6>1. H \in SUBSET Nat  BY <2>4
          <6> HIDE DEF H
          <6> QED  BY <6>1, Least
        <5> QED  BY <2>4, <5>2, <5>3, <5>4
      <4> QED  BY <4>1, <4>2
    <3>3. Same(k + 1)  BY <2>3, <3>1, <3>2
    <3> HIDE DEF Same
    <3> QED  BY <2>1, <3>3
  <2>6. CASE q[k + 1] \in M
    <3>1. kept[k + 1] = Append(kept[k], q[k + 1])  BY <2>2, <2>6
    <3>2. /\ DOMAIN kept[k] = 1..(m - 1) /\ DOMAIN kept[k + 1] = 1..m /\ kept[k + 1][m] = q[k + 1]
          /\ \A i \in 1..(m - 1) : kept[k + 1][i] = kept[k][i]
      BY <2>1, <3>1
    <3> HIDE DEF m
    <3>3. H1 = H \cup {m} /\ To(k + 1) = To(k) \cup {k + 1}
      <4>1. \A i \in 1..m : i = m \/ i \in 1..(m - 1)  BY <2>4
      <4>2. H1 = H \cup {m}
        <5>1. m \in 1..m  BY <2>1 DEF m
        <5> QED  BY <2>4, <2>6, <3>2, <4>1, <5>1 DEF Places
      <4> QED  BY <2>6, <4>2
    <3> DEFINE P == To(k)
               P1 == To(k + 1)
    <3>4. /\ P \in SUBSET Nat /\ P1 \in SUBSET Nat /\ H \in SUBSET Nat /\ H1 \in SUBSET Nat
          /\ P1 # {} /\ H1 # {} /\ \A i \in P : i <= k
      BY <2>4, <3>3
    <3> HIDE DEF P, P1, H, H1
    <3>5. Min(P1) \in P1 /\ Min(H1) \in H1 /\ (\A i \in P1 : Min(P1) <= i) /\ \A i \in H1 : Min(H1) <= i
      BY <3>4, Least
    <3>6. kept[k + 1][Min(H1)] = q[Min(P1)]
      <4>1. CASE P = {}
        <5>1. H = {}  BY <2>3, <4>1 DEF P, H
        <5>2. Min(P1) = k + 1 /\ Min(H1) = m  BY <3>3, <3>5, <4>1, <5>1 DEF P, P1
        <5> QED  BY <3>2, <5>2
      <4>2. CASE P # {}
        <5>1. H # {} /\ kept[k][Min(H)] = q[Min(P)]  BY <2>3, <4>2 DEF P, H
        <5>2. Min(P) \in P /\ Min(H) \in H /\ (\A i \in P : Min(P) <= i) /\ \A i \in H : Min(H) <= i
          BY <3>4, <4>2, <5>1, Least
        <5>3. Min(P1) = Min(P)
          <6>1. Min(P) <= k /\ Min(P1) <= Min(P) /\ Min(P) \in Nat /\ Min(P1) \in Nat
            BY <3>3, <3>4, <3>5, <5>2 DEF P, P1
          <6>2. Min(P1) # k + 1  BY <6>1
          <6>3. Min(P1) \in P  BY <3>3, <3>5, <6>2 DEF P, P1
          <6>4. Min(P) <= Min(P1)  BY <5>2, <6>3
          <6> QED  BY <6>1, <6>4
        <5>4. Min(H1) = Min(H) /\ Min(H) \in 1..(m - 1)
          <6>1. Min(H) \in 1..(m - 1) /\ Min(H1) <= Min(H) /\ Min(H) \in Nat /\ Min(H1) \in Nat
            BY <2>4, <3>3, <3>4, <3>5, <5>2
          <6>2. Min(H1) # m  BY <2>4, <6>1
          <6>3. Min(H1) \in H  BY <3>3, <3>5, <6>2
          <6>4. Min(H) <= Min(H1)  BY <5>2, <6>3
          <6> QED  BY <6>1, <6>4
        <5> QED  BY <3>2, <5>1, <5>3, <5>4
      <4> QED  BY <4>1, <4>2
    <3>7. Same(k + 1)  BY <3>4, <3>6 DEF P1, H1
    <3> HIDE DEF Same
    <3> QED  BY <2>1, <3>7
  <2> QED  BY <2>5, <2>6
<1>5. n \in G
  <2> HIDE DEF G
  <2> QED  BY <1>2, <1>3, <1>4, UpTo
<1>6. kept[n] = Keep(q, S)  BY <1>1, <1>2 DEF KeepsOf
<1>7. To(n) = Places(q, M)  BY <1>2 DEF Places
<1>8. Same(n)  BY <1>5
<1> HIDE DEF n, To
<1> QED  BY <1>6, <1>7, <1>8

\* Leaving out repetitions keeps to the elements.
LEMMA Firsts ==
    ASSUME NEW T, NEW q \in Seq(T)
    PROVE  FirstOccurrences(q) \in Seq(T)
<1> DEFINE n == Len(q)
           Value(g, i) == IF i = 0 THEN <<>>
                          ELSE IF q[i] \in ToSet(g[i - 1]) THEN g[i - 1] ELSE Append(g[i - 1], q[i])
           F == [i \in 1..n |-> [v \in Seq(T) |-> IF q[i] \in ToSet(v) THEN v ELSE Append(v, q[i])]]
           first == CHOOSE g : g = [i \in 0..n |-> Value(g, i)]
<1>1. n \in Nat /\ DOMAIN q = 1..n /\ \A i \in 1..n : q[i] \in T  OBVIOUS
<1>2. F \in [1..n -> [Seq(T) -> Seq(T)]]
  <2>1. ASSUME NEW i \in 1..n, NEW v \in Seq(T)
        PROVE  (IF q[i] \in ToSet(v) THEN v ELSE Append(v, q[i])) \in Seq(T)
    BY <1>1
  <2> QED  BY <2>1
<1>3. PICK g \in [0..n -> Seq(T)] : g[0] = <<>> /\ \A i \in 1..n : g[i] = F[i][g[i - 1]]
  <2>0. <<>> \in Seq(T)  OBVIOUS
  <2>1. PICK e \in Seq(T) : e = <<>>  BY <2>0
  <2> HIDE DEF F, n
  <2>2. F \in Steps(n, Seq(T))  BY <1>1, <1>2 DEF Steps
  <2>3. \E g : Follows(g, n, Seq(T), e, F)  BY <1>1, <2>1, <2>2, Recursion
  <2> QED  BY <2>1, <2>3 DEF Follows
<1>4. g = [i \in 0..n |-> Value(g, i)]
  <2>1. ASSUME NEW i \in 0..n  PROVE g[i] = Value(g, i)
    <3>1. CASE i = 0  BY <1>3, <3>1
    <3>2. CASE i # 0
      <4>1. i \in 1..n /\ i - 1 \in 0..n  BY <1>1, <3>2
      <4>2. g[i - 1] \in Seq(T)  BY <4>1
      <4>3. F[i][g[i - 1]] = Value(g, i)  BY <3>2, <4>1, <4>2
      <4> QED  BY <1>3, <4>1, <4>3
    <3> QED  BY <3>1, <3>2
  <2> HIDE DEF Value
  <2> QED  BY <1>3, <2>1
<1>5. first = [i \in 0..n |-> Value(first, i)]
  <2> HIDE DEF Value
  <2> QED  BY <1>4
<1>6. FirstOccurrences(q) = first[n]  BY DEF FirstOccurrences
<1> HIDE DEF first, F
<1>7. \A i \in 0..n : first[i] = Value(first, i)
  <2> HIDE DEF Value
  <2> QED  BY <1>5
<1> DEFINE G == {k \in 0..n : first[k] \in Seq(T)}
<1>8. 0 \in G
  <2>1. first[0] = <<>>  BY <1>1, <1>7
  <2>2. <<>> \in Seq(T)  OBVIOUS
  <2>3. first[0] \in Seq(T) /\ 0 \in 0..n  BY <1>1, <2>1, <2>2
  <2> QED  BY <2>3
<1>9. ASSUME NEW k \in Nat, k < n, k \in G  PROVE k + 1 \in G
  <2>1. k + 1 \in 1..n /\ (k + 1) - 1 = k /\ q[k + 1] \in T /\ first[k] \in Seq(T)  BY <1>1, <1>9
  <2>2. first[k + 1] = IF q[k + 1] \in ToSet(first[k]) THEN first[k] ELSE Append(first[k], q[k + 1])
    BY <1>7, <2>1
  <2>3. first[k + 1] \in Seq(T)  BY <2>1, <2>2
  <2> QED  BY <2>1, <2>3
<1>10. n \in G
  <2> HIDE DEF G
  <2> QED  BY <1>1, <1>8, <1>9, UpTo
<1> QED  BY <1>6, <1>10

\* Flattening a list of lists keeps to their elements.
LEMMA Flattened ==
    ASSUME NEW S, NEW q \in Seq(Seq(S))
    PROVE  FlattenSeq(q) \in Seq(S)
<1> DEFINE n == Len(q)
<1>1. CASE n = 0
  <2>1. q = <<>>  BY <1>1
  <2> QED  BY <1>1, <2>1 DEF FlattenSeq
<1>2. CASE n # 0
  <2> DEFINE Value(f, i) == IF i = 1 THEN q[i] ELSE f[i - 1] \o q[i]
             F == [i \in 1..n |-> [v \in Seq(S) |-> v \o q[i]]]
             flat == CHOOSE f : f = [i \in 1..n |-> Value(f, i)]
  <2>1. n \in Nat /\ 1 \in 1..n /\ n \in 1..n /\ \A i \in 1..n : q[i] \in Seq(S)  BY <1>2
  <2>2. F \in [1..n -> [Seq(S) -> Seq(S)]]
    <3>1. ASSUME NEW i \in 1..n, NEW v \in Seq(S)  PROVE v \o q[i] \in Seq(S)
      <4>1. q[i] \in Seq(S)  BY <2>1
      <4> QED  BY <4>1
    <3> QED  BY <3>1
  <2>3. PICK g \in [0..n -> Seq(S)] : g[0] = <<>> /\ \A i \in 1..n : g[i] = F[i][g[i - 1]]
    <3>0. <<>> \in Seq(S)  OBVIOUS
    <3>1. PICK e \in Seq(S) : e = <<>>  BY <3>0
    <3> HIDE DEF F, n
    <3>2. F \in Steps(n, Seq(S))  BY <2>1, <2>2 DEF Steps
    <3>3. \E g : Follows(g, n, Seq(S), e, F)  BY <2>1, <3>1, <3>2, Recursion
    <3> QED  BY <3>1, <3>3 DEF Follows
  <2> DEFINE h == [i \in 1..n |-> g[i]]
  <2>4. ASSUME NEW i \in 1..n  PROVE h[i] = Value(h, i)
    <3>0. i - 1 \in 0..n  BY <2>1
    <3>1. g[i - 1] \in Seq(S)  BY <3>0
    <3>2. h[i] = g[i - 1] \o q[i]  BY <2>3, <3>1
    <3>3. CASE i = 1
      <4>1. g[i - 1] = <<>> /\ <<>> \o q[i] = q[i]  BY <2>1, <2>3, <3>3
      <4> QED  BY <3>2, <3>3, <4>1
    <3>4. CASE i # 1
      <4>1. h[i - 1] = g[i - 1]  BY <3>4
      <4> QED  BY <3>2, <3>4, <4>1
    <3> QED  BY <3>3, <3>4
  <2>5. h = [i \in 1..n |-> Value(h, i)]
    <3> HIDE DEF Value
    <3> QED  BY <2>4
  <2>6. flat = [i \in 1..n |-> Value(flat, i)]
    <3> HIDE DEF Value, h
    <3> QED  BY <2>5
  <2>7. FlattenSeq(q) = flat[n]  BY <1>2 DEF FlattenSeq
  <2> HIDE DEF flat, F
  <2>8. \A i \in 1..n : flat[i] = Value(flat, i)
    <3> HIDE DEF Value
    <3> QED  BY <2>6
  <2> DEFINE G == {k \in Nat : k \in 1..n => flat[k] \in Seq(S)}
  <2>9. 0 \in G  OBVIOUS
  <2>10. ASSUME NEW k \in Nat, k < n, k \in G  PROVE k + 1 \in G
    <3>1. k + 1 \in 1..n /\ q[k + 1] \in Seq(S)  BY <2>1, <2>10
    <3>2. CASE k = 0  BY <2>8, <3>1, <3>2
    <3>3. CASE k # 0
      <4>1. flat[k] \in Seq(S) /\ (k + 1) - 1 = k /\ k + 1 # 1  BY <2>10, <3>3
      <4>2. flat[k + 1] = flat[k] \o q[k + 1]  BY <2>8, <3>1, <4>1
      <4>3. flat[k] \o q[k + 1] \in Seq(S)
        <5> HIDE DEF G
        <5> QED  BY <3>1, <4>1
      <4>4. flat[k + 1] \in Seq(S)  BY <4>2, <4>3
      <4> QED  BY <4>4
    <3> QED  BY <3>2, <3>3
  <2>11. n \in G
    <3> HIDE DEF G
    <3> QED  BY <2>1, <2>9, <2>10, UpTo
  <2> QED  BY <2>1, <2>7, <2>11
<1> QED  BY <1>1, <1>2

-----------------------------------------------------------------------------
(* Routing *)

\* The endpoints that some scenario declares.
Declared == UNION {ToSet(s.paths) : s \in ToSet(Scenarios)}

\* An endpoint of a scenario is its segments and its pattern.
LEMMA DeclaredShape ==
    ASSUME NEW ep \in Declared
    PROVE  ep = [segs |-> ep.segs, lang |-> ep.lang]
BY RequestPathAssumption DEF Declared

\* The custom endpoints are declared ones, in a list.
LEMMA Custom == CustomEndpoints \in Seq(Declared)
<1> DEFINE lists == [i \in DOMAIN Scenarios |-> Scenarios[i].paths]
           flat == FlattenSeq(lists)
           all == FirstOccurrences(flat)
           sel == {ep \in ToSet(all) : IsPattern(ep) \/ ep.segs \notin ReservedPaths}
<1>1. Scenarios \in Seq(ToSet(Scenarios))  BY RequestPathAssumption
<1>2. ASSUME NEW i \in DOMAIN Scenarios  PROVE Scenarios[i].paths \in Seq(Declared)
  <2>1. Scenarios[i] \in ToSet(Scenarios)  BY DEF ToSet
  <2>2. Scenarios[i].paths \in Seq(ToSet(Scenarios[i].paths))
    BY <2>1, RequestPathAssumption DEF IsScenario
  <2>3. ToSet(Scenarios[i].paths) \subseteq Declared  BY <2>1 DEF Declared
  <2> QED  BY <2>2, <2>3
<1>3. lists \in Seq(Seq(Declared))
  <2>1. Len(Scenarios) \in Nat /\ DOMAIN Scenarios = 1..Len(Scenarios)  BY <1>1
  <2>2. lists \in [1..Len(Scenarios) -> Seq(Declared)]  BY <1>2, <2>1
  <2> QED  BY <2>1, <2>2
<1> HIDE DEF lists
<1>4. flat \in Seq(Declared)  BY <1>3, Flattened
<1> HIDE DEF flat
<1>5. all \in Seq(Declared)  BY <1>4, Firsts
<1> HIDE DEF all
<1>6. Keep(all, sel) \in Seq(Declared)
  <2> HIDE DEF sel
  <2> QED  BY <1>5, Kept
<1>7. CustomEndpoints = Keep(all, sel)  BY DEF CustomEndpoints, all, flat, lists
<1> QED  BY <1>6, <1>7

\* The methods that some scenario allows at an endpoint.
AllowedAt(ep) == UNION {MethodsAt(Scenarios[i], ep) : i \in DOMAIN Scenarios}

LiteralsAt(path) == {ep \in ToSet(CustomEndpoints) : ~IsPattern(ep) /\ ep.segs = path}
PatternsAt(path) == {ep \in ToSet(CustomEndpoints) : IsPattern(ep) /\ EndpointMatches(ep, path)}

\* A path that a literal endpoint names has that endpoint only.
LEMMA OneLiteral ==
    ASSUME NEW path, LiteralsAt(path) # {}
    PROVE  LiteralsAt(path) = {Literal(path)}
<1>1. ASSUME NEW ep \in LiteralsAt(path)  PROVE ep = Literal(path)
  <2>1. ep \in Declared  BY Custom DEF LiteralsAt, ToSet
  <2>2. ep = [segs |-> ep.segs, lang |-> ep.lang]  BY <2>1, DeclaredShape
  <2>3. ep.lang = {} /\ ep.segs = path  BY <1>1 DEF LiteralsAt, IsPattern
  <2> QED  BY <2>2, <2>3 DEF Literal
<1> QED  BY <1>1

AnswerFor(method, allowed) ==
    CASE method = "REQMOD" -> "reqmod"
      [] method = "OPTIONS" /\ "OPTIONS" \in allowed -> "options"
      [] OTHER -> "respmod"

\* What Expected says, case by case.
LEMMA ExpectedCases ==
    ASSUME NEW req
    PROVE  /\ req.path \in ReservedPaths =>
                  Expected(req) = AnswerFor(req.method, {m \in DOMAIN Reserved : Reserved[m] = req.path})
           /\ req.path \notin ReservedPaths /\ LiteralsAt(req.path) # {} =>
                  Expected(req) = AnswerFor(req.method, AllowedAt(Literal(req.path)))
           /\ req.path \notin ReservedPaths /\ LiteralsAt(req.path) = {} =>
                  /\ PatternsAt(req.path) = {} => Expected(req) = "404"
                  /\ PatternsAt(req.path) # {} =>
                         Expected(req) = AnswerFor(req.method,
                             AllowedAt(CustomEndpoints[Min(Places(CustomEndpoints, PatternsAt(req.path)))]))
<1> DEFINE declaring(ep) == UNION {MethodsAt(Scenarios[i], ep) : i \in DOMAIN Scenarios}
           literal == {ep \in ToSet(CustomEndpoints) : ~IsPattern(ep) /\ ep.segs = req.path}
           matching == {i \in DOMAIN CustomEndpoints : /\ IsPattern(CustomEndpoints[i])
                                                       /\ EndpointMatches(CustomEndpoints[i], req.path)}
           allowed == IF req.path \in ReservedPaths THEN {m \in DOMAIN Reserved : Reserved[m] = req.path}
                      ELSE IF literal # {} THEN UNION {declaring(ep) : ep \in literal}
                      ELSE declaring(CustomEndpoints[Min(matching)])
<1>1. Expected(req) = IF req.path \notin ReservedPaths /\ literal = {} /\ matching = {} 
                      THEN "404" ELSE AnswerFor(req.method, allowed)
  BY DEF Expected, AnswerFor
<1>2. literal = LiteralsAt(req.path)  BY DEF LiteralsAt
<1>3. matching = Places(CustomEndpoints, PatternsAt(req.path)) /\ (matching = {} <=> PatternsAt(req.path) = {})
  BY DEF Places, PatternsAt, ToSet
<1>4. \A ep : declaring(ep) = AllowedAt(ep)  BY DEF AllowedAt
<1>5. literal # {} => UNION {declaring(ep) : ep \in literal} = AllowedAt(Literal(req.path))
  <2> HAVE literal # {}
  <2>1. literal = {Literal(req.path)}  BY <1>2, OneLiteral
  <2> HIDE DEF literal, declaring
  <2>2. UNION {declaring(ep) : ep \in literal} = declaring(Literal(req.path))  BY <2>1
  <2> QED  BY <1>4, <2>2
<1> HIDE DEF literal, matching, declaring
<1>6. req.path \in ReservedPaths => Expected(req) = AnswerFor(req.method, {m \in DOMAIN Reserved : Reserved[m] = req.path})
  <2> HAVE req.path \in ReservedPaths
  <2>1. allowed = {m \in DOMAIN Reserved : Reserved[m] = req.path}  OBVIOUS
  <2> HIDE DEF allowed
  <2> QED  BY <1>1, <2>1
<1>7. req.path \notin ReservedPaths /\ LiteralsAt(req.path) # {} =>
          Expected(req) = AnswerFor(req.method, AllowedAt(Literal(req.path)))
  <2> HAVE req.path \notin ReservedPaths /\ LiteralsAt(req.path) # {}
  <2>1. allowed = AllowedAt(Literal(req.path))  BY <1>2, <1>5
  <2> HIDE DEF allowed
  <2> QED  BY <1>1, <1>2, <2>1
<1>8. ASSUME req.path \notin ReservedPaths, LiteralsAt(req.path) = {}
      PROVE  /\ PatternsAt(req.path) = {} => Expected(req) = "404"
             /\ PatternsAt(req.path) # {} =>
                    Expected(req) = AnswerFor(req.method, AllowedAt(CustomEndpoints[Min(Places(CustomEndpoints, PatternsAt(req.path)))]))
  <2>1. allowed = AllowedAt(CustomEndpoints[Min(Places(CustomEndpoints, PatternsAt(req.path)))])
    BY <1>2, <1>3, <1>4, <1>8
  <2> HIDE DEF allowed
  <2> QED  BY <1>1, <1>2, <1>3, <1>8, <2>1
<1> HIDE DEF allowed
<1> QED  BY <1>6, <1>7, <1>8

\* The handler at a path of the table is right for every request to it.
LEMMA RouteRight ==
    ASSUME NEW req, req.path \in DOMAIN RegisteredRoutes,
           NEW h, h.allowed = RegisteredRoutes[req.path].allowed
    PROVE  Right(h, req)
<1> DEFINE path == req.path
           custom == {ep \in ToSet(CustomEndpoints) : ~IsPattern(ep)}
<1>1. /\ DOMAIN RegisteredRoutes = {ep.segs : ep \in custom} \cup ReservedPaths
      /\ path \in ReservedPaths => RegisteredRoutes[path].allowed = {m \in DOMAIN Reserved : Reserved[m] = path}
      /\ path \notin ReservedPaths => RegisteredRoutes[path].allowed = HandlerFor(Literal(path)).allowed
  BY DEF RegisteredRoutes
<1>2. HandlerFor(Literal(path)).allowed = AllowedAt(Literal(path))  BY DEF HandlerFor, AllowedAt
<1>3. DispatchTo(h, req.method) = AnswerFor(req.method, h.allowed)  BY DEF DispatchTo, AnswerFor
<1>4. CASE path \in ReservedPaths  BY <1>1, <1>3, <1>4, ExpectedCases DEF Right
<1>5. CASE path \notin ReservedPaths
  <2>1. LiteralsAt(path) # {}  BY <1>1, <1>5 DEF LiteralsAt
  <2> QED  BY <1>1, <1>2, <1>3, <1>5, <2>1, ExpectedCases DEF Right
<1> QED  BY <1>4, <1>5

\* A path that is not in the table belongs to the first pattern that matches it, or to nobody.
LEMMA PatternRight ==
    ASSUME NEW req, req.path \notin DOMAIN RegisteredRoutes,
           NEW hits, hits = {i \in DOMAIN RegisteredPatterns : EndpointMatches(RegisteredPatterns[i].ep, req.path)}
    PROVE  /\ hits = {} => Expected(req) = "404"
           /\ hits # {} => Right(RegisteredPatterns[Min(hits)], req)
<1> DEFINE path == req.path
           sel == {ep \in ToSet(CustomEndpoints) : IsPattern(ep)}
           q == Keep(CustomEndpoints, sel)
           M == PatternsAt(path)
<1>1. path \notin ReservedPaths /\ LiteralsAt(path) = {}  BY DEF RegisteredRoutes, LiteralsAt
<1>2. RegisteredPatterns = [i \in DOMAIN q |-> HandlerFor(q[i])]  BY DEF RegisteredPatterns
<1>3. M \in SUBSET sel  BY DEF PatternsAt
<1> HIDE DEF sel
<1>4. q \in Seq(Declared) /\ \A x \in ToSet(q) : x \in ToSet(CustomEndpoints) /\ x \in sel  BY Custom, Kept
<1>5. /\ Places(q, M) = {} <=> Places(CustomEndpoints, M) = {}
      /\ Places(CustomEndpoints, M) # {} => q[Min(Places(q, M))] = CustomEndpoints[Min(Places(CustomEndpoints, M))]
  <2> HIDE DEF M
  <2> QED  BY <1>3, Custom, FirstKept
<1> HIDE DEF q
<1>6. \A i \in DOMAIN q : q[i] \in ToSet(CustomEndpoints) /\ IsPattern(q[i])  BY <1>4 DEF sel, ToSet
<1>7. hits = Places(q, M)
  <2>1. \A i \in DOMAIN q : RegisteredPatterns[i].ep = q[i]  BY <1>2 DEF HandlerFor
  <2>2. DOMAIN RegisteredPatterns = DOMAIN q  BY <1>2
  <2> QED  BY <1>6, <2>1, <2>2 DEF Places, PatternsAt
<1>8. Places(CustomEndpoints, M) = {} <=> M = {}  BY DEF Places, PatternsAt, ToSet
<1>9. CASE hits = {}  BY <1>1, <1>5, <1>7, <1>8, <1>9, ExpectedCases
<1>10. CASE hits # {}
  <2> DEFINE h == RegisteredPatterns[Min(hits)]
             ep == CustomEndpoints[Min(Places(CustomEndpoints, M))]
  <2>1. Min(hits) \in DOMAIN q
    <3>1. Len(q) \in Nat /\ DOMAIN q = 1..Len(q)  BY <1>4
    <3>2. hits \in SUBSET Nat /\ hits \subseteq DOMAIN q  BY <1>7, <3>1 DEF Places
    <3>3. Min(hits) \in hits  BY <1>10, <3>2, Least
    <3> QED  BY <3>2, <3>3
  <2>2. q[Min(hits)] = ep  BY <1>5, <1>7, <1>10
  <2>3. h.allowed = AllowedAt(ep)  BY <1>2, <2>1, <2>2 DEF HandlerFor, AllowedAt
  <2>4. Expected(req) = AnswerFor(req.method, AllowedAt(ep))  BY <1>1, <1>5, <1>7, <1>8, <1>10, ExpectedCases
  <2>5. DispatchTo(h, req.method) = AnswerFor(req.method, h.allowed)  BY DEF DispatchTo, AnswerFor
  <2> QED  BY <1>10, <2>3, <2>4, <2>5 DEF Right
<1> QED  BY <1>9, <1>10

-----------------------------------------------------------------------------
(* The cache *)

CacheFields == {"map", "nodes", "head", "tail"}
NodeFields == {"key", "h", "count", "prev", "next"}

\* d has the entries of c, linked in any way.
SameEntries(c, d) ==
    /\ DOMAIN d = CacheFields /\ d.map = c.map
    /\ IsList(d.nodes) /\ DOMAIN d.nodes = DOMAIN c.nodes
    /\ \A i \in DOMAIN c.nodes : /\ DOMAIN d.nodes[i] = NodeFields
                                 /\ d.nodes[i].key = c.nodes[i].key /\ d.nodes[i].h = c.nodes[i].h

\* The handler the cache has for a key.
Entry(c, k) == c.nodes[c.map[k]].h

\* d has entries of c only.
Fewer(c, d) == \A k \in DOMAIN d.map : k \in DOMAIN c.map /\ Entry(d, k) = Entry(c, k)

\* The same but for the entry of key, which has h.
PutsInto(c, key, h, d) ==
    \A k \in DOMAIN d.map : IF k = key THEN Entry(d, k) = h ELSE k \in DOMAIN c.map /\ Entry(d, k) = Entry(c, k)

\* Linking the nodes in another way keeps the cache right: nothing is asked of the links.
LEMMA EntriesKept ==
    ASSUME NEW c, CacheOK(c), NEW d, SameEntries(c, d)
    PROVE  CacheOK(d) /\ Fewer(c, d)
<1>1. \A i \in DOMAIN d.nodes : NodeOK(d.nodes[i])  BY DEF CacheOK, SameEntries, NodeOK, NodeFields
<1>2. CacheOK(d)  BY <1>1 DEF CacheOK, SameEntries, CacheFields
<1>3. ASSUME NEW k \in DOMAIN d.map  PROVE k \in DOMAIN c.map /\ Entry(d, k) = Entry(c, k)
  <2>1. k \in DOMAIN c.map /\ d.map[k] = c.map[k] /\ c.map[k] \in DOMAIN c.nodes  BY DEF CacheOK, SameEntries
  <2> QED  BY <2>1 DEF SameEntries, Entry
<1> QED  BY <1>2, <1>3 DEF Fewer

\* Replacing the nodes and the ends of the list.
LEMMA Rebuilt ==
    ASSUME NEW c, CacheOK(c), NEW d, DOMAIN d = CacheFields, d.map = c.map,
           d.nodes = [i \in DOMAIN c.nodes |-> d.nodes[i]],
           \A i \in DOMAIN c.nodes : /\ DOMAIN d.nodes[i] = NodeFields
                                     /\ d.nodes[i].key = c.nodes[i].key /\ d.nodes[i].h = c.nodes[i].h
    PROVE  SameEntries(c, d)
<1>1. Len(c.nodes) \in Nat /\ DOMAIN c.nodes = 1..Len(c.nodes)  BY DEF CacheOK, IsList
<1>2. IsList(d.nodes) /\ DOMAIN d.nodes = DOMAIN c.nodes
  <2>1. PICK q : q = d.nodes  OBVIOUS
  <2>2. IsList(q) /\ DOMAIN q = 1..Len(c.nodes)  BY <1>1, <2>1, Listed
  <2> QED  BY <1>1, <2>1, <2>2
<1> QED  BY <1>2 DEF SameEntries

\* removeNode changes links only, whether or not the node is still in the list.
LEMMA NodeRemoved ==
    ASSUME NEW c, CacheOK(c), NEW n
    PROVE  SameEntries(c, RemoveNode(c, n))
<1> DEFINE p == c.nodes[n].prev
           q == c.nodes[n].next
           new(i) == IF i = n THEN [c.nodes[i] EXCEPT !.prev = 0, !.next = 0]
                     ELSE [c.nodes[i] EXCEPT !.next = IF i = p THEN q ELSE @, !.prev = IF i = q THEN p ELSE @]
           nodes == [i \in DOMAIN c.nodes |-> new(i)]
           a == IF p = 0 THEN q ELSE c.head
           b == IF q = 0 THEN p ELSE c.tail
<1>1. \A i \in DOMAIN c.nodes : DOMAIN c.nodes[i] = NodeFields  BY DEF CacheOK, NodeOK, NodeFields
<1> HIDE DEF p, q
<1>2. ASSUME NEW i \in DOMAIN c.nodes
      PROVE  DOMAIN new(i) = NodeFields /\ new(i).key = c.nodes[i].key /\ new(i).h = c.nodes[i].h
  BY <1>1, <1>2 DEF NodeFields
<1>3. RemoveNode(c, n) = [c EXCEPT !.nodes = nodes, !.head = a, !.tail = b]
  <2>1. DOMAIN c = CacheFields  BY DEF CacheOK, CacheFields
  <2> QED  BY <2>1 DEF RemoveNode, CacheFields, p, q
<1> HIDE DEF new, a, b
<1>4. nodes = [i \in DOMAIN c.nodes |-> nodes[i]] /\ \A i \in DOMAIN c.nodes : nodes[i] = new(i)  OBVIOUS
<1>5. \A i \in DOMAIN c.nodes : /\ DOMAIN nodes[i] = NodeFields
                                /\ nodes[i].key = c.nodes[i].key /\ nodes[i].h = c.nodes[i].h
  <2> HIDE DEF nodes
  <2> QED  BY <1>2, <1>4
<1>6. PICK d : d = RemoveNode(c, n)  OBVIOUS
<1> HIDE DEF nodes
<1>7. DOMAIN d = CacheFields /\ d.map = c.map /\ d.nodes = nodes  BY <1>3, <1>6 DEF CacheOK, CacheFields
<1>8. SameEntries(c, d)  BY <1>4, <1>5, <1>7, Rebuilt
<1> QED  BY <1>6, <1>8

\* addToFront changes links only, whichever node it is given.
LEMMA NodeAdded ==
    ASSUME NEW c, CacheOK(c), NEW n
    PROVE  SameEntries(c, AddToFront(c, n))
<1> DEFINE new(i) == IF i = n THEN [c.nodes[i] EXCEPT !.prev = 0, !.next = c.head]
                     ELSE [c.nodes[i] EXCEPT !.prev = IF i = c.head THEN n ELSE @]
           nodes == [i \in DOMAIN c.nodes |-> new(i)]
           b == IF c.tail = 0 THEN n ELSE c.tail
<1>1. \A i \in DOMAIN c.nodes : DOMAIN c.nodes[i] = NodeFields  BY DEF CacheOK, NodeOK, NodeFields
<1>2. ASSUME NEW i \in DOMAIN c.nodes
      PROVE  DOMAIN new(i) = NodeFields /\ new(i).key = c.nodes[i].key /\ new(i).h = c.nodes[i].h
  BY <1>1, <1>2 DEF NodeFields
<1>3. AddToFront(c, n) = [c EXCEPT !.nodes = nodes, !.head = n, !.tail = b]
  <2>1. DOMAIN c = CacheFields  BY DEF CacheOK, CacheFields
  <2> QED  BY <2>1 DEF AddToFront, CacheFields
<1> HIDE DEF new, b
<1>4. nodes = [i \in DOMAIN c.nodes |-> nodes[i]] /\ \A i \in DOMAIN c.nodes : nodes[i] = new(i)  OBVIOUS
<1>5. \A i \in DOMAIN c.nodes : /\ DOMAIN nodes[i] = NodeFields
                                /\ nodes[i].key = c.nodes[i].key /\ nodes[i].h = c.nodes[i].h
  <2> HIDE DEF nodes
  <2> QED  BY <1>2, <1>4
<1>6. PICK d : d = AddToFront(c, n)  OBVIOUS
<1> HIDE DEF nodes
<1>7. DOMAIN d = CacheFields /\ d.map = c.map /\ d.nodes = nodes  BY <1>3, <1>6 DEF CacheOK, CacheFields
<1>8. SameEntries(c, d)  BY <1>4, <1>5, <1>7, Rebuilt
<1> QED  BY <1>6, <1>8

\* moveToFront, of any node, keeps the cache right.
LEMMA NodeMoved ==
    ASSUME NEW c, CacheOK(c), NEW n
    PROVE  CacheOK(MoveToFront(c, n)) /\ Fewer(c, MoveToFront(c, n))
<1> DEFINE d == RemoveNode(c, n)
<1>1. CacheOK(d) /\ Fewer(c, d)  BY NodeRemoved, EntriesKept
<1> HIDE DEF d
<1>2. CacheOK(AddToFront(d, n)) /\ Fewer(d, AddToFront(d, n))  BY <1>1, NodeAdded, EntriesKept
<1>3. Fewer(c, AddToFront(d, n)) /\ Fewer(c, c)  BY <1>1, <1>2 DEF Fewer
<1> QED  BY <1>2, <1>3 DEF MoveToFront, d

\* Taking a key out of the map.
LEMMA Forgotten ==
    ASSUME NEW c, CacheOK(c), NEW key, NEW d, d = [c EXCEPT !.map = Forget(c.map, key)]
    PROVE  CacheOK(d) /\ Fewer(c, d)
<1>1. DOMAIN d = CacheFields /\ d.nodes = c.nodes /\ d.map = Forget(c.map, key)  BY DEF CacheOK, CacheFields
<1>2. DOMAIN d.map = DOMAIN c.map \ {key} /\ \A k \in DOMAIN d.map : d.map[k] = c.map[k]
  BY <1>1 DEF Forget
<1>3. Fewer(c, d)  BY <1>1, <1>2 DEF Fewer, Entry
<1> QED  BY <1>1, <1>2, <1>3 DEF CacheOK, CacheFields

\* Evicting an expired key or the least recently used one keeps the cache right.
LEMMA EntryEvicted ==
    ASSUME NEW c, CacheOK(c), NEW key
    PROVE  /\ CacheOK(EvictKey(c, key)) /\ Fewer(c, EvictKey(c, key))
           /\ CacheOK(EvictLRU(c)) /\ Fewer(c, EvictLRU(c))
<1>1. ASSUME NEW n, NEW k
      PROVE  /\ CacheOK([RemoveNode(c, n) EXCEPT !.map = Forget(@, k)])
             /\ Fewer(c, [RemoveNode(c, n) EXCEPT !.map = Forget(@, k)])
  <2>1. CacheOK(RemoveNode(c, n)) /\ Fewer(c, RemoveNode(c, n))  BY NodeRemoved, EntriesKept
  <2>2. PICK d : d = RemoveNode(c, n)  OBVIOUS
  <2>3. PICK e : e = [d EXCEPT !.map = Forget(d.map, k)]  OBVIOUS
  <2>4. CacheOK(e) /\ Fewer(d, e)  BY <2>1, <2>2, <2>3, Forgotten
  <2>5. Fewer(c, e)  BY <2>1, <2>2, <2>4 DEF Fewer
  <2>6. e = [RemoveNode(c, n) EXCEPT !.map = Forget(@, k)]  BY <2>2, <2>3
  <2> QED  BY <2>4, <2>5, <2>6
<1>2. Fewer(c, c)  BY DEF Fewer
<1>3. CacheOK(EvictKey(c, key)) /\ Fewer(c, EvictKey(c, key))  BY <1>1, <1>2 DEF EvictKey
<1>4. CacheOK(EvictLRU(c)) /\ Fewer(c, EvictLRU(c))  BY <1>1, <1>2 DEF EvictLRU
<1> QED  BY <1>3, <1>4

\* A refreshed entry.
LEMMA EntryRefreshed ==
    ASSUME NEW c, CacheOK(c), NEW key \in DOMAIN c.map, NEW n, n = c.map[key], NEW h, Right(h, key), NEW count,
           NEW d, d = [c EXCEPT !.nodes[n].h = h, !.nodes[n].count = count]
    PROVE  CacheOK(d) /\ PutsInto(c, key, h, d)
<1>0. n \in DOMAIN c.nodes /\ c.nodes[n].key = key  BY DEF CacheOK
<1> DEFINE x == [[c.nodes[n] EXCEPT !.h = h] EXCEPT !.count = count]
<1>1. DOMAIN c = CacheFields /\ DOMAIN c.nodes[n] = NodeFields  BY <1>0 DEF CacheOK, CacheFields, NodeOK, NodeFields
<1>2. DOMAIN x = NodeFields /\ x.key = c.nodes[n].key /\ x.h = h  BY <1>1 DEF NodeFields
<1>3. d.nodes = [c.nodes EXCEPT ![n] = x] /\ d.map = c.map /\ DOMAIN d = CacheFields
  BY <1>0, <1>1 DEF CacheFields
<1>4. NodeOK(x)  BY <1>0, <1>2 DEF NodeOK, NodeFields
<1> HIDE DEF x
<1>5. Len(c.nodes) \in Nat /\ DOMAIN c.nodes = 1..Len(c.nodes)  BY DEF CacheOK, IsList
<1>6. IsList(d.nodes) /\ DOMAIN d.nodes = DOMAIN c.nodes
  <2>1. d.nodes = [i \in 1..Len(c.nodes) |-> d.nodes[i]]  BY <1>3, <1>5
  <2> QED  BY <1>5, <2>1, Listed
<1>7. \A i \in DOMAIN c.nodes : d.nodes[i] = IF i = n THEN x ELSE c.nodes[i]  BY <1>3
<1>8. \A i \in DOMAIN d.nodes : NodeOK(d.nodes[i]) /\ d.nodes[i].key = c.nodes[i].key
  BY <1>2, <1>4, <1>6, <1>7 DEF CacheOK
<1>9. ASSUME NEW k \in DOMAIN d.map
      PROVE  IF k = key THEN Entry(d, k) = h ELSE k \in DOMAIN c.map /\ Entry(d, k) = Entry(c, k)
  <2>1. k \in DOMAIN c.map /\ d.map[k] = c.map[k] /\ c.map[k] \in DOMAIN c.nodes /\ c.nodes[c.map[k]].key = k
    BY <1>3 DEF CacheOK
  <2> QED  BY <1>0, <1>2, <1>7, <2>1 DEF Entry
<1>10. PutsInto(c, key, h, d)  BY <1>9 DEF PutsInto
<1> QED  BY <1>3, <1>6, <1>8, <1>10 DEF CacheOK, CacheFields

\* A new entry.
LEMMA EntryBound ==
    ASSUME NEW c, CacheOK(c), NEW key \in Targets, NEW h, Right(h, key),
           NEW n, n = Len(c.nodes) + 1,
           NEW x, x = [key |-> key, h |-> h, count |-> 1, prev |-> 0, next |-> 0],
           NEW d, d = [c EXCEPT !.map = Bind(c.map, key, n), !.nodes = Append(c.nodes, x)]
    PROVE  CacheOK(d) /\ PutsInto(c, key, h, d)
<1>1. DOMAIN c = CacheFields /\ IsList(c.nodes)  BY DEF CacheOK, CacheFields
<1>2. d.nodes = Append(c.nodes, x) /\ d.map = Bind(c.map, key, n) /\ DOMAIN d = CacheFields
  BY <1>1 DEF CacheFields
<1>3. DOMAIN x = NodeFields /\ x.key = key /\ x.h = h  BY DEF NodeFields
<1>4. NodeOK(x)  BY <1>3 DEF NodeOK, NodeFields
<1>5. Len(c.nodes) \in Nat /\ DOMAIN c.nodes = 1..Len(c.nodes)  BY <1>1 DEF IsList
<1>6. /\ n \in Nat /\ DOMAIN d.nodes = 1..n /\ d.nodes[n] = x /\ \A i \in DOMAIN c.nodes : d.nodes[i] = c.nodes[i]
      /\ d.nodes = [i \in 1..n |-> d.nodes[i]]
  <2>1. c.nodes \in Seq(ToSet(c.nodes) \cup {x})  BY <1>1 DEF IsList
  <2>2. PICK T : T = ToSet(c.nodes) \cup {x}  OBVIOUS
  <2>3. c.nodes \in Seq(T) /\ x \in T  BY <2>1, <2>2
  <2>4. Append(c.nodes, x) \in Seq(T) /\ Len(Append(c.nodes, x)) = n  BY <2>3
  <2>5. Append(c.nodes, x)[n] = x /\ \A i \in 1..Len(c.nodes) : Append(c.nodes, x)[i] = c.nodes[i]  BY <2>3
  <2> QED  BY <1>2, <1>5, <2>4, <2>5
<1>7. IsList(d.nodes)  BY <1>6, Listed
<1>8. \A i \in DOMAIN d.nodes : NodeOK(d.nodes[i])
  <2>1. \A i \in 1..n : i = n \/ i \in DOMAIN c.nodes  BY <1>5, <1>6
  <2> QED  BY <1>4, <1>6, <2>1 DEF CacheOK
<1>9. DOMAIN d.map = DOMAIN c.map \cup {key} /\ \A k \in DOMAIN d.map : d.map[k] = IF k = key THEN n ELSE c.map[k]
  BY <1>2 DEF Bind
<1>10. \A k \in DOMAIN d.map : d.map[k] \in DOMAIN d.nodes /\ d.nodes[d.map[k]].key = k
  <2> TAKE k \in DOMAIN d.map
  <2>1. CASE k = key  BY <1>3, <1>6, <1>9, <2>1
  <2>2. CASE k # key
    <3>1. d.map[k] = c.map[k] /\ k \in DOMAIN c.map  BY <1>9, <2>2
    <3>2. c.map[k] \in DOMAIN c.nodes /\ c.nodes[c.map[k]].key = k  BY <3>1 DEF CacheOK
    <3>3. c.map[k] \in DOMAIN d.nodes  BY <1>5, <1>6, <3>2
    <3> QED  BY <1>6, <3>1, <3>2, <3>3
  <2> QED  BY <2>1, <2>2
<1>11. DOMAIN d.map \subseteq Targets  BY <1>9 DEF CacheOK
<1>12. PutsInto(c, key, h, d)
  <2> SUFFICES ASSUME NEW k \in DOMAIN d.map
               PROVE  IF k = key THEN Entry(d, k) = h ELSE k \in DOMAIN c.map /\ Entry(d, k) = Entry(c, k)
    BY DEF PutsInto
  <2>1. CASE k = key  BY <1>3, <1>6, <1>9, <2>1 DEF Entry
  <2>2. CASE k # key
    <3>1. d.map[k] = c.map[k] /\ k \in DOMAIN c.map  BY <1>9, <2>2
    <3>2. c.map[k] \in DOMAIN c.nodes  BY <3>1 DEF CacheOK
    <3> QED  BY <1>6, <2>2, <3>1, <3>2 DEF Entry
  <2> QED  BY <2>1, <2>2
<1> QED  BY <1>2, <1>7, <1>8, <1>10, <1>11, <1>12 DEF CacheOK, CacheFields

\* Put keeps the cache right if its handler is right for its key.
LEMMA EntryPut ==
    ASSUME NEW c, CacheOK(c), NEW key \in Targets, NEW h, Right(h, key)
    PROVE  CacheOK(PutEntry(c, key, h)) /\ PutsInto(c, key, h, PutEntry(c, key, h))
<1>0. DOMAIN c = CacheFields /\ \A i \in DOMAIN c.nodes : DOMAIN c.nodes[i] = NodeFields
  BY DEF CacheOK, CacheFields, NodeOK, NodeFields
<1>1. CASE key \in DOMAIN c.map
  <2> DEFINE n == c.map[key]
             d == [c EXCEPT !.nodes[n].h = h, !.nodes[n].count = @ + 1]
  <2>1. n \in DOMAIN c.nodes /\ c.nodes[n].key = key  BY <1>1 DEF CacheOK
  <2>2. d = [c EXCEPT !.nodes[n].h = h, !.nodes[n].count = c.nodes[n].count + 1]
    BY <1>0, <2>1 DEF CacheFields, NodeFields
  <2> HIDE DEF n, d
  <2>3. CacheOK(d) /\ PutsInto(c, key, h, d)  BY <1>1, <2>2, EntryRefreshed DEF n
  <2>4. CacheOK(MoveToFront(d, n)) /\ Fewer(d, MoveToFront(d, n))  BY <2>3, NodeMoved
  <2>5. PutsInto(c, key, h, MoveToFront(d, n))  BY <2>3, <2>4 DEF PutsInto, Fewer
  <2> QED  BY <1>1, <2>4, <2>5 DEF PutEntry, n, d
<1>2. CASE key \notin DOMAIN c.map
  <2> DEFINE room == IF Cardinality(DOMAIN c.map) >= MaxEntries THEN EvictLRU(c) ELSE c
             n == Len(room.nodes) + 1
             x == [key |-> key, h |-> h, count |-> 1, prev |-> 0, next |-> 0]
             d == [room EXCEPT !.map = Bind(room.map, key, n), !.nodes = Append(room.nodes, x)]
  <2>1. CacheOK(room) /\ Fewer(c, room)
    <3>1. Fewer(c, c)  BY DEF Fewer
    <3> QED  BY <3>1, EntryEvicted
  <2>2. Len(room.nodes) = Len(c.nodes)
    <3>1. Len(EvictLRU(c).nodes) = Len(c.nodes)
      <4>1. CASE c.tail = 0  BY <4>1 DEF EvictLRU
      <4>2. CASE c.tail # 0
        <5>1. PICK r : r = RemoveNode(c, c.tail)  OBVIOUS
        <5>2. SameEntries(c, r)  BY <5>1, NodeRemoved
        <5>3. EvictLRU(c).nodes = r.nodes  BY <4>2, <5>1, <5>2 DEF EvictLRU, SameEntries, CacheFields
        <5>4. IsList(r.nodes) /\ IsList(c.nodes) /\ DOMAIN r.nodes = DOMAIN c.nodes  BY <5>2 DEF SameEntries, CacheOK
        <5>5. Len(r.nodes) = Len(c.nodes)  BY <5>4 DEF IsList
        <5> QED  BY <5>3, <5>5
      <4> QED  BY <4>1, <4>2
    <3> QED  BY <3>1
  <2>3. PutEntry(c, key, h) = AddToFront(d, n)
    <3>1. DOMAIN room = CacheFields  BY <2>1 DEF CacheOK, CacheFields
    <3> HIDE DEF room
    <3>2. PutEntry(c, key, h) = AddToFront([room EXCEPT !.map = Bind(@, key, n), !.nodes = Append(@, x)], n)
      BY <1>2, <2>2 DEF PutEntry, room
    <3> QED  BY <3>1, <3>2 DEF CacheFields
  <2> HIDE DEF room, n, x
  <2>4. CacheOK(d) /\ PutsInto(room, key, h, d)
    <3>1. PICK e : e = d  OBVIOUS
    <3>2. CacheOK(e) /\ PutsInto(room, key, h, e)  BY <2>1, <3>1, EntryBound DEF n, x
    <3> QED  BY <3>1, <3>2
  <2> HIDE DEF d
  <2>5. CacheOK(AddToFront(d, n)) /\ Fewer(d, AddToFront(d, n))  BY <2>4, NodeAdded, EntriesKept
  <2>6. PutsInto(c, key, h, AddToFront(d, n))  BY <2>1, <2>4, <2>5 DEF PutsInto, Fewer
  <2> QED  BY <2>3, <2>5, <2>6
<1> QED  BY <1>1, <1>2

-----------------------------------------------------------------------------
(* The selection *)

Below(d) == {x \in Nat : x < d}
AtMost(d) == {x \in Nat : x <= d}

\* Sets that agree on a list have the same count in it.
LEMMA CountSame ==
    ASSUME NEW q, NEW A, NEW B, \A i \in DOMAIN q : q[i] \in A <=> q[i] \in B
    PROVE  Count(q, A) = Count(q, B)
<1>1. {i \in DOMAIN q : q[i] \in A} = {i \in DOMAIN q : q[i] \in B}  OBVIOUS
<1> QED  BY <1>1 DEF Count

\* The rank of d in q, as two counts.
LEMMA Ranks ==
    ASSUME NEW q \in Seq(Nat), NEW d \in Nat, NEW n \in Nat
    PROVE  IsNthSmallest(d, q, n) <=> Count(q, Below(d)) <= n /\ n < Count(q, AtMost(d))
<1>1. \A i \in DOMAIN q : q[i] \in Nat  OBVIOUS
<1>2. {i \in DOMAIN q : q[i] < d} = {i \in DOMAIN q : q[i] \in Below(d)}  BY <1>1 DEF Below
<1>3. {i \in DOMAIN q : q[i] <= d} = {i \in DOMAIN q : q[i] \in AtMost(d)}  BY <1>1 DEF AtMost
<1> QED  BY <1>2, <1>3 DEF IsNthSmallest, Count

\* A list is its last element after the others.
LEMMA FrontAndLast ==
    ASSUME NEW T, NEW q \in Seq(T), Len(q) > 0
    PROVE  /\ Front(q) \in Seq(T) /\ Len(Front(q)) = Len(q) - 1 /\ Last(q) \in T
           /\ q = Append(Front(q), Last(q)) /\ Last(q) \in ToSet(q)
           /\ \A x \in ToSet(Front(q)) : x \in ToSet(q)
<1>1. Len(q) \in Nat /\ DOMAIN q = 1..Len(q)  OBVIOUS
<1>2. /\ Front(q) \in Seq(T) /\ Len(Front(q)) = Len(q) - 1
      /\ \A i \in 1..Len(q) - 1 : Front(q)[i] = q[i]
  BY <1>1 DEF Front
<1>3. Last(q) = q[Len(q)] /\ Len(q) \in 1..Len(q)  BY <1>1 DEF Last
<1>4. Last(q) \in T /\ Last(q) \in ToSet(q)  BY <1>1, <1>3 DEF ToSet
<1>5. q = Append(Front(q), Last(q))
  <2>1. PICK f \in Seq(T) : f = Front(q)  BY <1>2
  <2>2. PICK x \in T : x = Last(q)  BY <1>4
  <2>3. /\ Append(f, x) \in Seq(T) /\ Len(Append(f, x)) = Len(q) /\ Append(f, x)[Len(q)] = x
        /\ \A i \in 1..(Len(q) - 1) : Append(f, x)[i] = f[i]
    BY <1>2, <2>1
  <2>4. \A i \in 1..Len(q) : Append(f, x)[i] = q[i]
    <3> TAKE i \in 1..Len(q)
    <3>1. CASE i = Len(q)  BY <1>3, <2>2, <2>3, <3>1
    <3>2. CASE i # Len(q)
      <4>1. i \in 1..(Len(q) - 1)
        <5>1. PICK n \in Nat : n = Len(q)  BY <1>1
        <5>2. i \in 1..n /\ i # n  BY <3>2, <5>1
        <5>3. i \in 1..(n - 1)  BY <5>2
        <5> QED  BY <5>1, <5>3
      <4> QED  BY <1>2, <2>1, <2>3, <4>1
    <3> QED  BY <3>1, <3>2
  <2>5. Append(f, x) = q
    <3>1. PICK g \in Seq(T) : g = Append(f, x)  BY <2>3
    <3>2. Len(g) = Len(q) /\ \A i \in 1..Len(q) : g[i] = q[i]  BY <2>3, <2>4, <3>1
    <3>3. g = q  BY <1>1, <3>2
    <3> QED  BY <3>1, <3>3
  <2> QED  BY <2>1, <2>2, <2>5
<1>6. \A x \in ToSet(Front(q)) : x \in ToSet(q)
  <2>1. DOMAIN Front(q) = 1..Len(q) - 1  BY <1>1, <1>2
  <2>2. \A i \in 1..Len(q) - 1 : i \in DOMAIN q  BY <1>1
  <2> QED  BY <1>2, <2>1, <2>2 DEF ToSet
<1> QED  BY <1>2, <1>4, <1>5, <1>6

\* A list in which the k-th smallest element, counted from 0, is looked for.
Search == {s \in [q : Seq(Nat), k : Nat] : s.k < Len(s.q)}

\* One call of quickselect: less is left, and what has the rank there has it in the whole.
LEMMA NarrowedKeepsRank ==
    ASSUME NEW s \in Search, NEW t, t = Narrowed(s)
    PROVE  /\ t \in Search /\ ToSet(t.q) \subseteq ToSet(s.q)
           /\ Len(t.q) = 1 \/ Len(t.q) < Len(s.q)
           /\ \A d \in ToSet(t.q) : IsNthSmallest(d, t.q, t.k) => IsNthSmallest(d, s.q, s.k)
<1> DEFINE p == Last(s.q)
           rest == Front(s.q)
           L == {x \in ToSet(rest) : x <= p}
           H == {x \in ToSet(rest) : x > p}
           low == Keep(rest, L)
           high == Keep(rest, H)
<1>1. s.q \in Seq(Nat) /\ s.k \in Nat /\ s.k < Len(s.q) /\ Len(s.q) \in Nat /\ Len(s.q) > 0  BY DEF Search
<1>2. /\ rest \in Seq(Nat) /\ Len(rest) = Len(s.q) - 1 /\ p \in Nat /\ s.q = Append(rest, p)
      /\ p \in ToSet(s.q) /\ \A x \in ToSet(rest) : x \in ToSet(s.q)
  BY <1>1, FrontAndLast
<1>3. t = IF s.k = Len(low) THEN [q |-> <<p>>, k |-> 0]
          ELSE IF s.k < Len(low) THEN [q |-> low, k |-> s.k]
          ELSE [q |-> high, k |-> s.k - Len(low) - 1]
  BY DEF Narrowed
<1> HIDE DEF p, rest
<1>4. \A i \in DOMAIN rest : rest[i] \in Nat /\ rest[i] \in ToSet(rest)  BY <1>2 DEF ToSet
<1>5. /\ \A x \in L : x \in Nat /\ x <= p /\ x \in ToSet(rest)
      /\ \A x \in H : x \in Nat /\ x > p /\ x \in ToSet(rest)
  BY <1>4 DEF ToSet
<1>6. \A A : Count(s.q, A) = Count(rest, A) + (IF p \in A THEN 1 ELSE 0)  BY <1>2, CountAppended
<1> HIDE DEF L, H
<1>7. /\ low \in Seq(Nat) /\ (\A x \in ToSet(low) : x \in ToSet(rest) /\ x \in L) /\ Len(low) = Count(rest, L)
      /\ \A A : Count(low, A) = Count(rest, L \cap A)
  BY <1>2, Kept
<1>8. /\ high \in Seq(Nat) /\ (\A x \in ToSet(high) : x \in ToSet(rest) /\ x \in H) /\ Len(high) = Count(rest, H)
      /\ \A A : Count(high, A) = Count(rest, H \cap A)
  BY <1>2, Kept
<1>9. \A A : Count(rest, A) \in Nat  BY <1>2, CountType
<1>10. Len(low) + Len(high) = Len(rest)
  <2>1. L \cap H = {}  BY <1>2, <1>5
  <2>2. Count(rest, L \cup H) = Count(rest, L) + Count(rest, H)  BY <1>2, <2>1, CountSplit
  <2>3. {i \in DOMAIN rest : rest[i] \in L \cup H} = DOMAIN rest
    <3>1. p \in Nat /\ \A i \in DOMAIN rest : rest[i] <= p \/ rest[i] > p  BY <1>2, <1>4
    <3> QED  BY <1>4, <3>1 DEF L, H
  <2>4. Cardinality(DOMAIN rest) = Len(rest)
    <3>1. Len(rest) \in Nat /\ DOMAIN rest = 1..Len(rest)  BY <1>2
    <3>2. 1 \in Int /\ Len(rest) \in Int  BY <3>1
    <3>3. Cardinality(1..Len(rest)) = IF 1 > Len(rest) THEN 0 ELSE Len(rest) - 1 + 1  BY <3>2, FS_Interval
    <3> QED  BY <3>1, <3>3
  <2> QED  BY <1>7, <1>8, <2>2, <2>3, <2>4 DEF Count
<1> HIDE DEF low, high
<1>11. Len(low) \in Nat /\ Len(high) \in Nat  BY <1>7, <1>8
<1>12. CASE s.k = Len(low)
  <2>1. t.q = <<p>> /\ t.k = 0 /\ t = [q |-> <<p>>, k |-> 0]  BY <1>3, <1>12
  <2>2. <<p>> \in Seq(Nat) /\ Len(<<p>>) = 1 /\ ToSet(<<p>>) = {p}  BY <1>2 DEF ToSet
  <2>3. t \in Search
    <3>1. PICK q \in Seq(Nat) : q = <<p>> /\ Len(q) = 1  BY <2>2
    <3>2. t = [q |-> q, k |-> 0] /\ 0 < Len(q)  BY <2>1, <3>1
    <3> QED  BY <3>2 DEF Search
  <2>4. Count(rest, Below(p)) <= Len(low)
    <3>1. Below(p) \cap (L \ Below(p)) = {}  OBVIOUS
    <3>2. Count(rest, Below(p) \cup (L \ Below(p))) = Count(rest, Below(p)) + Count(rest, L \ Below(p))
      BY <1>2, <3>1, CountSplit
    <3>3. \A i \in DOMAIN rest : rest[i] \in Below(p) \cup (L \ Below(p)) <=> rest[i] \in L
      BY <1>2, <1>4, <1>5 DEF Below, L
    <3>4. Count(rest, Below(p) \cup (L \ Below(p))) = Count(rest, L)  BY <3>3, CountSame
    <3> QED  BY <1>7, <1>9, <3>2, <3>4
  <2>5. Count(rest, AtMost(p)) = Len(low)
    <3>1. \A i \in DOMAIN rest : rest[i] \in AtMost(p) <=> rest[i] \in L  BY <1>2, <1>4, <1>5 DEF AtMost, L
    <3> QED  BY <1>7, <3>1, CountSame
  <2>6. p \notin Below(p) /\ p \in AtMost(p)  BY <1>2 DEF Below, AtMost
  <2>7. Count(s.q, Below(p)) <= s.k /\ s.k < Count(s.q, AtMost(p))
    <3>1. Count(s.q, Below(p)) = Count(rest, Below(p)) + 0  BY <1>6, <2>6
    <3>2. Count(s.q, AtMost(p)) = Count(rest, AtMost(p)) + 1  BY <1>6, <2>6
    <3> QED  BY <1>9, <1>11, <1>12, <2>4, <2>5, <3>1, <3>2
  <2>8. IsNthSmallest(p, s.q, s.k)  BY <1>1, <1>2, <2>7, Ranks
  <2> QED  BY <1>2, <2>1, <2>2, <2>3, <2>8
<1>13. CASE s.k < Len(low)
  <2>1. t.q = low /\ t.k = s.k /\ t = [q |-> low, k |-> s.k]  BY <1>3, <1>11, <1>13
  <2>2. t \in Search  BY <1>1, <1>7, <1>13, <2>1 DEF Search
  <2>3. ToSet(t.q) \subseteq ToSet(s.q)  BY <1>2, <1>7, <2>1
  <2>4. Len(t.q) < Len(s.q)  BY <1>1, <1>2, <1>10, <1>11, <2>1
  <2>5. ASSUME NEW d \in ToSet(t.q), IsNthSmallest(d, t.q, t.k)  PROVE IsNthSmallest(d, s.q, s.k)
    <3>1. d \in Nat /\ d <= p  BY <1>5, <1>7, <2>1
    <3>2. Count(low, Below(d)) <= s.k /\ s.k < Count(low, AtMost(d))  BY <1>1, <1>7, <2>1, <2>5, <3>1, Ranks
    <3>3. Count(low, Below(d)) = Count(rest, Below(d))
      <4>1. \A i \in DOMAIN rest : rest[i] \in L \cap Below(d) <=> rest[i] \in Below(d)
        BY <1>2, <1>4, <3>1 DEF Below, L
      <4>2. Count(rest, L \cap Below(d)) = Count(rest, Below(d))  BY <4>1, CountSame
      <4> QED  BY <1>7, <4>2
    <3>4. Count(low, AtMost(d)) = Count(rest, AtMost(d))
      <4>1. \A i \in DOMAIN rest : rest[i] \in L \cap AtMost(d) <=> rest[i] \in AtMost(d)
        BY <1>2, <1>4, <3>1 DEF AtMost, L
      <4>2. Count(rest, L \cap AtMost(d)) = Count(rest, AtMost(d))  BY <4>1, CountSame
      <4> QED  BY <1>7, <4>2
    <3>5. Count(s.q, Below(d)) = Count(rest, Below(d)) + 0
      <4>1. p \notin Below(d)  BY <1>2, <3>1 DEF Below
      <4> QED  BY <1>6, <4>1
    <3>6. Count(s.q, AtMost(d)) >= Count(rest, AtMost(d))  BY <1>6, <1>9
    <3>7. Count(s.q, Below(d)) <= s.k /\ s.k < Count(s.q, AtMost(d))
      <4>1. Count(rest, Below(d)) \in Nat /\ Count(rest, AtMost(d)) \in Nat /\ Count(s.q, AtMost(d)) \in Nat
        BY <1>1, <1>9, CountType
      <4> QED  BY <1>1, <3>2, <3>3, <3>4, <3>5, <3>6, <4>1
    <3> QED  BY <1>1, <3>1, <3>7, Ranks
  <2> QED  BY <2>2, <2>3, <2>4, <2>5
<1>14. CASE s.k > Len(low)
  <2>1. t.q = high /\ t.k = s.k - Len(low) - 1 /\ t = [q |-> high, k |-> s.k - Len(low) - 1]
    BY <1>1, <1>3, <1>11, <1>14
  <2>2. t.k \in Nat /\ t.k < Len(high)  BY <1>1, <1>2, <1>10, <1>11, <1>14, <2>1
  <2>3. t \in Search  BY <1>8, <2>1, <2>2 DEF Search
  <2>4. ToSet(t.q) \subseteq ToSet(s.q)  BY <1>2, <1>8, <2>1
  <2>5. Len(t.q) < Len(s.q)  BY <1>1, <1>2, <1>10, <1>11, <2>1
  <2>6. ASSUME NEW d \in ToSet(t.q), IsNthSmallest(d, t.q, t.k)  PROVE IsNthSmallest(d, s.q, s.k)
    <3>1. d \in Nat /\ d > p  BY <1>5, <1>8, <2>1
    <3>2. Count(high, Below(d)) <= t.k /\ t.k < Count(high, AtMost(d))  BY <1>8, <2>1, <2>2, <2>6, <3>1, Ranks
    <3>3. ASSUME NEW A, \A i \in DOMAIN rest : rest[i] <= p => rest[i] \in A
          PROVE  Count(rest, A) = Len(low) + Count(high, A)
      <4>1. L \cap (H \cap A) = {}  BY <1>2, <1>5
      <4>2. Count(rest, L \cup (H \cap A)) = Count(rest, L) + Count(rest, H \cap A)  BY <1>2, <4>1, CountSplit
      <4>3. \A i \in DOMAIN rest : rest[i] \in L \cup (H \cap A) <=> rest[i] \in A
        <5> TAKE i \in DOMAIN rest
        <5>1. rest[i] \in Nat /\ rest[i] \in ToSet(rest) /\ (rest[i] <= p \/ rest[i] > p)  BY <1>2, <1>4
        <5>2. (rest[i] <= p => rest[i] \in L) /\ (rest[i] > p => rest[i] \in H)  BY <5>1 DEF L, H
        <5>3. rest[i] \in L => rest[i] <= p  BY <1>5
        <5> QED  BY <3>3, <5>1, <5>2, <5>3
      <4>4. Count(rest, L \cup (H \cap A)) = Count(rest, A)  BY <4>3, CountSame
      <4> QED  BY <1>7, <1>8, <4>2, <4>4
    <3>4. Count(rest, Below(d)) = Len(low) + Count(high, Below(d))
      <4>1. \A i \in DOMAIN rest : rest[i] <= p => rest[i] \in Below(d)  BY <1>2, <1>4, <3>1 DEF Below
      <4> QED  BY <3>3, <4>1
    <3>5. Count(rest, AtMost(d)) = Len(low) + Count(high, AtMost(d))
      <4>1. \A i \in DOMAIN rest : rest[i] <= p => rest[i] \in AtMost(d)  BY <1>2, <1>4, <3>1 DEF AtMost
      <4> QED  BY <3>3, <4>1
    <3>6. p \in Below(d) /\ p \in AtMost(d)  BY <1>2, <3>1 DEF Below, AtMost
    <3>7. Count(s.q, Below(d)) = Count(rest, Below(d)) + 1 /\ Count(s.q, AtMost(d)) = Count(rest, AtMost(d)) + 1
      BY <1>6, <3>6
    <3>8. Count(high, Below(d)) \in Nat /\ Count(high, AtMost(d)) \in Nat  BY <1>8, CountType
    <3>9. Count(s.q, Below(d)) <= s.k /\ s.k < Count(s.q, AtMost(d))
      BY <1>1, <1>11, <2>1, <3>2, <3>4, <3>5, <3>7, <3>8
    <3> QED  BY <1>1, <3>1, <3>9, Ranks
  <2> QED  BY <2>3, <2>4, <2>5, <2>6
<1> QED  BY <1>1, <1>11, <1>12, <1>13, <1>14

\* quickselect returns the element of the rank it is asked for.
LEMMA Selected ==
    ASSUME NEW q \in Seq(Nat), NEW k \in Nat, k < Len(q)
    PROVE  QuickSelect(q, k) \in ToSet(q) /\ IsNthSmallest(QuickSelect(q, k), q, k)
<1> DEFINE n == Len(q)
           a == [q |-> q, k |-> k]
           Value(g, i) == IF i = 0 THEN a ELSE Narrowed(g[i - 1])
           F == [i \in 1..n |-> [v \in Search |-> Narrowed(v)]]
           part == CHOOSE g : g = [i \in 0..n |-> Value(g, i)]
<1>1. n \in Nat /\ n > 0  OBVIOUS
<1>2. a \in Search  BY DEF Search
<1>3. \A v \in Search : Narrowed(v) \in Search  BY NarrowedKeepsRank
<1> HIDE DEF a
<1>4. F \in [1..n -> [Search -> Search]]  BY <1>3
<1>5. PICK g \in [0..n -> Search] : g[0] = a /\ \A i \in 1..n : g[i] = F[i][g[i - 1]]
  <2> HIDE DEF F, n
  <2>1. F \in Steps(n, Search)  BY <1>4 DEF Steps
  <2>2. \E g : Follows(g, n, Search, a, F)  BY <1>1, <1>2, <2>1, Recursion
  <2> QED  BY <2>2 DEF Follows
<1>6. g = [i \in 0..n |-> Value(g, i)]
  <2>1. ASSUME NEW i \in 0..n  PROVE g[i] = Value(g, i)
    <3>1. CASE i = 0  BY <1>5, <3>1
    <3>2. CASE i # 0
      <4>1. i \in 1..n /\ i - 1 \in 0..n  BY <1>1, <3>2
      <4>2. g[i - 1] \in Search  BY <4>1
      <4>3. F[i][g[i - 1]] = Narrowed(g[i - 1])  BY <4>1, <4>2
      <4> QED  BY <1>5, <3>2, <4>1, <4>3
    <3> QED  BY <3>1, <3>2
  <2> HIDE DEF Value
  <2> QED  BY <1>5, <2>1
<1>7. part = [i \in 0..n |-> Value(part, i)]
  <2> HIDE DEF Value
  <2> QED  BY <1>6
<1>8. QuickSelect(q, k) = part[n].q[1]  BY DEF QuickSelect, a
<1> HIDE DEF part, F
<1>9. \A i \in 0..n : part[i] = Value(part, i)
  <2> HIDE DEF Value
  <2> QED  BY <1>7
<1> DEFINE R(i) == /\ part[i] \in Search /\ ToSet(part[i].q) \subseteq ToSet(q)
                   /\ Len(part[i].q) = 1 \/ Len(part[i].q) <= n - i
                   /\ \A d \in ToSet(part[i].q) : IsNthSmallest(d, part[i].q, part[i].k) => IsNthSmallest(d, q, k)
           G == {i \in 0..n : R(i)}
<1>10. 0 \in G
  <2>1. part[0] = a /\ a.q = q /\ a.k = k  BY <1>1, <1>9 DEF a
  <2>2. R(0)  BY <1>1, <1>2, <2>1
  <2> HIDE DEF R
  <2> QED  BY <1>1, <2>2
<1>11. ASSUME NEW i \in Nat, i < n, i \in G  PROVE i + 1 \in G
  <2>1. i + 1 \in 0..n /\ (i + 1) - 1 = i /\ i + 1 # 0 /\ R(i)  BY <1>1, <1>11
  <2>2. part[i + 1] = Narrowed(part[i])  BY <1>9, <2>1
  <2>3. PICK s \in Search : s = part[i]  BY <2>1
  <2>4. PICK t : t = part[i + 1]  OBVIOUS
  <2>5. /\ t \in Search /\ ToSet(t.q) \subseteq ToSet(s.q)
        /\ Len(t.q) = 1 \/ Len(t.q) < Len(s.q)
        /\ \A d \in ToSet(t.q) : IsNthSmallest(d, t.q, t.k) => IsNthSmallest(d, s.q, s.k)
    BY <2>2, <2>3, <2>4, NarrowedKeepsRank
  <2>6. /\ ToSet(s.q) \subseteq ToSet(q) /\ (Len(s.q) = 1 \/ Len(s.q) <= n - i)
        /\ \A d \in ToSet(s.q) : IsNthSmallest(d, s.q, s.k) => IsNthSmallest(d, q, k)
    BY <2>1, <2>3
  <2>7. s.q \in Seq(Nat) /\ t.q \in Seq(Nat) /\ t.k \in Nat /\ t.k < Len(t.q)  BY <2>3, <2>5 DEF Search
  <2>8. Len(t.q) = 1 \/ Len(t.q) <= n - (i + 1)
    <3>1. Len(s.q) \in Nat /\ Len(t.q) \in Nat /\ Len(t.q) > 0  BY <2>7
    <3>2. PICK m \in Nat : m = n  BY <1>1
    <3>3. PICK x \in Nat : x = Len(s.q)  BY <3>1
    <3>4. PICK y \in Nat : y = Len(t.q)  BY <3>1
    <3>5. y = 1 \/ y < x  BY <2>5, <3>3, <3>4
    <3>6. x = 1 \/ x <= m - i  BY <2>6, <3>2, <3>3
    <3>7. y > 0  BY <3>1, <3>4
    <3>8. y = 1 \/ y <= m - (i + 1)  BY <3>5, <3>6, <3>7
    <3> QED  BY <3>2, <3>4, <3>8
  <2>9. R(i + 1)  BY <2>4, <2>5, <2>6, <2>8
  <2> HIDE DEF R
  <2> QED  BY <2>1, <2>9
<1>12. n \in G
  <2> HIDE DEF G
  <2> QED  BY <1>1, <1>10, <1>11, UpTo
<1>13. PICK s \in Search : s = part[n]  BY <1>12
<1>14. /\ ToSet(s.q) \subseteq ToSet(q) /\ (Len(s.q) = 1 \/ Len(s.q) <= n - n)
       /\ \A d \in ToSet(s.q) : IsNthSmallest(d, s.q, s.k) => IsNthSmallest(d, q, k)
  BY <1>12, <1>13
<1>15. s.q \in Seq(Nat) /\ s.k \in Nat /\ s.k < Len(s.q)  BY <1>13 DEF Search
<1>16. Len(s.q) = 1 /\ s.k = 0 /\ DOMAIN s.q = {1} /\ s.q[1] \in Nat /\ s.q[1] \in ToSet(s.q)
  <2>1. Len(s.q) \in Nat  BY <1>15
  <2>2. n - n = 0  BY <1>1
  <2>3. Len(s.q) = 1 /\ s.k = 0
    <3>1. Len(s.q) = 1 \/ Len(s.q) <= n - n  BY <1>14
    <3>2. Len(s.q) = 1 \/ Len(s.q) <= 0
      <4> HIDE DEF n
      <4> QED  BY <2>2, <3>1
    <3>3. PICK x \in Nat : x = Len(s.q)  BY <2>1
    <3>4. PICK y \in Nat : y = s.k  BY <1>15
    <3>5. y < x /\ (x = 1 \/ x <= 0)  BY <1>15, <3>2, <3>3, <3>4
    <3>6. x = 1 /\ y = 0  BY <3>5
    <3> QED  BY <3>3, <3>4, <3>6
  <2>4. DOMAIN s.q = {1}  BY <1>15, <2>3
  <2> QED  BY <1>15, <2>3, <2>4 DEF ToSet
<1>17. IsNthSmallest(s.q[1], s.q, s.k)
  <2>1. {i \in DOMAIN s.q : s.q[i] < s.q[1]} = {} /\ {i \in DOMAIN s.q : s.q[i] <= s.q[1]} = {1}  BY <1>16
  <2>2. Cardinality({}) = 0 /\ Cardinality({1}) = 1  BY FS_EmptySet, FS_Singleton
  <2> QED  BY <1>16, <2>1, <2>2 DEF IsNthSmallest
<1> QED  BY <1>8, <1>13, <1>14, <1>16, <1>17

\* The index of the percentile is one of the list.
LEMMA Percentiles ==
    ASSUME NEW n \in Nat, n > 0
    PROVE  PercentileIndex(n) \in Nat /\ PercentileIndex(n) < n
<1>1. Percentile \in Nat
  <2>1. Percentile \in 0..100  BY RequestPathAssumption
  <2> QED  BY <2>1
<1>2. PICK m \in Nat : m = n * Percentile  BY <1>1
<1>3. m \div 100 \in Nat  OBVIOUS
<1>4. PICK i \in Nat : i = (n * Percentile) \div 100  BY <1>2, <1>3
<1>5. {i, n - 1} \in SUBSET Nat /\ {i, n - 1} # {}  OBVIOUS
<1>6. Min({i, n - 1}) \in {i, n - 1} /\ \A x \in {i, n - 1} : Min({i, n - 1}) <= x  BY <1>5, Least
<1>7. Min({i, n - 1}) \in Nat /\ Min({i, n - 1}) <= n - 1  BY <1>5, <1>6
<1> QED  BY <1>4, <1>7 DEF PercentileIndex

\* What is clamped is within the bounds of the timeout.
LEMMA Clamped ==
    ASSUME NEW t \in Nat
    PROVE  Clamp(t) \in MinTimeout..MaxTimeout
<1>1. MinTimeout \in Nat /\ MaxTimeout \in Nat /\ MinTimeout <= MaxTimeout  BY RequestPathAssumption
<1> DEFINE S == {MinTimeout, t}
           m == Max(S)
<1>2. m \in S /\ \A x \in S : m >= x
  <2>1. \E x \in S : \A y \in S : x >= y  BY <1>1
  <2> QED  BY <2>1 DEF Max
<1>3. m \in Nat /\ m >= MinTimeout  BY <1>1, <1>2
<1> HIDE DEF m
<1> DEFINE U == {MaxTimeout, m}
<1>4. U \in SUBSET Nat /\ U # {}  BY <1>1, <1>3
<1> HIDE DEF U
<1>5. Min(U) \in U /\ \A x \in U : Min(U) <= x  BY <1>4, Least
<1>6. Min(U) \in MinTimeout..MaxTimeout  BY <1>1, <1>3, <1>5 DEF U
<1> QED  BY <1>6 DEF Clamp, U, m

-----------------------------------------------------------------------------
(* The ring buffer *)

\* Recording one duration.
LEMMA RingRecorded ==
    ASSUME NEW s, NEW h, RingOK(s, h), NEW d \in Durations
    PROVE  RingOK(Recorded(s, d), Append(h, d))
<1> DEFINE n == Len(h)
           t == Recorded(s, d)
           g == Append(h, d)
<1>0. SampleSize \in Nat /\ SampleSize > 0 /\ Durations \subseteq Nat  BY RequestPathAssumption
<1>1. /\ h \in Seq(Durations) /\ n \in Nat /\ s.head \in 1..SampleSize /\ s.total = n
      /\ s.ring \in [1..SampleSize -> Nat] /\ s.count \in Nat
      /\ s.count = IF n < SampleSize THEN n ELSE SampleSize
      /\ n < SampleSize => s.head = n + 1
  BY <1>0 DEF RingOK
<1>2. \A j \in 1..SampleSize :
          /\ j < s.head => s.ring[j] = h[n - s.head + 1 + j]
          /\ j >= s.head /\ n >= SampleSize => s.ring[j] = h[n - s.head + 1 - SampleSize + j]
  BY DEF RingOK
<1>3. g \in Seq(Durations) /\ Len(g) = n + 1 /\ g[n + 1] = d /\ \A i \in 1..n : g[i] = h[i]  BY <1>1
<1>4. /\ t.ring = [s.ring EXCEPT ![s.head] = d] /\ t.head = (s.head % SampleSize) + 1
      /\ t.count = Min({s.count + 1, SampleSize}) /\ t.total = s.total + 1
      /\ DOMAIN t = {"ring", "head", "count", "total"}
  BY DEF Recorded
<1>5. t.head = IF s.head = SampleSize THEN 1 ELSE s.head + 1
  <2>1. CASE s.head = SampleSize
    <3>1. SampleSize % SampleSize = 0  BY <1>0
    <3> QED  BY <1>0, <1>4, <2>1, <3>1
  <2>2. CASE s.head # SampleSize
    <3>1. s.head \in Nat /\ s.head < SampleSize  BY <1>0, <1>1, <2>2
    <3>2. s.head % SampleSize = s.head  BY <1>0, <3>1
    <3> QED  BY <1>4, <2>2, <3>2
  <2> QED  BY <2>1, <2>2
<1>6. t.count = IF n + 1 < SampleSize THEN n + 1 ELSE SampleSize
  <2> DEFINE S == {s.count + 1, SampleSize}
  <2>1. S \in SUBSET Nat /\ S # {}  BY <1>0, <1>1
  <2> HIDE DEF S
  <2>2. Min(S) \in S /\ \A x \in S : Min(S) <= x  BY <2>1, Least
  <2>3. Min(S) = IF n + 1 < SampleSize THEN n + 1 ELSE SampleSize  BY <1>0, <1>1, <2>1, <2>2 DEF S
  <2> QED  BY <1>4, <2>3 DEF S
<1> HIDE DEF g, t, n
<1>7. t.ring \in [1..SampleSize -> Nat] /\ \A j \in 1..SampleSize : t.ring[j] = IF j = s.head THEN d ELSE s.ring[j]
  <2>1. d \in Nat  BY <1>0
  <2> QED  BY <1>1, <1>4, <2>1
<1>8. t.head \in 1..SampleSize /\ t.total = n + 1 /\ (n + 1 < SampleSize => t.head = n + 2)
  BY <1>0, <1>1, <1>4, <1>5
<1>9. ASSUME NEW j \in 1..SampleSize, j < t.head  PROVE t.ring[j] = g[(n + 1) - t.head + 1 + j]
  <2>1. s.head # SampleSize /\ t.head = s.head + 1  BY <1>0, <1>5, <1>9
  <2>2. (n + 1) - t.head + 1 + j = n - s.head + 1 + j  BY <1>1, <1>8, <2>1
  <2>3. CASE j = s.head
    <3>1. n - s.head + 1 + j = n + 1  BY <1>1, <2>3
    <3> QED  BY <1>3, <1>7, <2>2, <2>3, <3>1
  <2>4. CASE j # s.head
    <3>1. j < s.head /\ t.ring[j] = s.ring[j]  BY <1>1, <1>7, <1>9, <2>1, <2>4
    <3>2. n >= s.head - 1  BY <1>0, <1>1
    <3>3. n - s.head + 1 + j \in 1..n  BY <1>1, <3>1, <3>2
    <3> QED  BY <1>2, <1>3, <2>2, <3>1, <3>3
  <2> QED  BY <2>3, <2>4
<1>10. ASSUME NEW j \in 1..SampleSize, j >= t.head, n + 1 >= SampleSize
       PROVE  t.ring[j] = g[(n + 1) - t.head + 1 - SampleSize + j]
  <2>1. CASE s.head = SampleSize
    <3>1. (n + 1) - t.head + 1 - SampleSize + j = n + 1 - SampleSize + j  BY <1>0, <1>1, <1>5, <2>1
    <3>2. CASE j = SampleSize
      <4>1. n + 1 - SampleSize + j = n + 1  BY <1>0, <1>1, <3>2
      <4> QED  BY <1>3, <1>7, <2>1, <3>1, <3>2, <4>1
    <3>3. CASE j # SampleSize
      <4>1. j < s.head /\ t.ring[j] = s.ring[j]  BY <1>0, <1>7, <2>1, <3>3
      <4>2. n - s.head + 1 + j = n + 1 - SampleSize + j /\ n + 1 - SampleSize + j \in 1..n
        BY <1>0, <1>1, <1>10, <2>1, <3>3
      <4> QED  BY <1>2, <1>3, <3>1, <4>1, <4>2
    <3> QED  BY <3>2, <3>3
  <2>2. CASE s.head # SampleSize
    <3>1. t.head = s.head + 1 /\ n >= SampleSize  BY <1>0, <1>1, <1>5, <1>10, <2>2
    <3>2. j > s.head /\ t.ring[j] = s.ring[j]  BY <1>1, <1>7, <1>10, <3>1
    <3>3. (n + 1) - t.head + 1 - SampleSize + j = n - s.head + 1 - SampleSize + j  BY <1>0, <1>1, <1>8, <3>1
    <3>4. n - s.head + 1 - SampleSize + j \in 1..n
      <4>1. PICK a \in 1..SampleSize : a = s.head  BY <1>1
      <4>2. PICK m \in Nat : m = n  BY <1>1
      <4>3. m >= SampleSize /\ j > a /\ j <= SampleSize /\ a >= 1  BY <1>0, <3>1, <3>2, <4>1, <4>2
      <4>4. m - a + 1 - SampleSize + j \in 1..m  BY <1>0, <4>3
      <4> QED  BY <4>1, <4>2, <4>4
    <3> QED  BY <1>1, <1>2, <1>3, <3>1, <3>2, <3>3, <3>4
  <2> QED  BY <2>1, <2>2
<1>11. /\ t.count = (IF Len(g) < SampleSize THEN Len(g) ELSE SampleSize) /\ t.total = Len(g)
       /\ Len(g) < SampleSize => t.head = Len(g) + 1
  BY <1>0, <1>1, <1>3, <1>6, <1>8
<1>12. \A j \in 1..SampleSize :
           /\ j < t.head => t.ring[j] = g[Len(g) - t.head + 1 + j]
           /\ j >= t.head /\ Len(g) >= SampleSize => t.ring[j] = g[Len(g) - t.head + 1 - SampleSize + j]
  BY <1>3, <1>9, <1>10
<1>13. RingOK(t, g)  BY <1>3, <1>4, <1>7, <1>8, <1>11, <1>12 DEF RingOK
<1> QED  BY <1>13 DEF t, g

\* Lists are the same if their elements are.
LEMMA SameLists ==
    ASSUME NEW T, NEW p \in Seq(T), NEW q \in Seq(T), Len(p) = Len(q), \A i \in 1..Len(p) : p[i] = q[i]
    PROVE  p = q
<1>1. DOMAIN p = 1..Len(p) /\ DOMAIN q = 1..Len(p)  OBVIOUS
<1>2. p = [i \in DOMAIN p |-> p[i]] /\ q = [i \in DOMAIN q |-> q[i]]  OBVIOUS
<1> QED  BY <1>1, <1>2

\* A list of elements of S is one of elements of any larger set.
LEMMA Wider ==
    ASSUME NEW S, NEW T, S \subseteq T, NEW q \in Seq(S)
    PROVE  q \in Seq(T)
OBVIOUS

\* A part of a list.
LEMMA Part ==
    ASSUME NEW T, NEW q \in Seq(T), NEW a \in Nat, NEW b \in Nat, 1 <= a, b <= Len(q), a <= b + 1
    PROVE  /\ SubSeq(q, a, b) \in Seq(T) /\ Len(SubSeq(q, a, b)) = b - a + 1
           /\ \A i \in 1..(b - a + 1) : SubSeq(q, a, b)[i] = q[a - 1 + i]
<1>1. Len(q) \in Nat /\ DOMAIN q = 1..Len(q)  OBVIOUS
<1>2. \A i \in 1..(b - a + 1) : a - 1 + i \in DOMAIN q /\ a + i - 1 = a - 1 + i  BY <1>1
<1> QED  BY <1>1, <1>2

\* The active part of the ring is the end of the history.
LEMMA RingIsWindow ==
    ASSUME NEW s, NEW h, RingOK(s, h), Len(h) > 0
    PROVE  /\ RingContents(s) = Window(h, Len(h))
           /\ RingContents(s) \in Seq(Nat) /\ Len(RingContents(s)) > 0
<1>0. SampleSize \in Nat /\ SampleSize > 0 /\ Durations \subseteq Nat  BY RequestPathAssumption
<1>1. PICK n \in Nat : n = Len(h)
  <2>1. h \in Seq(Durations)  BY DEF RingOK
  <2> QED  BY <2>1
<1>2. PICK N \in Nat : N = SampleSize /\ N > 0  BY <1>0
<1>3. PICK a \in 1..N : a = s.head  BY <1>2 DEF RingOK
<1>4. PICK r : r = s.ring  OBVIOUS
<1>5. h \in Seq(Durations) /\ h \in Seq(Nat)
  <2>1. h \in Seq(Durations)  BY DEF RingOK
  <2> QED  BY <1>0, <2>1, Wider
<1>6. r \in [1..N -> Nat] /\ r \in Seq(Nat) /\ Len(r) = N
  <2>1. r \in [1..N -> Nat]  BY <1>2, <1>4 DEF RingOK
  <2> QED  BY <2>1
<1>7. /\ s.count = (IF n < N THEN n ELSE N) /\ (n < N => a = n + 1)
      /\ \A j \in 1..N : /\ j < a => r[j] = h[n - a + 1 + j]
                         /\ j >= a /\ n >= N => r[j] = h[n - a + 1 - N + j]
  BY <1>1, <1>2, <1>3, <1>4 DEF RingOK
<1>8. CASE n < N
  <2>1. s.count = n /\ a = n + 1  BY <1>7, <1>8
  <2>2. RingContents(s) = SubSeq(r, 1, n)  BY <1>2, <1>4, <1>8, <2>1 DEF RingContents
  <2>3. Window(h, Len(h)) = SubSeq(h, 1, n)  BY <1>1, <1>2, <1>8 DEF Window
  <2>4. PICK one \in Nat : one = 1  OBVIOUS
  <2>5. 1 <= one /\ n <= Len(r) /\ n <= Len(h) /\ one <= n + 1  BY <1>1, <1>6, <1>8, <2>4
  <2>6. /\ SubSeq(r, one, n) \in Seq(Nat) /\ Len(SubSeq(r, one, n)) = n - one + 1
        /\ \A i \in 1..(n - one + 1) : SubSeq(r, one, n)[i] = r[one - 1 + i]
    BY <1>6, <2>5, Part
  <2>7. /\ SubSeq(h, one, n) \in Seq(Nat) /\ Len(SubSeq(h, one, n)) = n - one + 1
        /\ \A i \in 1..(n - one + 1) : SubSeq(h, one, n)[i] = h[one - 1 + i]
    BY <1>5, <2>5, Part
  <2>8. \A i \in 1..n : r[i] = h[i]
    <3> TAKE i \in 1..n
    <3>1. i \in 1..N /\ i < a /\ n - a + 1 + i = i  BY <1>8, <2>1
    <3> QED  BY <1>7, <3>1
  <2>9. SubSeq(r, one, n) = SubSeq(h, one, n)
    <3>1. PICK x \in Seq(Nat) : x = SubSeq(r, one, n)  BY <2>6
    <3>2. PICK y \in Seq(Nat) : y = SubSeq(h, one, n)  BY <2>7
    <3>3. Len(x) = n /\ Len(y) = n /\ \A i \in 1..n : x[i] = y[i]
      <4>1. n - one + 1 = n /\ \A i \in 1..n : one - 1 + i = i  BY <2>4
      <4> QED  BY <2>6, <2>7, <2>8, <3>1, <3>2, <4>1
    <3> QED  BY <3>1, <3>2, <3>3
  <2>10. n - one + 1 = n /\ n > 0  BY <1>1, <2>4
  <2> QED  BY <2>2, <2>3, <2>4, <2>6, <2>9, <2>10
<1>9. CASE n >= N
  <2>1. s.count = N  BY <1>7, <1>9
  <2> DEFINE u == SubSeq(r, a, N)
             v == SubSeq(r, 1, a - 1)
             w == SubSeq(h, n - N + 1, n)
  <2>2. RingContents(s) = u \o v
    <3>1. ~(s.count < SampleSize)  BY <1>2, <2>1
    <3>2. RingContents(s) = SubSeq(s.ring, s.head, SampleSize) \o SubSeq(s.ring, 1, s.head - 1)
      BY <3>1, Zenon DEF RingContents
    <3> QED  BY <1>2, <1>3, <1>4, <3>2, Zenon
  <2>3. Window(h, Len(h)) = w
    <3>1. ~(n < SampleSize)  BY <1>2, <1>9
    <3> QED  BY <1>1, <1>2, <3>1, Zenon DEF Window
  <2>4. u \in Seq(Nat) /\ Len(u) = N - a + 1 /\ \A i \in 1..(N - a + 1) : u[i] = r[a - 1 + i]
    <3>1. PICK b \in Nat : b = a  OBVIOUS
    <3>2. 1 <= b /\ N <= Len(r) /\ b <= N + 1  BY <1>6, <3>1
    <3>3. /\ SubSeq(r, b, N) \in Seq(Nat) /\ Len(SubSeq(r, b, N)) = N - b + 1
          /\ \A i \in 1..(N - b + 1) : SubSeq(r, b, N)[i] = r[b - 1 + i]
      BY <1>6, <3>2, Part
    <3> QED  BY <3>1, <3>3, Zenon
  <2>5. v \in Seq(Nat) /\ Len(v) = a - 1 /\ \A i \in 1..(a - 1) : v[i] = r[i]
    <3>1. PICK one \in Nat : one = 1  OBVIOUS
    <3>2. PICK b \in Nat : b = a - 1  OBVIOUS
    <3>3. 1 <= one /\ b <= Len(r) /\ one <= b + 1  BY <1>6, <3>1, <3>2
    <3>4. /\ SubSeq(r, one, b) \in Seq(Nat) /\ Len(SubSeq(r, one, b)) = b - one + 1
          /\ \A i \in 1..(b - one + 1) : SubSeq(r, one, b)[i] = r[one - 1 + i]
      BY <1>6, <3>3, Part
    <3>5. b - one + 1 = a - 1 /\ \A i \in 1..(a - 1) : one - 1 + i = i  BY <3>1, <3>2
    <3> QED  BY <3>1, <3>2, <3>4, <3>5
  <2>6. w \in Seq(Nat) /\ Len(w) = N /\ \A i \in 1..N : w[i] = h[n - N + i]
    <3>1. PICK b \in Nat : b = n - N + 1  BY <1>9
    <3>2. 1 <= b /\ n <= Len(h) /\ b <= n + 1  BY <1>1, <1>2, <1>9, <3>1
    <3>3. /\ SubSeq(h, b, n) \in Seq(Nat) /\ Len(SubSeq(h, b, n)) = n - b + 1
          /\ \A i \in 1..(n - b + 1) : SubSeq(h, b, n)[i] = h[b - 1 + i]
      BY <1>5, <3>2, Part
    <3>4. n - b + 1 = N /\ \A i \in 1..N : b - 1 + i = n - N + i  BY <3>1
    <3> QED  BY <3>1, <3>3, <3>4
  <2> HIDE DEF u, v, w
  <2>7. u \o v \in Seq(Nat) /\ Len(u \o v) = N
    <3>1. Len(u) + Len(v) = N  BY <2>4, <2>5
    <3>2. u \in Seq(Nat) /\ v \in Seq(Nat)  BY <2>4, <2>5
    <3>3. u \o v \in Seq(Nat) /\ Len(u \o v) = Len(u) + Len(v)  BY <3>2
    <3> QED  BY <3>1, <3>3
  <2>8. ASSUME NEW i \in 1..N  PROVE (u \o v)[i] = w[i]
    <3>1. CASE i <= N - a + 1
      <4>0. i \in 1..(N - a + 1)  BY <3>1
      <4>1. (u \o v)[i] = u[i]
        <5>1. u \in Seq(Nat) /\ v \in Seq(Nat) /\ i \in 1..Len(u)  BY <2>4, <2>5, <4>0
        <5> QED  BY <5>1
      <4>2. a - 1 + i \in 1..N /\ a - 1 + i >= a /\ n - a + 1 - N + (a - 1 + i) = n - N + i  BY <3>1
      <4>3. r[a - 1 + i] = h[n - N + i]  BY <1>7, <1>9, <4>2
      <4>4. u[i] = r[a - 1 + i] /\ w[i] = h[n - N + i]  BY <2>4, <2>6, <4>0
      <4> QED  BY <4>1, <4>3, <4>4
    <3>2. CASE i > N - a + 1
      <4>1. PICK k \in 1..(a - 1) : k = i - (N - a + 1)  BY <3>2
      <4>2. i \in Len(u) + 1..Len(u) + Len(v) /\ i - Len(u) = k  BY <2>4, <2>5, <3>2, <4>1
      <4>3. (u \o v)[i] = v[k]
        <5>1. u \in Seq(Nat) /\ v \in Seq(Nat)  BY <2>4, <2>5
        <5>2. (u \o v)[i] = v[i - Len(u)]  BY <4>2, <5>1
        <5> QED  BY <4>2, <5>2
      <4>4. k \in 1..N /\ k < a /\ n - a + 1 + k = n - N + i  BY <4>1
      <4>5. r[k] = h[n - N + i]  BY <1>7, <4>4
      <4> QED  BY <2>5, <2>6, <4>3, <4>5
    <3>3. i <= N - a + 1 \/ i > N - a + 1  OBVIOUS
    <3> QED  BY <3>1, <3>2, <3>3
  <2>9. u \o v = w
    <3>1. PICK x \in Seq(Nat) : x = u \o v  BY <2>7
    <3>2. Len(x) = N /\ Len(w) = N /\ \A i \in 1..N : x[i] = w[i]  BY <2>6, <2>7, <2>8, <3>1
    <3>3. x = w  BY <2>6, <3>2
    <3> QED  BY <3>1, <3>3
  <2> QED  BY <1>2, <2>2, <2>3, <2>7, <2>9
<1> QED  BY <1>8, <1>9

\* The timeout that an adjustment sets.
LEMMA TimeoutSet ==
    ASSUME NEW s, NEW h, RingOK(s, h), Len(h) > 0
    PROVE  /\ AdjustedTimeout(s) \in MinTimeout..MaxTimeout
           /\ TimeoutFor(AdjustedTimeout(s), Window(h, Len(h)))
<1>1. PICK w \in Seq(Nat) : w = RingContents(s) /\ w = Window(h, Len(h)) /\ Len(w) > 0  BY RingIsWindow
<1>2. PICK k \in Nat : k = PercentileIndex(Len(w)) /\ k < Len(w)
  <2>1. Len(w) \in Nat  OBVIOUS
  <2> QED  BY <1>1, <2>1, Percentiles
<1>3. QuickSelect(w, k) \in ToSet(w) /\ IsNthSmallest(QuickSelect(w, k), w, k)  BY <1>2, Selected
<1>4. PICK d : d = QuickSelect(w, k)  OBVIOUS
<1>5. AdjustedTimeout(s) = Clamp(d * SafetyMultiplier)  BY <1>1, <1>2, <1>4 DEF AdjustedTimeout
<1>6. d * SafetyMultiplier \in Nat
  <2>1. d \in Nat  BY <1>3, <1>4 DEF ToSet
  <2>2. SafetyMultiplier \in Nat  BY RequestPathAssumption
  <2> QED  BY <2>1, <2>2
<1>7. AdjustedTimeout(s) \in MinTimeout..MaxTimeout  BY <1>5, <1>6, Clamped
<1>8. TimeoutFor(AdjustedTimeout(s), w)  BY <1>2, <1>3, <1>4, <1>5 DEF TimeoutFor
<1> QED  BY <1>1, <1>7, <1>8

\* A window stays where it is when the history grows.
LEMMA WindowKept ==
    ASSUME NEW h \in Seq(Durations), NEW d \in Durations, NEW t \in 1..Len(h)
    PROVE  Window(Append(h, d), t) = Window(h, t)
<1>0. SampleSize \in Nat /\ SampleSize > 0  BY RequestPathAssumption
<1>1. Len(h) \in Nat  OBVIOUS
<1>2. PICK g \in Seq(Durations) : g = Append(h, d) /\ Len(g) = Len(h) + 1 /\ \A i \in 1..Len(h) : g[i] = h[i]
  <2>1. Append(h, d) \in Seq(Durations)  OBVIOUS
  <2>2. Len(Append(h, d)) = Len(h) + 1 /\ \A i \in 1..Len(h) : Append(h, d)[i] = h[i]  OBVIOUS
  <2> QED  BY <2>1, <2>2
<1>3. PICK a \in Nat : a = (IF t < SampleSize THEN 1 ELSE t - SampleSize + 1)
  <2>1. (IF t < SampleSize THEN 1 ELSE t - SampleSize + 1) \in Nat  BY <1>0, <1>1
  <2> QED  BY <2>1
<1>4. t \in Nat /\ 1 <= a /\ t <= Len(h) /\ t <= Len(g) /\ a <= t + 1  BY <1>0, <1>1, <1>2, <1>3
<1>5. /\ SubSeq(h, a, t) \in Seq(Durations) /\ Len(SubSeq(h, a, t)) = t - a + 1
      /\ \A i \in 1..(t - a + 1) : SubSeq(h, a, t)[i] = h[a - 1 + i]
  BY <1>4, Part
<1>6. /\ SubSeq(g, a, t) \in Seq(Durations) /\ Len(SubSeq(g, a, t)) = t - a + 1
      /\ \A i \in 1..(t - a + 1) : SubSeq(g, a, t)[i] = g[a - 1 + i]
  BY <1>4, Part
<1>7. SubSeq(g, a, t) = SubSeq(h, a, t)
  <2>1. PICK x \in Seq(Durations) : x = SubSeq(g, a, t)  BY <1>6
  <2>2. PICK y \in Seq(Durations) : y = SubSeq(h, a, t)  BY <1>5
  <2>3. \A i \in 1..(t - a + 1) : x[i] = y[i]
    <3> TAKE i \in 1..(t - a + 1)
    <3>1. a - 1 + i \in 1..Len(h)  BY <1>1, <1>4
    <3> QED  BY <1>2, <1>5, <1>6, <2>1, <2>2, <3>1
  <2>4. Len(x) = Len(y) /\ Len(x) = t - a + 1  BY <1>5, <1>6, <2>1, <2>2
  <2>5. \A i \in 1..Len(x) : x[i] = y[i]  BY <2>3, <2>4
  <2>6. x = y  BY <2>4, <2>5, SameLists
  <2> QED  BY <2>1, <2>2, <2>6
<1> QED  BY <1>2, <1>3, <1>7 DEF Window

\* No multiple of AdjustmentFreq is passed over when one more duration is recorded.
LEMMA AdjustedNext ==
    ASSUME NEW h \in Seq(Durations), NEW d \in Durations, NEW a, AdjustedOK(h, a), NEW b, NEW adjust,
           NEW g, g = Append(h, d),
           adjust => b = Len(g), ~adjust => b = a,
           MinDataPoints <= SampleSize /\ Len(g) >= MinDataPoints /\ Len(g) % AdjustmentFreq = 0 => adjust
    PROVE  AdjustedOK(g, b)
<1>0. AdjustmentFreq \in Nat /\ AdjustmentFreq > 0 /\ MinDataPoints \in Nat  BY RequestPathAssumption
<1>1. PICK n \in Nat : n = Len(h)  OBVIOUS
<1>2. Len(g) = n + 1  BY <1>1
<1>3. a \in 0..n  BY <1>1 DEF AdjustedOK
<1>4. b \in 0..(n + 1)  BY <1>2, <1>3
<1>5. ASSUME MinDataPoints <= SampleSize, NEW q \in Nat,
             MinDataPoints <= AdjustmentFreq * q, AdjustmentFreq * q <= n + 1
      PROVE  AdjustmentFreq * q <= b
  <2>1. PICK m \in Nat : m = AdjustmentFreq * q  BY <1>0
  <2>2. CASE m <= n
    <3>1. m <= a  BY <1>1, <1>5, <2>1, <2>2 DEF AdjustedOK
    <3>2. a <= b  BY <1>2, <1>3
    <3> QED  BY <1>3, <1>4, <2>1, <3>1, <3>2
  <2>3. CASE ~(m <= n)
    <3>1. m = n + 1  BY <1>5, <2>1, <2>3
    <3>2. m % AdjustmentFreq = 0
      <4>1. (AdjustmentFreq * q) % AdjustmentFreq = 0  BY <1>0
      <4> QED  BY <2>1, <4>1
    <3>3. adjust  BY <1>2, <1>5, <2>1, <3>1, <3>2
    <3> QED  BY <1>2, <2>1, <3>1, <3>3
  <2> QED  BY <2>2, <2>3
<1> QED  BY <1>2, <1>4, <1>5 DEF AdjustedOK

\* So the last adjustment is never AdjustmentFreq requests ago.
LEMMA NotStale ==
    ASSUME NEW h \in Seq(Durations), NEW a, AdjustedOK(h, a), MinDataPoints <= SampleSize,
           Len(h) >= MinDataPoints + AdjustmentFreq
    PROVE  Len(h) - a < AdjustmentFreq
<1>0. PICK f \in Nat : f = AdjustmentFreq /\ f > 0  BY RequestPathAssumption
<1>1. MinDataPoints \in Nat  BY RequestPathAssumption
<1>2. PICK n \in Nat : n = Len(h)  OBVIOUS
<1>3. PICK q \in Nat : n - f < f * q /\ f * q <= n
  <2> DEFINE S == {k \in Nat : \E q \in Nat : k - f < f * q /\ f * q <= k}
  <2>1. 0 \in S
    <3>1. PICK z \in Nat : z = 0  OBVIOUS
    <3>2. f * z = 0  BY <3>1
    <3>3. 0 - f < f * z /\ f * z <= 0  BY <1>0, <3>2
    <3> QED  BY <3>3
  <2>2. ASSUME NEW k \in Nat, k \in S  PROVE k + 1 \in S
    <3>1. PICK q \in Nat : k - f < f * q /\ f * q <= k  BY <2>2
    <3>2. PICK m \in Nat : m = f * q  OBVIOUS
    <3>3. CASE (k + 1) - f < m
      <4>1. (k + 1) - f < f * q /\ f * q <= k + 1  BY <3>1, <3>2, <3>3
      <4>2. \E x \in Nat : (k + 1) - f < f * x /\ f * x <= k + 1  BY <4>1, Zenon
      <4> QED  BY <4>2, k + 1 \in Nat
    <3>4. CASE ~((k + 1) - f < m)
      <4>1. m + f = k + 1  BY <1>0, <3>1, <3>2, <3>4
      <4>2. f * (q + 1) = f * q + f  OBVIOUS
      <4>3. PICK p \in Nat : p = q + 1  OBVIOUS
      <4>4. (k + 1) - f < f * p /\ f * p <= k + 1  BY <1>0, <3>2, <4>1, <4>2, <4>3
      <4>5. \E x \in Nat : (k + 1) - f < f * x /\ f * x <= k + 1  BY <4>4, Zenon
      <4> QED  BY <4>5, k + 1 \in Nat
    <3> QED  BY <3>3, <3>4
  <2>3. n \in S
    <3> HIDE DEF S
    <3> QED  BY <2>1, <2>2, UpTo
  <2> QED  BY <2>3
<1>4. PICK m \in Nat : m = f * q  OBVIOUS
<1>5. MinDataPoints <= m  BY <1>0, <1>1, <1>2, <1>3, <1>4
<1>6. m <= a  BY <1>0, <1>2, <1>3, <1>4, <1>5 DEF AdjustedOK
<1>7. a \in 0..n  BY <1>2 DEF AdjustedOK
<1>8. n - a < f  BY <1>3, <1>4, <1>6, <1>7
<1> QED  BY <1>0, <1>2, <1>8

-----------------------------------------------------------------------------
(* The goroutines and the counters *)

ProcFields == {"pc", "req", "node", "h", "limit", "ended", "attempt", "answer", "serves", "fresh"}
Statuses == {"success", "exhausted", "non_retryable", "retry", "canceled"}

\* The goroutines that are at one of pcs.
Among(f, pcs) == {q \in Procs : f[q].pc \in pcs}

\* Counting goroutines when one of them moves.
LEMMA Moved ==
    ASSUME NEW f, NEW g, NEW p \in Procs, \A q \in Procs : q # p => g[q] = f[q], NEW pcs
    PROVE  /\ Cardinality(Among(f, pcs)) \in Nat /\ Cardinality(Among(g, pcs)) \in Nat
           /\ Cardinality(Among(g, pcs)) = Cardinality(Among(f, pcs)) + (IF g[p].pc \in pcs THEN 1 ELSE 0)
                                                                     - (IF f[p].pc \in pcs THEN 1 ELSE 0)
<1> DEFINE A == Among(f, pcs)
           B == Among(g, pcs)
<1>1. IsFiniteSet(Procs)  BY RequestPathAssumption
<1>2. A \in SUBSET Procs /\ B \in SUBSET Procs  BY DEF Among
<1>3. (p \in A <=> f[p].pc \in pcs) /\ (p \in B <=> g[p].pc \in pcs) /\ A \ {p} = B \ {p}  BY DEF Among
<1> HIDE DEF A, B
<1>4. IsFiniteSet(A) /\ IsFiniteSet(B)  BY <1>1, <1>2, FS_Subset
<1>5. Cardinality(A) \in Nat /\ Cardinality(B) \in Nat  BY <1>4, FS_CardinalityType
<1>6. Cardinality(A \ {p}) = (IF p \in A THEN Cardinality(A) - 1 ELSE Cardinality(A))  BY <1>4, FS_RemoveElement
<1>7. Cardinality(B \ {p}) = (IF p \in B THEN Cardinality(B) - 1 ELSE Cardinality(B))  BY <1>4, FS_RemoveElement
<1>8. PICK a \in Nat : a = Cardinality(A)  BY <1>5
<1>9. PICK b \in Nat : b = Cardinality(B)  BY <1>5
<1>10. (IF p \in A THEN a - 1 ELSE a) = (IF p \in B THEN b - 1 ELSE b)  BY <1>6, <1>7, <1>3, <1>8, <1>9
<1>11. b = a + (IF p \in B THEN 1 ELSE 0) - (IF p \in A THEN 1 ELSE 0)  BY <1>10
<1>12. (IF p \in B THEN 1 ELSE 0) = (IF g[p].pc \in pcs THEN 1 ELSE 0)  BY <1>3
<1>13. (IF p \in A THEN 1 ELSE 0) = (IF f[p].pc \in pcs THEN 1 ELSE 0)  BY <1>3
<1> QED  BY <1>5, <1>8, <1>9, <1>11, <1>12, <1>13 DEF A, B

\* The step of one goroutine.
Becomes(p, x) == ProcOK(x) /\ proc' = [proc EXCEPT ![p] = x]

\* If one goroutine goes on to a state it may be in, the others are where they were.
LEMMA OneServes ==
    ASSUME Serving, NEW p \in Procs, NEW x, Becomes(p, x)
    PROVE  Serving' /\ proc'[p] = x /\ \A q \in Procs : q # p => proc'[q] = proc[q]
<1>1. proc'[p] = x /\ \A q \in Procs : q # p => proc'[q] = proc[q]  BY DEF Serving, Becomes
<1>2. proc' = [q \in Procs |-> proc'[q]]  BY DEF Serving, Becomes
<1>3. \A q \in Procs : ProcOK(proc[q]) /\ ProcOK(x)  BY DEF Serving, Becomes
<1>4. \A q \in Procs : ProcOK(proc'[q])
  <2> TAKE q \in Procs
  <2>1. CASE q = p  BY <1>1, <1>3, <2>1
  <2>2. CASE q # p  BY <1>1, <1>3, <2>2
  <2> QED  BY <2>1, <2>2
<1> QED  BY <1>1, <1>2, <1>4 DEF Serving

\* How the counters have to move with it.
Balanced(p, x) ==
    /\ tally' \in [Statuses -> Nat] /\ entered' \in Nat /\ attempts' \in Nat
    /\ inflight' = inflight + (IF x.pc = "process" THEN 1 ELSE 0) - (IF proc[p].pc = "process" THEN 1 ELSE 0)
    /\ entered' + tally'["retry"] - attempts' - tally'["canceled"]
         = entered + tally["retry"] - attempts - tally["canceled"]
           + (IF x.pc \in {"attempt", "backoff"} THEN 1 ELSE 0) - (IF proc[p].pc \in {"attempt", "backoff"} THEN 1 ELSE 0)

\* A step in balance keeps the gauge and the sum of the retries.
LEMMA OneCounts ==
    ASSUME Serving, Counted, NEW p \in Procs, NEW x, Becomes(p, x), Balanced(p, x)
    PROVE  Counted'
<1>1. proc'[p] = x /\ \A q \in Procs : q # p => proc'[q] = proc[q]  BY OneServes
<1> DEFINE A == Among(proc, {"process"})
           B == Among(proc', {"process"})
           C == Among(proc, {"attempt", "backoff"})
           D == Among(proc', {"attempt", "backoff"})
<1>2. /\ Cardinality(A) \in Nat /\ Cardinality(B) \in Nat
      /\ Cardinality(B) = Cardinality(A) + (IF proc'[p].pc \in {"process"} THEN 1 ELSE 0)
                                         - (IF proc[p].pc \in {"process"} THEN 1 ELSE 0)
  <2>1. PICK S : S = {"process"}  OBVIOUS
  <2>2. /\ Cardinality(Among(proc, S)) \in Nat /\ Cardinality(Among(proc', S)) \in Nat
        /\ Cardinality(Among(proc', S)) = Cardinality(Among(proc, S)) + (IF proc'[p].pc \in S THEN 1 ELSE 0)
                                                                      - (IF proc[p].pc \in S THEN 1 ELSE 0)
    BY <1>1, Moved
  <2> QED  BY <2>1, <2>2
<1>3. /\ Cardinality(C) \in Nat /\ Cardinality(D) \in Nat
      /\ Cardinality(D) = Cardinality(C) + (IF proc'[p].pc \in {"attempt", "backoff"} THEN 1 ELSE 0)
                                         - (IF proc[p].pc \in {"attempt", "backoff"} THEN 1 ELSE 0)
  <2>1. PICK S : S = {"attempt", "backoff"}  OBVIOUS
  <2>2. /\ Cardinality(Among(proc, S)) \in Nat /\ Cardinality(Among(proc', S)) \in Nat
        /\ Cardinality(Among(proc', S)) = Cardinality(Among(proc, S)) + (IF proc'[p].pc \in S THEN 1 ELSE 0)
                                                                      - (IF proc[p].pc \in S THEN 1 ELSE 0)
    BY <1>1, Moved
  <2> QED  BY <2>1, <2>2
<1>4. inflight = Cardinality(A)  BY DEF Counted, At, Among
<1>5. entered + tally["retry"] = attempts + tally["canceled"] + Cardinality(C)  BY DEF Counted, RetriesAddUp, Among
<1>6. tally \in [Statuses -> Nat] /\ entered \in Nat /\ attempts \in Nat  BY DEF Counted, Statuses
<1> HIDE DEF A, B, C, D
<1>7. inflight' = Cardinality(B)  BY <1>1, <1>2, <1>4 DEF Balanced
<1>8. /\ tally["retry"] \in Nat /\ tally["canceled"] \in Nat /\ tally'["retry"] \in Nat /\ tally'["canceled"] \in Nat
      /\ tally' \in [Statuses -> Nat] /\ entered' \in Nat /\ attempts' \in Nat
  BY <1>6 DEF Balanced, Statuses
<1>9. entered' + tally'["retry"] = attempts' + tally'["canceled"] + Cardinality(D)
  <2>1. entered' + tally'["retry"] - attempts' - tally'["canceled"]
         = entered + tally["retry"] - attempts - tally["canceled"]
           + (IF x.pc \in {"attempt", "backoff"} THEN 1 ELSE 0) - (IF proc[p].pc \in {"attempt", "backoff"} THEN 1 ELSE 0)
    BY DEF Balanced
  <2> QED  BY <1>1, <1>3, <1>5, <1>6, <1>8, <2>1
<1>10. inflight' = Cardinality(At({"process"})') /\ RetriesAddUp'  BY <1>7, <1>9 DEF At, RetriesAddUp, Among, B, D
<1> QED  BY <1>2, <1>7, <1>8, <1>10 DEF Counted, Statuses

\* Steps away from the processor and the retries leave the counters alone.
LEMMA Uncounted ==
    ASSUME Serving, Counted, NEW p \in Procs, NEW x, Becomes(p, x),
           {x.pc, proc[p].pc} \cap {"process", "attempt", "backoff"} = {},
           UNCHANGED <<inflight, tally, entered, attempts>>
    PROVE  Counted'
<1>1. tally \in [Statuses -> Nat] /\ entered \in Nat /\ attempts \in Nat /\ inflight \in Nat  BY DEF Counted, Statuses
<1>2. tally["retry"] \in Nat /\ tally["canceled"] \in Nat  BY <1>1 DEF Statuses
<1>3. /\ x.pc # "process" /\ proc[p].pc # "process"
      /\ x.pc \notin {"attempt", "backoff"} /\ proc[p].pc \notin {"attempt", "backoff"}
  OBVIOUS
<1>4. /\ inflight' = inflight + 0 - 0
      /\ entered' + tally'["retry"] - attempts' - tally'["canceled"]
           = entered + tally["retry"] - attempts - tally["canceled"] + 0 - 0
  BY <1>1, <1>2
<1>5. Balanced(p, x)  BY <1>1, <1>3, <1>4 DEF Balanced
<1> QED  BY <1>5, OneCounts

\* What is left alone stays as it was.
LEMMA RouterSame ==
    ASSUME Registered, UNCHANGED <<routes, patterns>>
    PROVE  Registered'
BY DEF Registered

\* The same for the durations and the timeouts.
LEMMA TrackerSame ==
    ASSUME Tracked, UNCHANGED tracker
    PROVE  Tracked'
BY DEF Tracked, tracker

\* The same for the cache.
LEMMA CacheSame ==
    ASSUME CacheOK(lru), lru' = lru
    PROVE  CacheOK(lru)'
BY DEF CacheOK

\* The invariant holds of an empty cache, idle goroutines and empty rings.
LEMMA Begun == Init => IndInv
<1> SUFFICES ASSUME Init  PROVE IndInv  OBVIOUS
<1>0. {MaxRetries, MinDataPoints} \subseteq Nat /\ SampleSize \in Nat \ {0}  BY RequestPathAssumption
<1>1. Registered
  <2>1. RegisteredRoutes = [path \in DOMAIN RegisteredRoutes |-> RegisteredRoutes[path]]  BY DEF RegisteredRoutes
  <2>2. \A path \in DOMAIN RegisteredRoutes : DOMAIN RegisteredRoutes[path] = {"ep", "gen", "allowed"}
    BY DEF RegisteredRoutes, HandlerFor
  <2> QED  BY <2>1, <2>2 DEF Init, Registered
<1>2. CacheOK(lru)
  <2>1. lru = EmptyCache  BY DEF Init
  <2>2. PICK q : q = <<>>  OBVIOUS
  <2>3. DOMAIN q = {} /\ q \in Seq(ToSet(q))
    <3>1. <<>> \in Seq(ToSet(q)) /\ DOMAIN <<>> = {}  OBVIOUS
    <3> QED  BY <2>2, <3>1
  <2>4. lru.map = q /\ lru.nodes = q /\ DOMAIN lru = {"map", "nodes", "head", "tail"}  BY <2>1, <2>2 DEF EmptyCache
  <2> QED  BY <2>3, <2>4 DEF CacheOK, IsList
<1>3. ProcOK(Idle)
  <2>1. DOMAIN Idle = ProcFields /\ Idle.pc = "idle" /\ Idle.attempt = 0  BY DEF Idle, ProcFields
  <2>2. Idle.attempt \in 0..MaxRetries  BY <1>0, <2>1
  <2> QED  BY <2>1, <2>2 DEF ProcOK, ProcFields
<1>4. proc = [p \in Procs |-> Idle]  BY DEF Init
<1>5. Serving
  <2> HIDE DEF Idle
  <2> QED  BY <1>3, <1>4 DEF Serving
<1>6. Counted
  <2>1. \A p \in Procs : proc[p].pc = "idle"  BY <1>4 DEF Idle
  <2>2. At({"process"}) = {} /\ {p \in Procs : proc[p].pc \in {"attempt", "backoff"}} = {}  BY <2>1 DEF At
  <2>3. Cardinality({}) = 0  BY FS_EmptySet
  <2>4. /\ tally \in [{"success", "exhausted", "non_retryable", "retry", "canceled"} -> Nat]
        /\ tally["retry"] = 0 /\ tally["canceled"] = 0 /\ entered = 0 /\ attempts = 0 /\ inflight = 0
    BY DEF Init
  <2>5. RetriesAddUp
    <3>1. Cardinality({p \in Procs : proc[p].pc \in {"attempt", "backoff"}}) = 0  BY <2>2, <2>3
    <3>2. 0 + 0 = 0 + 0 + 0  OBVIOUS
    <3> QED  BY <2>4, <3>1, <3>2 DEF RetriesAddUp
  <2> QED  BY <2>2, <2>3, <2>4, <2>5 DEF Counted
<1>7. Tracked
  <2>1. PICK q : q = <<>>  OBVIOUS
  <2>2. q \in Seq(Durations) /\ Len(q) = 0 /\ DOMAIN q = {}
    <3>1. <<>> \in Seq(Durations) /\ Len(<<>>) = 0 /\ DOMAIN <<>> = {}  OBVIOUS
    <3> QED  BY <2>1, <3>1
  <2>3. RingOK(EmptyStats, q)
    <3>1. /\ DOMAIN EmptyStats = {"ring", "head", "count", "total"} /\ EmptyStats.ring \in [1..SampleSize -> Nat]
          /\ EmptyStats.head = 1 /\ EmptyStats.count = 0 /\ EmptyStats.total = 0
      BY DEF EmptyStats
    <3>2. EmptyStats.head \in 1..SampleSize  BY <1>0, <3>1
    <3>3. \A j \in 1..SampleSize : ~(j < EmptyStats.head) /\ ~(Len(q) >= SampleSize)  BY <1>0, <2>2, <3>1
    <3>4. Len(q) < SampleSize  BY <1>0, <2>2
    <3> QED  BY <2>2, <3>1, <3>2, <3>3, <3>4 DEF RingOK
  <2>4. AdjustedOK(q, 0)
    <3>1. 0 \in 0..Len(q)  BY <2>2
    <3>2. \A m \in Nat : AdjustmentFreq * m <= Len(q) => AdjustmentFreq * m <= 0  BY <2>2
    <3> QED  BY <3>1, <3>2 DEF AdjustedOK
  <2>5. stats = [k \in Targets |-> EmptyStats] /\ hist = [k \in Targets |-> q] /\ adjusted = [k \in Targets |-> 0]
    BY <2>1 DEF Init
  <2>6. timeout = q  BY <2>1 DEF Init
  <2>7. q = [k \in DOMAIN q |-> q[k]]
    <3>1. <<>> = [k \in DOMAIN <<>> |-> <<>>[k]]  OBVIOUS
    <3> QED  BY <2>1, <3>1
  <2> HIDE DEF EmptyStats
  <2> QED  BY <2>2, <2>3, <2>4, <2>5, <2>6, <2>7 DEF Tracked
<1> QED  BY <1>1, <1>2, <1>5, <1>6, <1>7 DEF IndInv

-----------------------------------------------------------------------------
(* Router.Serve *)

\* A step of one goroutine that leaves the tracker and the counters alone.
LEMMA Assembled ==
    ASSUME IndInv, NEW p \in Procs, NEW x, Becomes(p, x),
           {x.pc, proc[p].pc} \cap {"process", "attempt", "backoff"} = {},
           UNCHANGED <<routes, patterns, inflight, tally, tracker, entered, attempts>>, CacheOK(lru)'
    PROVE  IndInv'
<1>1. Serving /\ Counted /\ Tracked /\ Registered  BY DEF IndInv
<1>2. Serving'  BY <1>1, OneServes
<1>3. Counted'  BY <1>1, Uncounted
<1>4. Tracked' /\ Registered'  BY <1>1, TrackerSame, RouterSame
<1> QED  BY <1>2, <1>3, <1>4 DEF IndInv

\* A goroutine that only goes on to another place.
LEMMA GoesOn ==
    ASSUME Serving, NEW p \in Procs, NEW pc, Goto(p, pc),
           NEW x, x = [proc[p] EXCEPT !.pc = pc]
    PROVE  /\ proc' = [proc EXCEPT ![p] = x] /\ DOMAIN x = ProcFields /\ x.pc = pc
           /\ x.req = proc[p].req /\ x.h = proc[p].h /\ x.attempt = proc[p].attempt /\ x.answer = proc[p].answer
<1>1. DOMAIN proc[p] = ProcFields /\ p \in DOMAIN proc  BY DEF Serving, ProcOK, ProcFields
<1>2. proc' = [proc EXCEPT ![p] = x]  BY DEF Goto
<1> QED  BY <1>1, <1>2 DEF ProcFields

\* A new request.
LEMMA BeginStep ==
    ASSUME IndInv, NEW p \in Procs, Begin(p)
    PROVE  IndInv'
<1>1. PICK r \in Targets :
          proc' = [proc EXCEPT ![p] = [Idle EXCEPT !.pc = "get", !.req = r, !.serves = proc[p].serves + 1,
                                                   !.fresh = Replaced(r.path)]]
  BY DEF Begin
<1>2. PICK x : x = [Idle EXCEPT !.pc = "get", !.req = r, !.serves = proc[p].serves + 1, !.fresh = Replaced(r.path)]
  OBVIOUS
<1>3. DOMAIN x = ProcFields /\ x.pc = "get" /\ x.req = r /\ x.attempt = 0  BY <1>2 DEF Idle, ProcFields
<1>4. MaxRetries \in Nat  BY RequestPathAssumption
<1>5. x.attempt \in 0..MaxRetries  BY <1>3, <1>4
<1>6. ProcOK(x)  BY <1>3, <1>5 DEF ProcOK, ProcFields
<1>7. Becomes(p, x)  BY <1>1, <1>2, <1>6 DEF Becomes
<1>8. /\ UNCHANGED <<routes, patterns, lru, inflight, tally, tracker, entered, attempts>>
      /\ proc[p].pc \in {"idle", "done"}
  BY DEF Begin, router
<1>9. CacheOK(lru)'  BY <1>8, CacheSame DEF IndInv
<1>10. {x.pc, proc[p].pc} \cap {"process", "attempt", "backoff"} = {}  BY <1>3, <1>8
<1> QED  BY <1>7, <1>8, <1>9, <1>10, Assembled

\* A lookup that finds no entry, or an expired one.
LEMMA CacheMissStep ==
    ASSUME IndInv, NEW p \in Procs, CacheMiss(p) \/ CacheExpired(p)
    PROVE  IndInv'
<1>1. PICK pc \in {"load", "evict"} : Goto(p, pc)  BY DEF CacheMiss, CacheExpired
<1>2. /\ UNCHANGED <<routes, patterns, lru, inflight, tally, tracker, entered, attempts>>
      /\ proc[p].pc = "get"
  BY DEF CacheMiss, CacheExpired, router
<1>3. PICK x : x = [proc[p] EXCEPT !.pc = pc]  OBVIOUS
<1>4. Serving /\ ProcOK(proc[p])  BY DEF IndInv, Serving
<1>5. /\ proc' = [proc EXCEPT ![p] = x] /\ DOMAIN x = ProcFields /\ x.pc = pc
      /\ x.req = proc[p].req /\ x.h = proc[p].h /\ x.attempt = proc[p].attempt
  BY <1>1, <1>3, <1>4, GoesOn
<1>6. ProcOK(x)  BY <1>1, <1>2, <1>4, <1>5 DEF ProcOK, ProcFields
<1>7. Becomes(p, x)  BY <1>5, <1>6 DEF Becomes
<1>8. CacheOK(lru)'  BY <1>2, CacheSame DEF IndInv
<1>9. {x.pc, proc[p].pc} \cap {"process", "attempt", "backoff"} = {}  BY <1>1, <1>2, <1>5
<1> QED  BY <1>2, <1>7, <1>8, <1>9, Assembled

\* The eviction of an expired entry, which may be another one by now.
LEMMA CacheEvictStep ==
    ASSUME IndInv, NEW p \in Procs, CacheEvict(p)
    PROVE  IndInv'
<1>1. /\ proc[p].pc = "evict" /\ lru' = EvictKey(lru, Key(p)) /\ Goto(p, "load")
      /\ UNCHANGED <<routes, patterns, inflight, tally, tracker, entered, attempts>>
  BY DEF CacheEvict
<1>2. PICK x : x = [proc[p] EXCEPT !.pc = "load"]  OBVIOUS
<1>3. Serving /\ ProcOK(proc[p]) /\ CacheOK(lru)  BY DEF IndInv, Serving
<1>4. /\ proc' = [proc EXCEPT ![p] = x] /\ DOMAIN x = ProcFields /\ x.pc = "load"
      /\ x.req = proc[p].req /\ x.h = proc[p].h /\ x.attempt = proc[p].attempt
  <2>1. PICK pc : pc = "load"  OBVIOUS
  <2> QED  BY <1>1, <1>2, <1>3, <2>1, GoesOn
<1>5. ProcOK(x)  BY <1>1, <1>3, <1>4 DEF ProcOK, ProcFields
<1>6. Becomes(p, x)  BY <1>4, <1>5 DEF Becomes
<1>7. CacheOK(lru')  BY <1>1, <1>3, EntryEvicted
<1>8. CacheOK(lru)'  BY <1>7 DEF CacheOK
<1>9. {x.pc, proc[p].pc} \cap {"process", "attempt", "backoff"} = {}  BY <1>1, <1>4
<1> QED  BY <1>1, <1>6, <1>8, <1>9, Assembled

\* Counting a hit.
LEMMA EntryCounted ==
    ASSUME NEW c, CacheOK(c), NEW n \in DOMAIN c.nodes, NEW count, NEW d, d = [c EXCEPT !.nodes[n].count = count]
    PROVE  CacheOK(d) /\ Fewer(c, d)
<1> DEFINE x == [c.nodes[n] EXCEPT !.count = count]
<1>1. DOMAIN c = CacheFields /\ \A i \in DOMAIN c.nodes : DOMAIN c.nodes[i] = NodeFields
  BY DEF CacheOK, CacheFields, NodeOK, NodeFields
<1>2. DOMAIN x = NodeFields /\ x.key = c.nodes[n].key /\ x.h = c.nodes[n].h  BY <1>1 DEF NodeFields
<1>3. d.nodes = [c.nodes EXCEPT ![n] = x] /\ d.map = c.map /\ DOMAIN d = CacheFields
  BY <1>1 DEF CacheFields
<1> HIDE DEF x
<1>4. c.nodes = [i \in DOMAIN c.nodes |-> c.nodes[i]]  BY DEF CacheOK, IsList
<1>5. d.nodes = [i \in DOMAIN c.nodes |-> d.nodes[i]]  BY <1>3, <1>4
<1>6. \A i \in DOMAIN c.nodes : d.nodes[i] = IF i = n THEN x ELSE c.nodes[i]  BY <1>3
<1>7. \A i \in DOMAIN c.nodes : /\ DOMAIN d.nodes[i] = NodeFields
                                /\ d.nodes[i].key = c.nodes[i].key /\ d.nodes[i].h = c.nodes[i].h
  BY <1>1, <1>2, <1>6
<1>8. PICK e : e = d /\ DOMAIN e = CacheFields /\ e.map = c.map /\ e.nodes = d.nodes  BY <1>3
<1>9. SameEntries(c, e)
  <2>1. PICK q : q = d.nodes  OBVIOUS
  <2>2. e.nodes = q /\ q = [i \in DOMAIN c.nodes |-> q[i]]  BY <1>5, <1>8, <2>1
  <2>3. \A i \in DOMAIN c.nodes : DOMAIN q[i] = NodeFields /\ q[i].key = c.nodes[i].key /\ q[i].h = c.nodes[i].h
    BY <1>7, <2>1
  <2>4. IsList(q) /\ DOMAIN q = DOMAIN c.nodes
    <3>1. Len(c.nodes) \in Nat /\ DOMAIN c.nodes = 1..Len(c.nodes)  BY DEF CacheOK, IsList
    <3>2. PICK n0 \in Nat : n0 = Len(c.nodes)  BY <3>1
    <3>3. q = [i \in 1..n0 |-> q[i]]  BY <2>2, <3>1, <3>2
    <3>4. IsList(q) /\ DOMAIN q = 1..n0  BY <3>3, Listed
    <3> QED  BY <3>1, <3>2, <3>4
  <2> QED  BY <1>8, <2>2, <2>3, <2>4 DEF SameEntries
<1>10. CacheOK(e) /\ Fewer(c, e)  BY <1>9, EntriesKept
<1> QED  BY <1>8, <1>10

\* A hit takes the handler of the key's own node.
LEMMA CacheHitStep ==
    ASSUME IndInv, NEW p \in Procs, CacheHit(p)
    PROVE  IndInv'
<1>1. PICK n, count :
          /\ proc[p].pc = "get" /\ Key(p) \in DOMAIN lru.map /\ n = lru.map[Key(p)]
          /\ lru' = [lru EXCEPT !.nodes[n].count = count]
          /\ proc' = [proc EXCEPT ![p].node = n, ![p].h = lru.nodes[n].h,
                        ![p].pc = IF count % PromoteEvery = 0 THEN "promote" ELSE "deadline"]
  BY DEF CacheHit
<1>2. UNCHANGED <<routes, patterns, inflight, tally, tracker, entered, attempts>>  BY DEF CacheHit
<1>3. Serving /\ ProcOK(proc[p]) /\ CacheOK(lru)  BY DEF IndInv, Serving
<1>4. PICK pc \in {"promote", "deadline"} : pc = IF count % PromoteEvery = 0 THEN "promote" ELSE "deadline"
  OBVIOUS
<1>5. PICK h : h = lru.nodes[n].h  OBVIOUS
<1>6. PICK x : x = [[[proc[p] EXCEPT !.node = n] EXCEPT !.h = h] EXCEPT !.pc = pc]  OBVIOUS
<1>7. DOMAIN proc[p] = ProcFields /\ p \in DOMAIN proc  BY <1>3 DEF Serving, ProcOK, ProcFields
<1>8. proc' = [proc EXCEPT ![p] = x]  BY <1>1, <1>4, <1>5, <1>6, <1>7 DEF ProcFields
<1>9. /\ DOMAIN x = ProcFields /\ x.pc = pc /\ x.h = h /\ x.req = proc[p].req
      /\ x.attempt = proc[p].attempt
  BY <1>6, <1>7 DEF ProcFields
<1>10. n \in DOMAIN lru.nodes /\ lru.nodes[n].key = proc[p].req  BY <1>1, <1>3 DEF CacheOK, Key
<1>11. Right(h, x.req)
  <2>1. NodeOK(lru.nodes[n])  BY <1>3, <1>10 DEF CacheOK
  <2> QED  BY <1>5, <1>9, <1>10, <2>1 DEF NodeOK
<1>12. ProcOK(x)  BY <1>1, <1>3, <1>4, <1>9, <1>11 DEF ProcOK, ProcFields
<1>13. Becomes(p, x)  BY <1>8, <1>12 DEF Becomes
<1>14. CacheOK(lru')
  <2>1. PICK d : d = lru'  OBVIOUS
  <2>2. CacheOK(d)  BY <1>1, <1>3, <1>10, <2>1, EntryCounted
  <2> QED  BY <2>1, <2>2
<1>15. CacheOK(lru)'  BY <1>14 DEF CacheOK
<1>16. {x.pc, proc[p].pc} \cap {"process", "attempt", "backoff"} = {}  BY <1>1, <1>4, <1>9
<1> QED  BY <1>2, <1>13, <1>15, <1>16, Assembled

\* A promotion, whatever has become of the node, relinks only.
LEMMA CachePromoteStep ==
    ASSUME IndInv, NEW p \in Procs, CachePromote(p)
    PROVE  IndInv'
<1>1. /\ proc[p].pc = "promote"
      /\ lru' = IF Key(p) \in DOMAIN lru.map THEN MoveToFront(lru, proc[p].node) ELSE lru
      /\ proc' = [proc EXCEPT ![p].pc = "deadline", ![p].node = 0]
      /\ UNCHANGED <<routes, patterns, inflight, tally, tracker, entered, attempts>>
  BY DEF CachePromote
<1>2. Serving /\ ProcOK(proc[p]) /\ CacheOK(lru)  BY DEF IndInv, Serving
<1>3. PICK x : x = [[proc[p] EXCEPT !.pc = "deadline"] EXCEPT !.node = 0]  OBVIOUS
<1>4. DOMAIN proc[p] = ProcFields /\ p \in DOMAIN proc  BY <1>2 DEF Serving, ProcOK, ProcFields
<1>5. proc' = [proc EXCEPT ![p] = x]  BY <1>1, <1>3, <1>4 DEF ProcFields
<1>6. /\ DOMAIN x = ProcFields /\ x.pc = "deadline" /\ x.h = proc[p].h /\ x.req = proc[p].req
      /\ x.attempt = proc[p].attempt
  BY <1>3, <1>4 DEF ProcFields
<1>7. ProcOK(x)  BY <1>1, <1>2, <1>6 DEF ProcOK, ProcFields
<1>8. Becomes(p, x)  BY <1>5, <1>7 DEF Becomes
<1>9. CacheOK(lru')  BY <1>1, <1>2, NodeMoved
<1>10. CacheOK(lru)'  BY <1>9 DEF CacheOK
<1>11. {x.pc, proc[p].pc} \cap {"process", "attempt", "backoff"} = {}  BY <1>1, <1>6
<1> QED  BY <1>1, <1>8, <1>10, <1>11, Assembled

\* The table has a right handler for its paths, and only for them.
LEMMA LookupRouteStep ==
    ASSUME IndInv, NEW p \in Procs, LookupRoute(p)
    PROVE  IndInv'
<1>1. /\ proc[p].pc = "load"
      /\ UNCHANGED <<routes, patterns, lru, inflight, tally, tracker, entered, attempts>>
  BY DEF LookupRoute, router
<1>2. Serving /\ ProcOK(proc[p]) /\ CacheOK(lru) /\ Registered  BY DEF IndInv, Serving
<1>3. CacheOK(lru)'  BY <1>1, <1>2, CacheSame
<1>4. PICK path : path = proc[p].req.path  OBVIOUS
<1>5. DOMAIN routes = DOMAIN RegisteredRoutes  BY <1>2 DEF Registered
<1>6. CASE path \in DOMAIN routes
  <2>1. PICK h : h = routes[path]  OBVIOUS
  <2>2. PICK x : x = [[proc[p] EXCEPT !.pc = "put"] EXCEPT !.h = h]  OBVIOUS
  <2>3. DOMAIN proc[p] = ProcFields /\ p \in DOMAIN proc  BY <1>2 DEF Serving, ProcOK, ProcFields
  <2>4. proc' = [proc EXCEPT ![p].pc = "put", ![p].h = h]  BY <1>4, <1>6, <2>1 DEF LookupRoute
  <2>5. proc' = [proc EXCEPT ![p] = x]  BY <2>2, <2>3, <2>4 DEF ProcFields
  <2>6. /\ DOMAIN x = ProcFields /\ x.pc = "put" /\ x.h = h /\ x.req = proc[p].req
        /\ x.attempt = proc[p].attempt
    BY <2>2, <2>3 DEF ProcFields
  <2>7. h.allowed = RegisteredRoutes[path].allowed  BY <1>2, <1>5, <1>6, <2>1 DEF Registered
  <2>8. PICK r : r = proc[p].req  OBVIOUS
  <2>9. Right(h, r)  BY <1>4, <1>5, <1>6, <2>7, <2>8, RouteRight
  <2>10. ProcOK(x)  BY <1>1, <1>2, <2>6, <2>8, <2>9 DEF ProcOK, ProcFields
  <2>11. Becomes(p, x)  BY <2>5, <2>10 DEF Becomes
  <2>12. {x.pc, proc[p].pc} \cap {"process", "attempt", "backoff"} = {}  BY <1>1, <2>6
  <2> QED  BY <1>1, <1>3, <2>11, <2>12, Assembled
<1>7. CASE path \notin DOMAIN routes
  <2>1. PICK pc : pc = "pattern"  OBVIOUS
  <2>2. PICK x : x = [proc[p] EXCEPT !.pc = pc]  OBVIOUS
  <2>3. Goto(p, pc)  BY <1>4, <1>7, <2>1 DEF LookupRoute
  <2>4. /\ proc' = [proc EXCEPT ![p] = x] /\ DOMAIN x = ProcFields /\ x.pc = pc
        /\ x.req = proc[p].req /\ x.h = proc[p].h /\ x.attempt = proc[p].attempt
    BY <1>2, <2>2, <2>3, GoesOn
  <2>5. ProcOK(x)  BY <1>1, <1>2, <1>4, <1>5, <1>7, <2>1, <2>4 DEF ProcOK, ProcFields
  <2>6. Becomes(p, x)  BY <2>4, <2>5 DEF Becomes
  <2>7. {x.pc, proc[p].pc} \cap {"process", "attempt", "backoff"} = {}  BY <1>1, <2>1, <2>4
  <2> QED  BY <1>1, <1>3, <2>6, <2>7, Assembled
<1> QED  BY <1>6, <1>7

\* What the table gave is put into the cache, whatever happened to the cache in between.
LEMMA CachePutStep ==
    ASSUME IndInv, NEW p \in Procs, CachePut(p)
    PROVE  IndInv'
<1>1. /\ proc[p].pc = "put" /\ lru' = PutEntry(lru, Key(p), proc[p].h) /\ Goto(p, "deadline")
      /\ UNCHANGED <<routes, patterns, inflight, tally, tracker, entered, attempts>>
  BY DEF CachePut
<1>2. PICK x : x = [proc[p] EXCEPT !.pc = "deadline"]  OBVIOUS
<1>3. Serving /\ ProcOK(proc[p]) /\ CacheOK(lru)  BY DEF IndInv, Serving
<1>4. /\ proc' = [proc EXCEPT ![p] = x] /\ DOMAIN x = ProcFields /\ x.pc = "deadline"
      /\ x.req = proc[p].req /\ x.h = proc[p].h /\ x.attempt = proc[p].attempt
  <2>1. PICK pc : pc = "deadline"  OBVIOUS
  <2> QED  BY <1>1, <1>2, <1>3, <2>1, GoesOn
<1>5. proc[p].req \in Targets /\ Right(proc[p].h, proc[p].req)  BY <1>1, <1>3 DEF ProcOK
<1>6. ProcOK(x)  BY <1>3, <1>4, <1>5 DEF ProcOK, ProcFields
<1>7. Becomes(p, x)  BY <1>4, <1>6 DEF Becomes
<1>8. CacheOK(lru')
  <2>1. PICK r \in Targets : r = proc[p].req  BY <1>5
  <2>2. PICK h : h = proc[p].h  OBVIOUS
  <2>3. CacheOK(PutEntry(lru, r, h))  BY <1>3, <1>5, <2>1, <2>2, EntryPut
  <2> QED  BY <1>1, <2>1, <2>2, <2>3 DEF Key
<1>9. CacheOK(lru)'  BY <1>8 DEF CacheOK
<1>10. {x.pc, proc[p].pc} \cap {"process", "attempt", "backoff"} = {}  BY <1>1, <1>4
<1> QED  BY <1>1, <1>7, <1>9, <1>10, Assembled

\* The first pattern that matches is the one the scenarios name, and 404 if there is none.
LEMMA MatchPatternsStep ==
    ASSUME IndInv, NEW p \in Procs, MatchPatterns(p)
    PROVE  IndInv'
<1>1. /\ proc[p].pc = "pattern"
      /\ UNCHANGED <<routes, patterns, lru, inflight, tally, tracker, entered, attempts>>
  BY DEF MatchPatterns, router
<1>2. Serving /\ ProcOK(proc[p]) /\ CacheOK(lru) /\ Registered  BY DEF IndInv, Serving
<1>3. CacheOK(lru)'  BY <1>1, <1>2, CacheSame
<1>4. PICK r : r = proc[p].req  OBVIOUS
<1>5. PICK hits : hits = {i \in DOMAIN patterns : EndpointMatches(patterns[i].ep, proc[p].req.path)}  OBVIOUS
<1>6. hits = {i \in DOMAIN RegisteredPatterns : EndpointMatches(RegisteredPatterns[i].ep, r.path)}
  BY <1>2, <1>4, <1>5 DEF Registered
<1>7. r \in Targets /\ r.path \notin DOMAIN RegisteredRoutes  BY <1>1, <1>2, <1>4 DEF ProcOK
<1>8. /\ hits = {} => Expected(r) = "404"
      /\ hits # {} => Right(RegisteredPatterns[Min(hits)], r)
  BY <1>6, <1>7, PatternRight
<1>9. proc' = IF hits = {} THEN [proc EXCEPT ![p].pc = "done", ![p].answer = "404"]
              ELSE [proc EXCEPT ![p].pc = "deadline", ![p].h = patterns[Min(hits)]]
  BY <1>5 DEF MatchPatterns
<1>10. DOMAIN proc[p] = ProcFields /\ p \in DOMAIN proc  BY <1>2 DEF Serving, ProcOK, ProcFields
<1>11. CASE hits = {}
  <2>1. PICK x : x = [[proc[p] EXCEPT !.pc = "done"] EXCEPT !.answer = "404"]  OBVIOUS
  <2>2. proc' = [proc EXCEPT ![p] = x]  BY <1>9, <1>10, <1>11, <2>1 DEF ProcFields
  <2>3. /\ DOMAIN x = ProcFields /\ x.pc = "done" /\ x.answer = "404" /\ x.req = r
        /\ x.attempt = proc[p].attempt
    BY <1>4, <1>10, <2>1 DEF ProcFields
  <2>4. ProcOK(x)  BY <1>2, <1>7, <1>8, <1>11, <2>3 DEF ProcOK, ProcFields
  <2>5. Becomes(p, x)  BY <2>2, <2>4 DEF Becomes
  <2>6. {x.pc, proc[p].pc} \cap {"process", "attempt", "backoff"} = {}  BY <1>1, <2>3
  <2> QED  BY <1>1, <1>3, <2>5, <2>6, Assembled
<1>12. CASE hits # {}
  <2>1. PICK h : h = patterns[Min(hits)]  OBVIOUS
  <2>2. PICK x : x = [[proc[p] EXCEPT !.pc = "deadline"] EXCEPT !.h = h]  OBVIOUS
  <2>3. proc' = [proc EXCEPT ![p] = x]  BY <1>9, <1>10, <1>12, <2>1, <2>2 DEF ProcFields
  <2>4. /\ DOMAIN x = ProcFields /\ x.pc = "deadline" /\ x.h = h /\ x.req = r
        /\ x.attempt = proc[p].attempt
    BY <1>4, <1>10, <2>2 DEF ProcFields
  <2>5. Right(h, r)  BY <1>2, <1>8, <1>12, <2>1 DEF Registered
  <2>6. ProcOK(x)  BY <1>2, <1>7, <2>4, <2>5 DEF ProcOK, ProcFields
  <2>7. Becomes(p, x)  BY <2>3, <2>6 DEF Becomes
  <2>8. {x.pc, proc[p].pc} \cap {"process", "attempt", "backoff"} = {}  BY <1>1, <2>4
  <2> QED  BY <1>1, <1>3, <2>7, <2>8, Assembled
<1> QED  BY <1>11, <1>12

\* Handle changes a handler's generation and empties the map.
LEMMA HandleStep ==
    ASSUME IndInv, HandleStores \/ HandleClears
    PROVE  IndInv'
<1>1. UNCHANGED <<patterns, proc, inflight, tally, tracker, entered, attempts>>  BY DEF HandleStores, HandleClears
<1>2. Registered /\ CacheOK(lru) /\ Serving /\ Counted /\ Tracked  BY DEF IndInv
<1>3. Serving'  BY <1>1, <1>2 DEF Serving
<1>4. Counted'  BY <1>1, <1>2 DEF Counted, RetriesAddUp, At
<1>5. Tracked'  BY <1>1, <1>2, TrackerSame
<1>6. CASE HandleStores
  <2>1. PICK path : routes' = [routes EXCEPT ![path].gen = 1]  BY <1>6 DEF HandleStores
  <2>2. lru' = lru  BY <1>6 DEF HandleStores
  <2>3. CacheOK(lru)'  BY <1>2, <2>2, CacheSame
  <2>4. routes = [q \in DOMAIN RegisteredRoutes |-> routes[q]]  BY <1>2 DEF Registered
  <2>5. routes' = [q \in DOMAIN RegisteredRoutes |-> IF q = path THEN [routes[q] EXCEPT !.gen = 1] ELSE routes[q]]
    BY <2>1, <2>4
  <2>6. ASSUME NEW q \in DOMAIN RegisteredRoutes
        PROVE  /\ DOMAIN routes'[q] = {"ep", "gen", "allowed"}
               /\ routes'[q].allowed = RegisteredRoutes[q].allowed
    <3>1. DOMAIN routes[q] = {"ep", "gen", "allowed"} /\ routes[q].allowed = RegisteredRoutes[q].allowed
      BY <1>2 DEF Registered
    <3>2. routes'[q] = [routes[q] EXCEPT !.gen = 1] \/ routes'[q] = routes[q]  BY <2>5
    <3> QED  BY <3>1, <3>2
  <2>7. routes' = [q \in DOMAIN RegisteredRoutes |-> routes'[q]]  BY <2>5
  <2>8. Registered'  BY <1>1, <1>2, <2>6, <2>7 DEF Registered
  <2> QED  BY <1>3, <1>4, <1>5, <2>3, <2>8 DEF IndInv
<1>7. CASE HandleClears
  <2>1. lru' = [lru EXCEPT !.map = <<>>, !.head = 0, !.tail = 0] /\ routes' = routes  BY <1>7 DEF HandleClears
  <2>2. PICK e : e = <<>> /\ DOMAIN e = {}  OBVIOUS
  <2>3. lru'.map = e /\ lru'.nodes = lru.nodes /\ DOMAIN lru' = CacheFields
    BY <1>2, <2>1, <2>2 DEF CacheOK, CacheFields
  <2>4. CacheOK(lru)'  BY <1>2, <2>2, <2>3 DEF CacheOK, CacheFields
  <2>5. Registered'  BY <1>1, <1>2, <2>1, RouterSame
  <2> QED  BY <1>3, <1>4, <1>5, <2>4, <2>5 DEF IndInv
<1> QED  BY <1>6, <1>7

-----------------------------------------------------------------------------
(* The middlewares *)

\* A step of one goroutine that leaves the router alone, with the counters in balance.
LEMMA Balance ==
    ASSUME IndInv, NEW p \in Procs, NEW x, Becomes(p, x), Balanced(p, x), UNCHANGED <<routes, patterns, lru, tracker>>
    PROVE  IndInv'
<1>1. Serving /\ Counted /\ Tracked /\ Registered /\ CacheOK(lru)  BY DEF IndInv
<1>2. Serving'  BY <1>1, OneServes
<1>3. Counted'  BY <1>1, OneCounts
<1>4. Tracked' /\ Registered' /\ CacheOK(lru)'  BY <1>1, TrackerSame, RouterSame, CacheSame
<1> QED  BY <1>2, <1>3, <1>4 DEF IndInv

\* The counters are numbers.
LEMMA Numbers ==
    ASSUME IndInv
    PROVE  /\ tally \in [Statuses -> Nat] /\ tally["retry"] \in Nat /\ tally["canceled"] \in Nat
           /\ entered \in Nat /\ attempts \in Nat /\ inflight \in Nat
<1>1. tally \in [Statuses -> Nat] /\ entered \in Nat /\ attempts \in Nat /\ inflight \in Nat
  BY DEF IndInv, Counted, Statuses
<1> QED  BY <1>1 DEF Statuses

\* A request gets its deadline and goes to its first attempt.
LEMMA SetDeadlineStep ==
    ASSUME IndInv, NEW p \in Procs, SetDeadline(p)
    PROVE  IndInv'
<1>1. PICK limit :
          /\ proc[p].pc = "deadline" /\ entered' = entered + 1
          /\ proc' = [proc EXCEPT ![p].pc = "attempt", ![p].limit = limit]
  BY DEF SetDeadline
<1>2. UNCHANGED <<routes, patterns, lru, inflight, tally, tracker, attempts>>  BY DEF SetDeadline, router
<1>3. Serving /\ ProcOK(proc[p])  BY DEF IndInv, Serving
<1>4. PICK x : x = [[proc[p] EXCEPT !.pc = "attempt"] EXCEPT !.limit = limit]  OBVIOUS
<1>5. DOMAIN proc[p] = ProcFields /\ p \in DOMAIN proc  BY <1>3 DEF Serving, ProcOK, ProcFields
<1>6. proc' = [proc EXCEPT ![p] = x]  BY <1>1, <1>4, <1>5 DEF ProcFields
<1>7. /\ DOMAIN x = ProcFields /\ x.pc = "attempt" /\ x.h = proc[p].h /\ x.req = proc[p].req
      /\ x.attempt = proc[p].attempt
  BY <1>4, <1>5 DEF ProcFields
<1>8. ProcOK(x)  BY <1>1, <1>3, <1>7 DEF ProcOK, ProcFields
<1>9. Becomes(p, x)  BY <1>6, <1>8 DEF Becomes
<1>10. Balanced(p, x)
  <2>1. x.pc # "process" /\ proc[p].pc # "process"  BY <1>1, <1>7
  <2>2. x.pc \in {"attempt", "backoff"} /\ proc[p].pc \notin {"attempt", "backoff"}  BY <1>1, <1>7
  <2>3. /\ inflight' = inflight + 0 - 0 /\ entered' \in Nat
        /\ entered' + tally'["retry"] - attempts' - tally'["canceled"]
             = entered + tally["retry"] - attempts - tally["canceled"] + 1 - 0
    BY <1>1, <1>2, Numbers
  <2>4. tally' \in [Statuses -> Nat] /\ attempts' \in Nat  BY <1>2, Numbers
  <2> QED  BY <2>1, <2>2, <2>3, <2>4 DEF Balanced
<1> QED  BY <1>2, <1>9, <1>10, Balance

\* The end of the context is noted, nothing else.
LEMMA ContextEndsStep ==
    ASSUME IndInv, NEW p \in Procs, ContextEnds(p)
    PROVE  IndInv'
<1>1. proc[p].pc \in {"attempt", "process", "backoff"} /\ proc' = [proc EXCEPT ![p].ended = TRUE]  BY DEF ContextEnds
<1>2. UNCHANGED <<routes, patterns, lru, inflight, tally, tracker, entered, attempts>>  BY DEF ContextEnds, router
<1>3. Serving /\ ProcOK(proc[p])  BY DEF IndInv, Serving
<1>4. PICK x : x = [proc[p] EXCEPT !.ended = TRUE]  OBVIOUS
<1>5. DOMAIN proc[p] = ProcFields /\ p \in DOMAIN proc  BY <1>3 DEF Serving, ProcOK, ProcFields
<1>6. proc' = [proc EXCEPT ![p] = x]  BY <1>1, <1>4, <1>5
<1>7. /\ DOMAIN x = ProcFields /\ x.pc = proc[p].pc /\ x.h = proc[p].h /\ x.req = proc[p].req
      /\ x.attempt = proc[p].attempt /\ x.answer = proc[p].answer
  BY <1>4, <1>5 DEF ProcFields
<1>8. ProcOK(x)  BY <1>1, <1>3, <1>7 DEF ProcOK, ProcFields
<1>9. Becomes(p, x)  BY <1>6, <1>8 DEF Becomes
<1>10. Balanced(p, x)
  <2>1. PICK u \in {0, 1} : u = IF x.pc = "process" THEN 1 ELSE 0  OBVIOUS
  <2>2. PICK v \in {0, 1} : v = IF x.pc \in {"attempt", "backoff"} THEN 1 ELSE 0  OBVIOUS
  <2>3. /\ u = (IF proc[p].pc = "process" THEN 1 ELSE 0)
        /\ v = (IF proc[p].pc \in {"attempt", "backoff"} THEN 1 ELSE 0)
    BY <1>7, <2>1, <2>2
  <2>4. /\ inflight' = inflight + u - u
        /\ entered' + tally'["retry"] - attempts' - tally'["canceled"]
             = entered + tally["retry"] - attempts - tally["canceled"] + v - v
    BY <1>2, Numbers
  <2>5. tally' \in [Statuses -> Nat] /\ entered' \in Nat /\ attempts' \in Nat  BY <1>2, Numbers
  <2> QED  BY <2>1, <2>2, <2>3, <2>4, <2>5 DEF Balanced
<1> QED  BY <1>2, <1>9, <1>10, Balance

\* What an attempt leads to: a wait that is counted as a retry, or the end of the request with
\* the answer of the right handler or an error.
LEMMA Judged ==
    ASSUME IndInv, NEW p \in Procs, proc[p].pc \in {"attempt", "process"}, NEW result, AfterAttempt(p, result)
    PROVE  \E x : /\ Becomes(p, x) /\ tally' \in [Statuses -> Nat]
                  /\ \/ x.pc = "backoff" /\ tally'["retry"] = tally["retry"] + 1 /\ tally'["canceled"] = tally["canceled"]
                     \/ x.pc = "record" /\ tally'["retry"] = tally["retry"] /\ tally'["canceled"] = tally["canceled"]
<1>1. PICK more \in BOOLEAN : more = (result \in {"transient", "deadline"} /\ proc[p].attempt < MaxRetries)  OBVIOUS
<1>2. PICK answer : answer = IF result = "ok" THEN DispatchTo(proc[p].h, proc[p].req.method) ELSE "error"  OBVIOUS
<1>3. PICK pc \in {"backoff", "record"} : pc = IF more THEN "backoff" ELSE "record"  OBVIOUS
<1>4. PICK status : status = CASE result = "ok" -> "success" [] more -> "retry"
                          [] result \in {"transient", "deadline"} /\ ~more -> "exhausted" [] OTHER -> "non_retryable"
  OBVIOUS
<1>5. /\ proc' = [proc EXCEPT ![p].pc = pc, ![p].answer = answer]
      /\ tally' = IF result = "ok" /\ proc[p].attempt = 0 THEN tally ELSE [tally EXCEPT ![status] = @ + 1]
  BY <1>1, <1>2, <1>3, <1>4 DEF AfterAttempt
<1>6. Serving /\ ProcOK(proc[p])  BY DEF IndInv, Serving
<1>7. PICK x : x = [[proc[p] EXCEPT !.pc = pc] EXCEPT !.answer = answer]  OBVIOUS
<1>8. DOMAIN proc[p] = ProcFields /\ p \in DOMAIN proc  BY <1>6 DEF Serving, ProcOK, ProcFields
<1>9. proc' = [proc EXCEPT ![p] = x]  BY <1>5, <1>7, <1>8 DEF ProcFields
<1>10. /\ DOMAIN x = ProcFields /\ x.pc = pc /\ x.h = proc[p].h /\ x.req = proc[p].req
       /\ x.attempt = proc[p].attempt /\ x.answer = answer
  BY <1>7, <1>8 DEF ProcFields
<1>11. answer \in {"error", Expected(x.req)} /\ (more => answer = "error" /\ x.attempt < MaxRetries)
  <2>1. Right(proc[p].h, proc[p].req)  BY <1>6 DEF ProcOK
  <2> QED  BY <1>1, <1>2, <1>10, <2>1 DEF Right
<1>12. ProcOK(x)  BY <1>3, <1>6, <1>10, <1>11 DEF ProcOK, ProcFields
<1>13. Becomes(p, x)  BY <1>9, <1>12 DEF Becomes
<1>14. /\ status \in Statuses /\ (more => status = "retry" /\ result # "ok") /\ (~more => status # "retry")
       /\ status # "canceled"
  <2>1. CASE result = "ok"  BY <1>1, <1>4, <2>1 DEF Statuses
  <2>2. CASE result # "ok" /\ more  BY <1>1, <1>4, <2>2 DEF Statuses
  <2>3. CASE result # "ok" /\ ~more
    <3>1. status = "exhausted" \/ status = "non_retryable"  BY <1>4, <2>3
    <3> QED  BY <2>3, <3>1 DEF Statuses
  <2> QED  BY <2>1, <2>2, <2>3
<1>15. tally \in [Statuses -> Nat]  BY Numbers
<1>16. CASE result = "ok" /\ proc[p].attempt = 0
  <2>1. tally' = tally /\ pc = "record"  BY <1>3, <1>5, <1>14, <1>16
  <2> QED  BY <1>10, <1>13, <1>15, <2>1
<1>17. CASE ~(result = "ok" /\ proc[p].attempt = 0)
  <2>1. tally' = [tally EXCEPT ![status] = tally[status] + 1] /\ tally[status] + 1 \in Nat  BY <1>5, <1>14, <1>15, <1>17
  <2>2. tally' \in [Statuses -> Nat] /\ tally'["canceled"] = tally["canceled"]  BY <1>14, <1>15, <2>1 DEF Statuses
  <2>3. tally'["retry"] = IF status = "retry" THEN tally["retry"] + 1 ELSE tally["retry"]
    BY <1>15, <2>1 DEF Statuses
  <2>4. pc = (IF status = "retry" THEN "backoff" ELSE "record")  BY <1>3, <1>14
  <2> QED  BY <1>10, <1>13, <2>2, <2>3, <2>4
<1> QED  BY <1>16, <1>17

\* An attempt that is answered or refused at once counts as one.
LEMMA AttemptAtOnceStep ==
    ASSUME IndInv, NEW p \in Procs, AttemptOptions(p) \/ AttemptRefused(p)
    PROVE  IndInv'
<1>1. proc[p].pc = "attempt" /\ attempts' = attempts + 1 /\ UNCHANGED <<routes, patterns, lru, inflight, tracker, entered>>
  BY DEF AttemptOptions, AttemptRefused, router
<1>2. PICK result : AfterAttempt(p, result)  BY DEF AttemptOptions, AttemptRefused
<1>3. proc[p].pc \in {"attempt", "process"}  BY <1>1
<1>4. PICK x : /\ Becomes(p, x) /\ tally' \in [Statuses -> Nat]
               /\ \/ x.pc = "backoff" /\ tally'["retry"] = tally["retry"] + 1 /\ tally'["canceled"] = tally["canceled"]
                  \/ x.pc = "record" /\ tally'["retry"] = tally["retry"] /\ tally'["canceled"] = tally["canceled"]
  BY <1>2, <1>3, Judged
<1>5. Balanced(p, x)
  <2>1. x.pc # "process" /\ proc[p].pc # "process" /\ proc[p].pc \in {"attempt", "backoff"}  BY <1>1, <1>4
  <2>2. inflight' = inflight + 0 - 0 /\ attempts' \in Nat /\ entered' \in Nat  BY <1>1, Numbers
  <2>3. PICK v \in {0, 1} : v = IF x.pc \in {"attempt", "backoff"} THEN 1 ELSE 0  OBVIOUS
  <2>4. tally'["retry"] = tally["retry"] + v /\ tally'["canceled"] = tally["canceled"]  BY <1>4, <2>3, Numbers
  <2>5. entered' + tally'["retry"] - attempts' - tally'["canceled"]
          = entered + tally["retry"] - attempts - tally["canceled"] + v - 1
    BY <1>1, <2>4, Numbers
  <2> QED  BY <1>4, <2>1, <2>2, <2>3, <2>5 DEF Balanced
<1> QED  BY <1>1, <1>4, <1>5, Balance

\* An attempt that reaches the processor raises the gauge.
LEMMA AttemptStartsStep ==
    ASSUME IndInv, NEW p \in Procs, AttemptStarts(p)
    PROVE  IndInv'
<1>1. /\ proc[p].pc = "attempt" /\ attempts' = attempts + 1 /\ inflight' = inflight + 1 /\ Goto(p, "process")
      /\ UNCHANGED <<routes, patterns, lru, tally, tracker, entered>>
  BY DEF AttemptStarts, router
<1>2. PICK x : x = [proc[p] EXCEPT !.pc = "process"]  OBVIOUS
<1>3. Serving /\ ProcOK(proc[p])  BY DEF IndInv, Serving
<1>4. /\ proc' = [proc EXCEPT ![p] = x] /\ DOMAIN x = ProcFields /\ x.pc = "process"
      /\ x.req = proc[p].req /\ x.h = proc[p].h /\ x.attempt = proc[p].attempt
  <2>1. PICK pc : pc = "process"  OBVIOUS
  <2> QED  BY <1>1, <1>2, <1>3, <2>1, GoesOn
<1>5. ProcOK(x)  BY <1>1, <1>3, <1>4 DEF ProcOK, ProcFields
<1>6. Becomes(p, x)  BY <1>4, <1>5 DEF Becomes
<1>7. Balanced(p, x)
  <2>1. /\ x.pc = "process" /\ proc[p].pc # "process"
        /\ x.pc \notin {"attempt", "backoff"} /\ proc[p].pc \in {"attempt", "backoff"}
    BY <1>1, <1>4
  <2>2. /\ inflight' = inflight + 1 - 0 /\ attempts' \in Nat /\ entered' \in Nat /\ tally' \in [Statuses -> Nat]
        /\ entered' + tally'["retry"] - attempts' - tally'["canceled"]
             = entered + tally["retry"] - attempts - tally["canceled"] + 0 - 1
    BY <1>1, Numbers
  <2> QED  BY <2>1, <2>2 DEF Balanced
<1> QED  BY <1>1, <1>6, <1>7, Balance

\* Whatever the processor did, the gauge is lowered and the result judged.
LEMMA AttemptEndsStep ==
    ASSUME IndInv, NEW p \in Procs, AttemptEnds(p)
    PROVE  IndInv'
<1>1. /\ proc[p].pc = "process" /\ inflight' = inflight - 1
      /\ UNCHANGED <<routes, patterns, lru, tracker, entered, attempts>>
  BY DEF AttemptEnds, router
<1>2. PICK result : AfterAttempt(p, result)
  <2>1. PICK o : IF o = "ok" /\ proc[p].ended THEN \E e \in Errors(p) : AfterAttempt(p, e)
                 ELSE AfterAttempt(p, IF o = "panic" THEN "ok" ELSE o)
    BY DEF AttemptEnds
  <2>2. (\E e : AfterAttempt(p, e)) \/ AfterAttempt(p, IF o = "panic" THEN "ok" ELSE o)  BY <2>1
  <2> QED  BY <2>2
<1>3. proc[p].pc \in {"attempt", "process"}  BY <1>1
<1>4. PICK x : /\ Becomes(p, x) /\ tally' \in [Statuses -> Nat]
               /\ \/ x.pc = "backoff" /\ tally'["retry"] = tally["retry"] + 1 /\ tally'["canceled"] = tally["canceled"]
                  \/ x.pc = "record" /\ tally'["retry"] = tally["retry"] /\ tally'["canceled"] = tally["canceled"]
  BY <1>2, <1>3, Judged
<1>5. Balanced(p, x)
  <2>1. x.pc # "process" /\ proc[p].pc = "process" /\ proc[p].pc \notin {"attempt", "backoff"}  BY <1>1, <1>4
  <2>2. inflight' = inflight + 0 - 1 /\ attempts' \in Nat /\ entered' \in Nat  BY <1>1, Numbers
  <2>3. PICK v \in {0, 1} : v = IF x.pc \in {"attempt", "backoff"} THEN 1 ELSE 0  OBVIOUS
  <2>4. tally'["retry"] = tally["retry"] + v /\ tally'["canceled"] = tally["canceled"]  BY <1>4, <2>3, Numbers
  <2>5. entered' + tally'["retry"] - attempts' - tally'["canceled"]
          = entered + tally["retry"] - attempts - tally["canceled"] + v - 0
    BY <1>1, <2>4, Numbers
  <2> QED  BY <1>4, <2>1, <2>2, <2>3, <2>5 DEF Balanced
<1> QED  BY <1>1, <1>4, <1>5, Balance

\* The wait before a retry ends in the retry or is counted as cancelled.
LEMMA BackoffEndsStep ==
    ASSUME IndInv, NEW p \in Procs, BackoffEnds(p)
    PROVE  IndInv'
<1>1. proc[p].pc = "backoff" /\ UNCHANGED <<routes, patterns, lru, inflight, tracker, entered, attempts>>
  BY DEF BackoffEnds, router
<1>2. Serving /\ ProcOK(proc[p])  BY DEF IndInv, Serving
<1>3. DOMAIN proc[p] = ProcFields /\ p \in DOMAIN proc  BY <1>2 DEF Serving, ProcOK, ProcFields
<1>4. CASE proc' = [proc EXCEPT ![p].pc = "attempt", ![p].attempt = @ + 1] /\ tally' = tally
  <2>1. PICK x : x = [[proc[p] EXCEPT !.pc = "attempt"] EXCEPT !.attempt = proc[p].attempt + 1]  OBVIOUS
  <2>2. proc' = [proc EXCEPT ![p] = x]  BY <1>3, <1>4, <2>1 DEF ProcFields
  <2>3. /\ DOMAIN x = ProcFields /\ x.pc = "attempt" /\ x.h = proc[p].h /\ x.req = proc[p].req
        /\ x.attempt = proc[p].attempt + 1
    BY <1>3, <2>1 DEF ProcFields
  <2>4. x.attempt \in 0..MaxRetries
    <3>1. MaxRetries \in Nat /\ proc[p].attempt \in 0..MaxRetries /\ proc[p].attempt < MaxRetries
      BY <1>1, <1>2, RequestPathAssumption DEF ProcOK
    <3> QED  BY <2>3, <3>1
  <2>5. ProcOK(x)  BY <1>1, <1>2, <2>3, <2>4 DEF ProcOK, ProcFields
  <2>6. Becomes(p, x)  BY <2>2, <2>5 DEF Becomes
  <2>7. Balanced(p, x)
    <3>1. /\ x.pc # "process" /\ proc[p].pc # "process"
          /\ x.pc \in {"attempt", "backoff"} /\ proc[p].pc \in {"attempt", "backoff"}
      BY <1>1, <2>3
    <3>2. /\ inflight' = inflight + 0 - 0 /\ attempts' \in Nat /\ entered' \in Nat /\ tally' \in [Statuses -> Nat]
          /\ entered' + tally'["retry"] - attempts' - tally'["canceled"]
               = entered + tally["retry"] - attempts - tally["canceled"] + 1 - 1
      BY <1>1, <1>4, Numbers
    <3> QED  BY <3>1, <3>2 DEF Balanced
  <2> QED  BY <1>1, <2>6, <2>7, Balance
<1>5. CASE Goto(p, "record") /\ tally' = [tally EXCEPT !["canceled"] = @ + 1]
  <2>1. PICK x : x = [proc[p] EXCEPT !.pc = "record"]  OBVIOUS
  <2>2. /\ proc' = [proc EXCEPT ![p] = x] /\ DOMAIN x = ProcFields /\ x.pc = "record"
        /\ x.req = proc[p].req /\ x.attempt = proc[p].attempt /\ x.answer = proc[p].answer
    <3>1. PICK pc : pc = "record"  OBVIOUS
    <3> QED  BY <1>2, <1>5, <2>1, <3>1, GoesOn
  <2>3. ProcOK(x)  BY <1>1, <1>2, <2>2 DEF ProcOK, ProcFields
  <2>4. Becomes(p, x)  BY <2>2, <2>3 DEF Becomes
  <2>5. /\ tally' \in [Statuses -> Nat] /\ tally'["retry"] = tally["retry"]
        /\ tally'["canceled"] = tally["canceled"] + 1
    <3>1. tally \in [Statuses -> Nat] /\ tally["canceled"] + 1 \in Nat  BY Numbers
    <3> QED  BY <1>5, <3>1 DEF Statuses
  <2>6. Balanced(p, x)
    <3>1. /\ x.pc # "process" /\ proc[p].pc # "process"
          /\ x.pc \notin {"attempt", "backoff"} /\ proc[p].pc \in {"attempt", "backoff"}
      BY <1>1, <2>2
    <3>2. /\ inflight' = inflight + 0 - 0 /\ attempts' \in Nat /\ entered' \in Nat
          /\ entered' + tally'["retry"] - attempts' - tally'["canceled"]
               = entered + tally["retry"] - attempts - tally["canceled"] + 0 - 1
      BY <1>1, <2>5, Numbers
    <3> QED  BY <2>5, <3>1, <3>2 DEF Balanced
  <2> QED  BY <1>1, <2>4, <2>6, Balance
<1> QED  BY <1>4, <1>5 DEF BackoffEnds

\* RecordDuration keeps the ring at the end of the history, and the timeout at its window.
LEMMA RecordDurationStep ==
    ASSUME IndInv, NEW p \in Procs, RecordDuration(p)
    PROVE  IndInv'
<1>1. proc[p].pc = "record" /\ Goto(p, "done") /\ UNCHANGED <<routes, patterns, lru, inflight, tally, entered, attempts>>
  BY DEF RecordDuration, router
<1>2. Serving /\ ProcOK(proc[p]) /\ Counted /\ Registered /\ CacheOK(lru) /\ Tracked  BY DEF IndInv, Serving
<1>3. PICK x : x = [proc[p] EXCEPT !.pc = "done"]  OBVIOUS
<1>4. /\ proc' = [proc EXCEPT ![p] = x] /\ DOMAIN x = ProcFields /\ x.pc = "done"
      /\ x.req = proc[p].req /\ x.attempt = proc[p].attempt /\ x.answer = proc[p].answer
  <2>1. PICK pc : pc = "done"  OBVIOUS
  <2> QED  BY <1>1, <1>2, <1>3, <2>1, GoesOn
<1>5. ProcOK(x)  BY <1>1, <1>2, <1>4 DEF ProcOK, ProcFields
<1>6. Becomes(p, x)  BY <1>4, <1>5 DEF Becomes
<1>7. {x.pc, proc[p].pc} \cap {"process", "attempt", "backoff"} = {}  BY <1>1, <1>4
<1>8. Serving' /\ Counted' /\ Registered' /\ CacheOK(lru)'
  BY <1>1, <1>2, <1>6, <1>7, OneServes, Uncounted, RouterSame, CacheSame
<1>9. PICK r \in Targets : r = Key(p)  BY <1>1, <1>2 DEF ProcOK, Key
<1>10. PICK d \in Durations, by \in BOOLEAN :
          LET s == Recorded(stats[Key(p)], d)
              adjust == (s.total % AdjustmentFreq = 0 \/ by) /\ s.count >= MinDataPoints
          IN  /\ stats' = [stats EXCEPT ![Key(p)] = s]
              /\ hist' = [hist EXCEPT ![Key(p)] = Append(@, d)]
              /\ timeout' = IF adjust THEN Bind(timeout, Key(p), AdjustedTimeout(s)) ELSE timeout
              /\ adjusted' = IF adjust THEN [adjusted EXCEPT ![Key(p)] = Len(hist'[Key(p)])] ELSE adjusted
  BY DEF RecordDuration
<1>11. PICK s : s = Recorded(stats[r], d)  OBVIOUS
<1>12. PICK adjust \in BOOLEAN : adjust = ((s.total % AdjustmentFreq = 0 \/ by) /\ s.count >= MinDataPoints)  OBVIOUS
<1>13. /\ stats' = [stats EXCEPT ![r] = s] /\ hist' = [hist EXCEPT ![r] = Append(hist[r], d)]
       /\ timeout' = IF adjust THEN Bind(timeout, r, AdjustedTimeout(s)) ELSE timeout
       /\ adjusted' = IF adjust THEN [adjusted EXCEPT ![r] = Len(hist'[r])] ELSE adjusted
  <2>1. stats' = [stats EXCEPT ![r] = s] /\ hist' = [hist EXCEPT ![r] = Append(hist[r], d)]  BY <1>9, <1>10, <1>11
  <2>2. timeout' = IF adjust THEN Bind(timeout, r, AdjustedTimeout(s)) ELSE timeout  BY <1>9, <1>10, <1>11, <1>12
  <2>3. adjusted' = IF adjust THEN [adjusted EXCEPT ![r] = Len(hist'[r])] ELSE adjusted
    <3>1. PICK n : n = Len(hist'[r])  OBVIOUS
    <3>2. /\ adjust => adjusted' = [adjusted EXCEPT ![r] = n]
          /\ ~adjust => adjusted' = adjusted
      BY <1>9, <1>10, <1>11, <1>12, <3>1
    <3> QED  BY <3>1, <3>2
  <2> QED  BY <2>1, <2>2, <2>3
<1>14. PICK h \in Seq(Durations) : h = hist[r]  BY <1>2 DEF Tracked, RingOK
<1>15. PICK g \in Seq(Durations) : g = Append(h, d) /\ Len(g) = Len(h) + 1
  <2>1. Append(h, d) \in Seq(Durations) /\ Len(Append(h, d)) = Len(h) + 1  OBVIOUS
  <2> QED  BY <2>1
<1>16. Len(h) \in Nat /\ Len(g) \in Nat /\ Len(g) > 0
  <2>1. Len(h) \in Nat  OBVIOUS
  <2> QED  BY <1>15, <2>1
<1>17. RingOK(s, g)
  <2>1. PICK o : o = stats[r]  OBVIOUS
  <2>2. RingOK(o, h)  BY <1>2, <1>14, <2>1 DEF Tracked
  <2>3. RingOK(Recorded(o, d), Append(h, d))  BY <2>2, RingRecorded
  <2> QED  BY <1>11, <1>15, <2>1, <2>3
<1>18. /\ stats = [k \in Targets |-> stats[k]] /\ hist = [k \in Targets |-> hist[k]]
       /\ adjusted = [k \in Targets |-> adjusted[k]] /\ timeout = [k \in DOMAIN timeout |-> timeout[k]]
  BY <1>2 DEF Tracked
<1>19. /\ stats' = [k \in Targets |-> stats'[k]] /\ stats'[r] = s
       /\ \A k \in Targets : k # r => stats'[k] = stats[k]
  BY <1>13, <1>18
<1>20. /\ hist' = [k \in Targets |-> hist'[k]] /\ hist'[r] = g
       /\ \A k \in Targets : k # r => hist'[k] = hist[k]
  BY <1>13, <1>14, <1>15, <1>18
<1>21. PICK b : b = IF adjust THEN Len(g) ELSE adjusted[r]  OBVIOUS
<1>22. /\ adjusted' = [k \in Targets |-> adjusted'[k]] /\ adjusted'[r] = b
       /\ \A k \in Targets : k # r => adjusted'[k] = adjusted[k]
  <2>1. CASE adjust
    <3>1. adjusted' = [adjusted EXCEPT ![r] = b]  BY <1>13, <1>20, <1>21, <2>1
    <3> QED  BY <1>18, <3>1
  <2>2. CASE ~adjust
    <3>1. adjusted' = adjusted /\ adjusted[r] = b  BY <1>13, <1>21, <2>2
    <3> QED  BY <1>18, <3>1
  <2> QED  BY <2>1, <2>2
<1>23. AdjustedOK(g, b)
  <2>1. PICK a : a = adjusted[r]  OBVIOUS
  <2>2. AdjustedOK(h, a)  BY <1>2, <1>14, <2>1 DEF Tracked
  <2>3. MinDataPoints <= SampleSize /\ Len(g) >= MinDataPoints /\ Len(g) % AdjustmentFreq = 0 => adjust
    <3> SUFFICES ASSUME MinDataPoints <= SampleSize, Len(g) >= MinDataPoints, Len(g) % AdjustmentFreq = 0
                 PROVE  adjust
      BY <1>12
    <3>1. s.total = Len(g) /\ s.count = IF Len(g) < SampleSize THEN Len(g) ELSE SampleSize  BY <1>17 DEF RingOK
    <3>2. s.count >= MinDataPoints  BY <3>1
    <3> QED  BY <1>12, <3>1, <3>2
  <2>4. (adjust => b = Len(g)) /\ (~adjust => b = a)  BY <1>21, <2>1
  <2> QED  BY <1>15, <2>2, <2>3, <2>4, AdjustedNext
<1>24. \A k \in Targets : RingOK(stats'[k], hist'[k]) /\ AdjustedOK(hist'[k], adjusted'[k])
  <2> TAKE k \in Targets
  <2>1. CASE k = r  BY <1>17, <1>19, <1>20, <1>22, <1>23, <2>1
  <2>2. CASE k # r  BY <1>2, <1>19, <1>20, <1>22, <2>2 DEF Tracked
  <2> QED  BY <2>1, <2>2
<1>25. /\ timeout' = [k \in DOMAIN timeout' |-> timeout'[k]] /\ DOMAIN timeout' \subseteq Targets
       /\ \A k \in DOMAIN timeout' : k # r => k \in DOMAIN timeout /\ timeout'[k] = timeout[k]
       /\ adjust => timeout'[r] = AdjustedTimeout(s)
  <2>1. CASE adjust
    <3>1. PICK t : t = AdjustedTimeout(s)  OBVIOUS
    <3>2. timeout' = [k \in DOMAIN timeout \cup {r} |-> IF k = r THEN t ELSE timeout[k]]
      BY <1>13, <2>1, <3>1 DEF Bind
    <3> QED  BY <1>2, <3>1, <3>2 DEF Tracked
  <2>2. CASE ~adjust
    <3>1. timeout' = timeout  BY <1>13, <2>2
    <3> QED  BY <1>2, <2>2, <3>1 DEF Tracked
  <2> QED  BY <2>1, <2>2
<1>26. ASSUME NEW k \in DOMAIN timeout'
       PROVE  /\ adjusted'[k] >= 1 /\ timeout'[k] \in MinTimeout..MaxTimeout
              /\ TimeoutFor(timeout'[k], Window(hist'[k], adjusted'[k]))
  <2>1. CASE k # r
    <3>1. k \in DOMAIN timeout /\ timeout'[k] = timeout[k] /\ k \in Targets  BY <1>2, <1>25, <2>1 DEF Tracked
    <3>2. adjusted'[k] = adjusted[k] /\ hist'[k] = hist[k]  BY <1>20, <1>22, <2>1, <3>1
    <3> QED  BY <1>2, <3>1, <3>2 DEF Tracked
  <2>2. CASE k = r /\ adjust
    <3>1. AdjustedTimeout(s) \in MinTimeout..MaxTimeout /\ TimeoutFor(AdjustedTimeout(s), Window(g, Len(g)))
      BY <1>16, <1>17, TimeoutSet
    <3>2. adjusted'[k] = Len(g) /\ hist'[k] = g /\ timeout'[k] = AdjustedTimeout(s)
      BY <1>20, <1>21, <1>22, <1>25, <2>2
    <3>3. adjusted'[k] >= 1  BY <1>16, <3>2
    <3> QED  BY <3>1, <3>2, <3>3
  <2>3. CASE k = r /\ ~adjust
    <3>1. timeout' = timeout /\ adjusted'[k] = adjusted[r] /\ hist'[k] = g  BY <1>13, <1>20, <1>21, <1>22, <2>3
    <3>2. PICK a : a = adjusted[r]  OBVIOUS
    <3>3. /\ a >= 1 /\ timeout[r] \in MinTimeout..MaxTimeout /\ TimeoutFor(timeout[r], Window(h, a))
          /\ AdjustedOK(h, a)
      BY <1>2, <1>14, <2>3, <3>1, <3>2 DEF Tracked
    <3>4. a \in 1..Len(h)
      <4>1. a \in 0..Len(h)  BY <3>3 DEF AdjustedOK
      <4> QED  BY <1>16, <3>3, <4>1
    <3>5. Window(g, a) = Window(h, a)  BY <1>15, <3>4, WindowKept
    <3> QED  BY <2>3, <3>1, <3>2, <3>3, <3>5
  <2> QED  BY <2>1, <2>2, <2>3
<1>27. Tracked'  BY <1>19, <1>20, <1>22, <1>24, <1>25, <1>26 DEF Tracked
<1> QED  BY <1>8, <1>27 DEF IndInv

-----------------------------------------------------------------------------
(* Handle while requests are served *)

\* What a goroutine x may be if the old handlers are gone.
RenewedProc(x) ==
    /\ x.fresh => Replaced(x.req.path)
    /\ x.pc = "put" /\ NotOvertaken(x.req.path) => x.h = routes[x.req.path]
    /\ x.pc \in Chosen /\ x.fresh /\ x.req.path \notin overtaken => x.h = routes[x.req.path]

\* What a cache c may be.
RenewedCache(c) ==
    \A k \in DOMAIN c.map : NotOvertaken(k.path) /\ k.path \notin late => Entry(c, k) = routes[k.path]

\* One goroutine goes on, with any change of the cache, and Handle does nothing.
LEMMA OneRenews ==
    ASSUME Renewed, Serving, NEW p \in Procs, NEW x, proc' = [proc EXCEPT ![p] = x], RenewedProc(x),
           UNCHANGED <<routes, late, overtaken>>, RenewedCache(lru')
    PROVE  Renewed'
<1>1. proc'[p] = x /\ \A q \in Procs : q # p => proc'[q] = proc[q]  BY DEF Serving
<1>2. \A q \in Procs : RenewedProc(proc[q]) /\ RenewedProc(x)  BY DEF Renewed, RenewedProc
<1>3. \A q \in Procs : RenewedProc(proc'[q])
  <2> TAKE q \in Procs
  <2>1. CASE q = p  BY <1>1, <1>2, <2>1
  <2>2. CASE q # p  BY <1>1, <1>2, <2>2
  <2> QED  BY <2>1, <2>2
<1>4. \A path \in late' : routes'[path].gen = 1  BY DEF Renewed
<1>5. (\A k \in DOMAIN lru.map : NotOvertaken(k.path) /\ k.path \notin late => lru.nodes[lru.map[k]].h = routes[k.path])'
  BY DEF RenewedCache, Entry, NotOvertaken
<1>6. \A q \in Procs : /\ proc'[q].fresh => Replaced(proc'[q].req.path)
                       /\ proc'[q].pc = "put" /\ NotOvertaken(proc'[q].req.path) => proc'[q].h = routes[proc'[q].req.path]
                       /\ proc'[q].pc \in Chosen /\ proc'[q].fresh /\ proc'[q].req.path \notin overtaken =>
                             proc'[q].h = routes[proc'[q].req.path]
  BY <1>3 DEF RenewedProc
<1>7. (\A q \in Procs : proc[q].fresh => Replaced(proc[q].req.path))'  BY <1>6 DEF Replaced
<1>8. (\A q \in Procs : proc[q].pc = "put" /\ NotOvertaken(proc[q].req.path) => proc[q].h = routes[proc[q].req.path])'
  BY <1>6 DEF NotOvertaken
<1>9. \A q \in Procs : proc'[q].pc \in Chosen /\ proc'[q].fresh /\ proc'[q].req.path \notin overtaken' =>
                           proc'[q].h = routes'[proc'[q].req.path]
  BY <1>6
<1> QED  BY <1>4, <1>5, <1>7, <1>8, <1>9 DEF Renewed

\* A cache with entries of the old one only.
LEMMA FewerRenewed ==
    ASSUME Renewed, NEW d, Fewer(lru, d)
    PROVE  RenewedCache(d)
BY DEF Renewed, RenewedCache, Fewer, Entry

\* A goroutine that keeps its request and its handler.
LEMMA KeepsHandler ==
    ASSUME Renewed, Serving, NEW p \in Procs, NEW x, proc' = [proc EXCEPT ![p] = x],
           x.req = proc[p].req, x.fresh = proc[p].fresh, x.h = proc[p].h,
           x.pc # "put", x.pc \in Chosen => proc[p].pc \in Chosen,
           UNCHANGED <<routes, late, overtaken>>, Fewer(lru, lru')
    PROVE  Renewed'
<1>1. RenewedProc(x)  BY DEF Renewed, RenewedProc
<1>2. RenewedCache(lru')  BY FewerRenewed
<1> QED  BY <1>1, <1>2, OneRenews

\* Steps that do not choose a handler.
LEMMA OthersRenew ==
    ASSUME IndInv, Renewed, NEW p \in Procs,
           \/ CacheMiss(p) \/ CacheExpired(p) \/ CacheEvict(p) \/ CachePromote(p)
           \/ SetDeadline(p) \/ ContextEnds(p) \/ AttemptOptions(p) \/ AttemptRefused(p) \/ AttemptStarts(p)
           \/ AttemptEnds(p) \/ BackoffEnds(p) \/ RecordDuration(p)
    PROVE  Renewed'
<1>1. Serving /\ CacheOK(lru) /\ DOMAIN proc[p] = ProcFields /\ p \in DOMAIN proc
  BY DEF IndInv, Serving, ProcOK, ProcFields
<1>2. UNCHANGED <<routes, late, overtaken>>
  BY DEF CacheMiss, CacheExpired, CacheEvict, CachePromote, SetDeadline, ContextEnds, AttemptOptions, AttemptRefused,
         AttemptStarts, AttemptEnds, BackoffEnds, RecordDuration, router
<1>3. Fewer(lru, lru')
  <2>1. CASE lru' = lru  BY <2>1 DEF Fewer
  <2>2. CASE CacheEvict(p)
    <3>1. lru' = EvictKey(lru, Key(p))  BY <2>2 DEF CacheEvict
    <3> QED  BY <1>1, <3>1, EntryEvicted
  <2>3. CASE CachePromote(p)
    <3>1. lru' = lru \/ lru' = MoveToFront(lru, proc[p].node)  BY <2>3 DEF CachePromote
    <3> QED  BY <1>1, <2>1, <3>1, NodeMoved
  <2> QED  BY <2>1, <2>2, <2>3
    DEF CacheMiss, CacheExpired, SetDeadline, ContextEnds, AttemptOptions, AttemptRefused, AttemptStarts, AttemptEnds,
        BackoffEnds, RecordDuration, router
<1>4. \E x : /\ proc' = [proc EXCEPT ![p] = x] /\ x.req = proc[p].req /\ x.fresh = proc[p].fresh /\ x.h = proc[p].h
             /\ x.pc # "put" /\ (x.pc \in Chosen => proc[p].pc \in Chosen)
  <2>1. ASSUME NEW pc, Goto(p, pc), pc # "put", pc \in Chosen => proc[p].pc \in Chosen
        PROVE  \E x : /\ proc' = [proc EXCEPT ![p] = x] /\ x.req = proc[p].req /\ x.fresh = proc[p].fresh
                      /\ x.h = proc[p].h /\ x.pc # "put" /\ (x.pc \in Chosen => proc[p].pc \in Chosen)
    <3>1. PICK x : x = [proc[p] EXCEPT !.pc = pc]  OBVIOUS
    <3>2. proc' = [proc EXCEPT ![p] = x]  BY <1>1, <2>1, <3>1 DEF Goto
    <3>3. x.req = proc[p].req /\ x.fresh = proc[p].fresh /\ x.h = proc[p].h /\ x.pc = pc  BY <1>1, <3>1 DEF ProcFields
    <3> QED  BY <2>1, <3>2, <3>3
  <2>2. CASE CacheMiss(p) \/ CacheEvict(p)
    <3>1. PICK pc : pc = "load" /\ Goto(p, pc)  BY <2>2 DEF CacheMiss, CacheEvict
    <3>2. pc # "put" /\ pc \notin Chosen  BY <3>1 DEF Chosen
    <3> QED  BY <2>1, <3>1, <3>2
  <2>3. CASE CacheExpired(p)
    <3>1. PICK pc : pc = "evict" /\ Goto(p, pc)  BY <2>3 DEF CacheExpired
    <3>2. pc # "put" /\ pc \notin Chosen  BY <3>1 DEF Chosen
    <3> QED  BY <2>1, <3>1, <3>2
  <2>4. CASE CachePromote(p)
    <3>1. proc' = [proc EXCEPT ![p].pc = "deadline", ![p].node = 0] /\ proc[p].pc \in Chosen  BY <2>4 DEF CachePromote, Chosen
    <3>2. PICK x : x = [[proc[p] EXCEPT !.pc = "deadline"] EXCEPT !.node = 0]  OBVIOUS
    <3>3. proc' = [proc EXCEPT ![p] = x]  BY <1>1, <3>1, <3>2 DEF ProcFields
    <3>4. x.req = proc[p].req /\ x.fresh = proc[p].fresh /\ x.h = proc[p].h /\ x.pc = "deadline"
      BY <1>1, <3>2 DEF ProcFields
    <3> QED  BY <3>1, <3>3, <3>4
  <2>5. CASE SetDeadline(p)
    <3>1. PICK l : proc' = [proc EXCEPT ![p].pc = "attempt", ![p].limit = l]  BY <2>5 DEF SetDeadline
    <3>2. PICK x : x = [[proc[p] EXCEPT !.pc = "attempt"] EXCEPT !.limit = l]  OBVIOUS
    <3>3. proc' = [proc EXCEPT ![p] = x]  BY <1>1, <3>1, <3>2 DEF ProcFields
    <3>4. x.req = proc[p].req /\ x.fresh = proc[p].fresh /\ x.h = proc[p].h /\ x.pc = "attempt"
      BY <1>1, <3>2 DEF ProcFields
    <3>5. proc[p].pc \in Chosen  BY <2>5 DEF SetDeadline, Chosen
    <3> QED  BY <3>3, <3>4, <3>5
  <2>6. CASE ContextEnds(p)
    <3>1. proc' = [proc EXCEPT ![p].ended = TRUE]  BY <2>6 DEF ContextEnds
    <3>2. PICK x : x = [proc[p] EXCEPT !.ended = TRUE]  OBVIOUS
    <3>3. proc' = [proc EXCEPT ![p] = x]  BY <1>1, <3>1, <3>2 DEF ProcFields
    <3>4. x.req = proc[p].req /\ x.fresh = proc[p].fresh /\ x.h = proc[p].h /\ x.pc = proc[p].pc
      BY <1>1, <3>2 DEF ProcFields
    <3>5. proc[p].pc # "put"  BY <2>6 DEF ContextEnds
    <3> QED  BY <3>3, <3>4, <3>5
  <2>7. CASE AttemptOptions(p) \/ AttemptRefused(p) \/ AttemptEnds(p)
    <3>1. PICK result : AfterAttempt(p, result)  BY <2>7 DEF AttemptOptions, AttemptRefused, AttemptEnds
    <3>2. PICK pc \in {"backoff", "record"} : \E a : proc' = [proc EXCEPT ![p].pc = pc, ![p].answer = a]
      BY <3>1 DEF AfterAttempt
    <3>3. PICK a : proc' = [proc EXCEPT ![p].pc = pc, ![p].answer = a]  BY <3>2
    <3>4. PICK x : x = [[proc[p] EXCEPT !.pc = pc] EXCEPT !.answer = a]  OBVIOUS
    <3>5. proc' = [proc EXCEPT ![p] = x]  BY <1>1, <3>3, <3>4 DEF ProcFields
    <3>6. x.req = proc[p].req /\ x.fresh = proc[p].fresh /\ x.h = proc[p].h /\ x.pc = pc  BY <1>1, <3>4 DEF ProcFields
    <3>7. proc[p].pc \in Chosen  BY <2>7 DEF AttemptOptions, AttemptRefused, AttemptEnds, Chosen
    <3>8. pc # "put"  OBVIOUS
    <3> QED  BY <3>5, <3>6, <3>7, <3>8
  <2>8. CASE AttemptStarts(p)
    <3>1. PICK pc : pc = "process" /\ Goto(p, pc)  BY <2>8 DEF AttemptStarts
    <3>2. pc # "put" /\ proc[p].pc \in Chosen  BY <2>8, <3>1 DEF AttemptStarts, Chosen
    <3> QED  BY <2>1, <3>1, <3>2
  <2>9. CASE BackoffEnds(p)
    <3>1. proc[p].pc \in Chosen  BY <2>9 DEF BackoffEnds, Chosen
    <3>2. CASE Goto(p, "record")
      <4>1. PICK pc : pc = "record" /\ Goto(p, pc)  BY <3>2
      <4>2. pc # "put"  BY <4>1
      <4> QED  BY <2>1, <3>1, <4>1, <4>2
    <3>3. CASE proc' = [proc EXCEPT ![p].pc = "attempt", ![p].attempt = @ + 1]
      <4>1. PICK x : x = [[proc[p] EXCEPT !.pc = "attempt"] EXCEPT !.attempt = proc[p].attempt + 1]  OBVIOUS
      <4>2. proc' = [proc EXCEPT ![p] = x]  BY <1>1, <3>3, <4>1 DEF ProcFields
      <4>3. x.req = proc[p].req /\ x.fresh = proc[p].fresh /\ x.h = proc[p].h /\ x.pc = "attempt"
        BY <1>1, <4>1 DEF ProcFields
      <4> QED  BY <3>1, <4>2, <4>3
    <3> QED  BY <2>9, <3>2, <3>3 DEF BackoffEnds
  <2>10. CASE RecordDuration(p)
    <3>1. PICK pc : pc = "done" /\ Goto(p, pc)  BY <2>10 DEF RecordDuration
    <3>2. pc # "put" /\ proc[p].pc \in Chosen  BY <2>10, <3>1 DEF RecordDuration, Chosen
    <3> QED  BY <2>1, <3>1, <3>2
  <2> QED  BY <2>2, <2>3, <2>4, <2>5, <2>6, <2>7, <2>8, <2>9, <2>10
<1>5. PICK x : /\ proc' = [proc EXCEPT ![p] = x] /\ x.req = proc[p].req /\ x.fresh = proc[p].fresh /\ x.h = proc[p].h
              /\ x.pc # "put" /\ (x.pc \in Chosen => proc[p].pc \in Chosen)
  BY <1>4
<1> QED  BY <1>1, <1>2, <1>3, <1>5, KeepsHandler

\* A new request notes whether Handle has returned.
LEMMA BeginRenews ==
    ASSUME IndInv, Renewed, NEW p \in Procs, Begin(p)
    PROVE  Renewed'
<1>1. PICK r \in Targets :
          proc' = [proc EXCEPT ![p] = [Idle EXCEPT !.pc = "get", !.req = r, !.serves = proc[p].serves + 1,
                                                   !.fresh = Replaced(r.path)]]
  BY DEF Begin
<1>2. PICK x : x = [Idle EXCEPT !.pc = "get", !.req = r, !.serves = proc[p].serves + 1, !.fresh = Replaced(r.path)]
  OBVIOUS
<1>3. x.pc = "get" /\ x.req = r /\ x.fresh = Replaced(r.path)  BY <1>2 DEF Idle
<1>4. RenewedProc(x)  BY <1>3 DEF RenewedProc, Chosen
<1>5. proc' = [proc EXCEPT ![p] = x]  BY <1>1, <1>2
<1>6. UNCHANGED <<routes, late, overtaken, lru>>  BY DEF Begin, router
<1>7. Fewer(lru, lru')  BY <1>6 DEF Fewer
<1>8. RenewedCache(lru')  BY <1>7, FewerRenewed
<1> QED  BY <1>4, <1>5, <1>6, <1>8, OneRenews DEF IndInv

\* A request that begins after Handle returned finds the cache cleared of the old handler.
LEMMA HitRenews ==
    ASSUME IndInv, Renewed, NEW p \in Procs, CacheHit(p)
    PROVE  Renewed'
<1>1. PICK n, count :
          /\ proc[p].pc = "get" /\ Key(p) \in DOMAIN lru.map /\ n = lru.map[Key(p)]
          /\ lru' = [lru EXCEPT !.nodes[n].count = count]
          /\ proc' = [proc EXCEPT ![p].node = n, ![p].h = lru.nodes[n].h,
                        ![p].pc = IF count % PromoteEvery = 0 THEN "promote" ELSE "deadline"]
  BY DEF CacheHit
<1>2. UNCHANGED <<routes, late, overtaken>>  BY DEF CacheHit
<1>3. Serving /\ CacheOK(lru) /\ DOMAIN proc[p] = ProcFields /\ p \in DOMAIN proc
  BY DEF IndInv, Serving, ProcOK, ProcFields
<1>4. PICK pc \in {"promote", "deadline"} : pc = IF count % PromoteEvery = 0 THEN "promote" ELSE "deadline"
  OBVIOUS
<1>5. PICK h : h = lru.nodes[n].h  OBVIOUS
<1>6. PICK x : x = [[[proc[p] EXCEPT !.node = n] EXCEPT !.h = h] EXCEPT !.pc = pc]  OBVIOUS
<1>7. proc' = [proc EXCEPT ![p] = x]  BY <1>1, <1>3, <1>4, <1>5, <1>6 DEF ProcFields
<1>8. x.pc = pc /\ x.h = h /\ x.req = proc[p].req /\ x.fresh = proc[p].fresh  BY <1>3, <1>6 DEF ProcFields
<1>9. RenewedProc(x)
  <2>1. x.fresh => Replaced(x.req.path)  BY <1>8 DEF Renewed
  <2>2. Replaced(x.req.path) /\ x.req.path \notin overtaken => h = routes[x.req.path]
    BY <1>1, <1>5, <1>8 DEF Renewed, Replaced, NotOvertaken, Key
  <2> QED  BY <1>4, <1>8, <2>1, <2>2 DEF RenewedProc
<1>10. n \in DOMAIN lru.nodes  BY <1>1, <1>3 DEF CacheOK
<1>11. Fewer(lru, lru')
  <2>1. PICK d : d = lru'  OBVIOUS
  <2>2. Fewer(lru, d)  BY <1>1, <1>3, <1>10, <2>1, EntryCounted
  <2> QED  BY <2>1, <2>2
<1>12. RenewedCache(lru')  BY <1>11, FewerRenewed
<1> QED  BY <1>2, <1>3, <1>7, <1>9, <1>12, OneRenews

\* The table has the new handler.
LEMMA LookupRenews ==
    ASSUME IndInv, Renewed, NEW p \in Procs, LookupRoute(p)
    PROVE  Renewed'
<1>1. UNCHANGED <<routes, late, overtaken, lru>>  BY DEF LookupRoute, router
<1>2. Serving /\ DOMAIN proc[p] = ProcFields /\ p \in DOMAIN proc  BY DEF IndInv, Serving, ProcOK, ProcFields
<1>3. Fewer(lru, lru')  BY <1>1 DEF Fewer
<1>4. RenewedCache(lru')  BY <1>3, FewerRenewed
<1>5. PICK path : path = proc[p].req.path  OBVIOUS
<1>6. CASE path \in DOMAIN routes
  <2>1. PICK h : h = routes[path]  OBVIOUS
  <2>2. PICK x : x = [[proc[p] EXCEPT !.pc = "put"] EXCEPT !.h = h]  OBVIOUS
  <2>3. proc' = [proc EXCEPT ![p].pc = "put", ![p].h = h]  BY <1>5, <1>6, <2>1 DEF LookupRoute
  <2>4. proc' = [proc EXCEPT ![p] = x]  BY <1>2, <2>2, <2>3 DEF ProcFields
  <2>5. x.pc = "put" /\ x.h = h /\ x.req = proc[p].req /\ x.fresh = proc[p].fresh  BY <1>2, <2>2 DEF ProcFields
  <2>6. RenewedProc(x)  BY <1>5, <2>1, <2>5 DEF RenewedProc, Renewed
  <2> QED  BY <1>1, <1>2, <1>4, <2>4, <2>6, OneRenews
<1>7. CASE path \notin DOMAIN routes
  <2>1. Goto(p, "pattern")  BY <1>5, <1>7 DEF LookupRoute
  <2>2. PICK x : x = [proc[p] EXCEPT !.pc = "pattern"]  OBVIOUS
  <2>3. proc' = [proc EXCEPT ![p] = x]  BY <1>2, <2>1, <2>2 DEF Goto
  <2>4. x.pc = "pattern" /\ x.h = proc[p].h /\ x.req = proc[p].req /\ x.fresh = proc[p].fresh
    BY <1>2, <2>2 DEF ProcFields
  <2>5. RenewedProc(x)  BY <2>4 DEF RenewedProc, Renewed, Chosen
  <2> QED  BY <1>1, <1>2, <1>4, <2>3, <2>5, OneRenews
<1> QED  BY <1>6, <1>7

\* What is put into the cache is not an old handler.
LEMMA PutRenews ==
    ASSUME IndInv, Renewed, NEW p \in Procs, CachePut(p)
    PROVE  Renewed'
<1>1. /\ proc[p].pc = "put" /\ lru' = PutEntry(lru, Key(p), proc[p].h) /\ Goto(p, "deadline")
      /\ UNCHANGED <<routes, late, overtaken>>
  BY DEF CachePut
<1>2. /\ Serving /\ CacheOK(lru) /\ DOMAIN proc[p] = ProcFields /\ p \in DOMAIN proc
      /\ proc[p].req \in Targets /\ Right(proc[p].h, proc[p].req)
  BY <1>1 DEF IndInv, Serving, ProcOK, ProcFields
<1>3. PICK r \in Targets : r = proc[p].req  BY <1>2
<1>4. PICK h : h = proc[p].h  OBVIOUS
<1>5. NotOvertaken(r.path) => h = routes[r.path]  BY <1>1, <1>3, <1>4 DEF Renewed
<1>6. RenewedCache(lru')
  <2>1. PICK d : d = PutEntry(lru, r, h)  OBVIOUS
  <2>2. PutsInto(lru, r, h, d)  BY <1>2, <1>3, <1>4, <2>1, EntryPut
  <2>3. RenewedCache(d)
    <3> SUFFICES ASSUME NEW k \in DOMAIN d.map, NotOvertaken(k.path), k.path \notin late
                 PROVE  Entry(d, k) = routes[k.path]
      BY DEF RenewedCache
    <3>1. CASE k = r  BY <1>5, <2>2, <3>1 DEF PutsInto
    <3>2. CASE k # r
      <4>1. k \in DOMAIN lru.map /\ Entry(d, k) = Entry(lru, k)  BY <2>2, <3>2 DEF PutsInto
      <4> QED  BY <4>1 DEF Renewed, Entry
    <3> QED  BY <3>1, <3>2
  <2>4. lru' = d  BY <1>1, <1>3, <1>4, <2>1 DEF Key
  <2> QED  BY <2>3, <2>4
<1>7. PICK x : x = [proc[p] EXCEPT !.pc = "deadline"]  OBVIOUS
<1>8. proc' = [proc EXCEPT ![p] = x]  BY <1>1, <1>2, <1>7 DEF Goto
<1>9. x.pc = "deadline" /\ x.h = h /\ x.req = r /\ x.fresh = proc[p].fresh  BY <1>2, <1>3, <1>4, <1>7 DEF ProcFields
<1>10. RenewedProc(x)
  <2>1. x.fresh => Replaced(r.path)  BY <1>3, <1>9 DEF Renewed
  <2>2. Replaced(r.path) /\ r.path \notin overtaken => NotOvertaken(r.path)  BY DEF Replaced, NotOvertaken
  <2> QED  BY <1>5, <1>9, <2>1, <2>2 DEF RenewedProc
<1> QED  BY <1>1, <1>2, <1>6, <1>8, <1>10, OneRenews

\* A path that Handle was called for is in the table, never left to the patterns.
LEMMA PatternsRenew ==
    ASSUME IndInv, Renewed, NEW p \in Procs, MatchPatterns(p)
    PROVE  Renewed'
<1>1. UNCHANGED <<routes, late, overtaken, lru>> /\ proc[p].pc = "pattern"  BY DEF MatchPatterns, router
<1>2. Serving /\ DOMAIN proc[p] = ProcFields /\ p \in DOMAIN proc  BY DEF IndInv, Serving, ProcOK, ProcFields
<1>3. Fewer(lru, lru')  BY <1>1 DEF Fewer
<1>4. RenewedCache(lru')  BY <1>3, FewerRenewed
<1>5. proc[p].req.path \notin DOMAIN RegisteredRoutes  BY <1>1 DEF IndInv, Serving, ProcOK
<1>6. ~proc[p].fresh  BY <1>5, LateAssumption DEF Renewed, Replaced
<1>7. \E x : proc' = [proc EXCEPT ![p] = x] /\ x.pc # "put" /\ x.fresh = proc[p].fresh
  <2>1. CASE proc' = [proc EXCEPT ![p].pc = "done", ![p].answer = "404"]
    <3>1. PICK x : x = [[proc[p] EXCEPT !.pc = "done"] EXCEPT !.answer = "404"]  OBVIOUS
    <3>2. proc' = [proc EXCEPT ![p] = x]  BY <1>2, <2>1, <3>1 DEF ProcFields
    <3>3. x.pc = "done" /\ x.fresh = proc[p].fresh  BY <1>2, <3>1 DEF ProcFields
    <3> QED  BY <3>2, <3>3
  <2>2. ASSUME NEW h, proc' = [proc EXCEPT ![p].pc = "deadline", ![p].h = h]
        PROVE  \E x : proc' = [proc EXCEPT ![p] = x] /\ x.pc # "put" /\ x.fresh = proc[p].fresh
    <3>1. PICK x : x = [[proc[p] EXCEPT !.pc = "deadline"] EXCEPT !.h = h]  OBVIOUS
    <3>2. proc' = [proc EXCEPT ![p] = x]  BY <1>2, <2>2, <3>1 DEF ProcFields
    <3>3. x.pc = "deadline" /\ x.fresh = proc[p].fresh  BY <1>2, <3>1 DEF ProcFields
    <3> QED  BY <3>2, <3>3
  <2>3. \/ proc' = [proc EXCEPT ![p].pc = "done", ![p].answer = "404"]
        \/ \E h : proc' = [proc EXCEPT ![p].pc = "deadline", ![p].h = h]
    BY DEF MatchPatterns
  <2> QED  BY <2>1, <2>2, <2>3
<1>8. PICK x : proc' = [proc EXCEPT ![p] = x] /\ x.pc # "put" /\ x.fresh = proc[p].fresh  BY <1>7
<1>9. RenewedProc(x)  BY <1>6, <1>8 DEF RenewedProc
<1> QED  BY <1>1, <1>2, <1>4, <1>8, <1>9, OneRenews

\* Handle: the store notes the old handlers on their way into the cache, the clearing drops those in it.
LEMMA HandleRenews ==
    ASSUME IndInv, Renewed, HandleStores \/ HandleClears
    PROVE  Renewed'
<1>1. proc' = proc  BY DEF HandleStores, HandleClears
<1>2. CASE HandleStores
  <2>1. PICK path \in LatePaths :
            /\ routes[path].gen = 0 /\ routes' = [routes EXCEPT ![path].gen = 1] /\ late' = late \cup {path}
            /\ overtaken' = IF \E p \in Procs : proc[p].pc = "put" /\ proc[p].req.path = path
                            THEN overtaken \cup {path} ELSE overtaken
    BY <1>2 DEF HandleStores
  <2>2. lru' = lru  BY <1>2 DEF HandleStores
  <2>3. /\ path \in DOMAIN routes /\ DOMAIN routes[path] = {"ep", "gen", "allowed"}
        /\ routes = [q \in DOMAIN RegisteredRoutes |-> routes[q]]
    BY <2>1, LateAssumption DEF IndInv, Registered
  <2>4. routes'[path].gen = 1 /\ \A q : q # path => routes'[q] = routes[q]
    <3>1. routes'[path] = [routes[path] EXCEPT !.gen = 1]  BY <2>1, <2>3
    <3>2. routes'[path].gen = 1  BY <2>3, <3>1
    <3> QED  BY <2>1, <2>3, <3>2
  <2>5. \A q \in late' : routes'[q].gen = 1  BY <2>1, <2>4 DEF Renewed
  <2>6. \A q : Replaced(q) => q # path /\ Replaced(q)'
    <3>1. 0 # 1  OBVIOUS
    <3> QED  BY <2>1, <2>4, <3>1 DEF Replaced
  <2>7. \A q : NotOvertaken(q)' /\ q # path => NotOvertaken(q)  BY <2>1, <2>4 DEF NotOvertaken
  <2>8. (\A p \in Procs : proc[p].fresh => Replaced(proc[p].req.path))'  BY <1>1, <2>6 DEF Renewed, Replaced
  <2>9. ASSUME NEW p \in Procs, proc[p].pc = "put", NotOvertaken(proc[p].req.path)'
        PROVE  proc[p].h = routes'[proc[p].req.path]
    <3>1. proc[p].req.path # path  BY <1>1, <2>1, <2>9 DEF NotOvertaken
    <3> QED  BY <1>1, <2>4, <2>7, <2>9, <3>1 DEF Renewed
  <2>10. ASSUME NEW k \in DOMAIN lru.map, NotOvertaken(k.path)', k.path \notin late'
         PROVE  lru.nodes[lru.map[k]].h = routes'[k.path]
    <3>1. k.path # path /\ k.path \notin late  BY <2>1, <2>10
    <3> QED  BY <2>4, <2>7, <2>10, <3>1 DEF Renewed
  <2>11. ASSUME NEW p \in Procs, proc[p].pc \in Chosen, proc[p].fresh, proc[p].req.path \notin overtaken'
         PROVE  proc[p].h = routes'[proc[p].req.path]
    <3>1. proc[p].req.path # path  BY <2>6, <2>11 DEF Renewed
    <3>2. proc[p].req.path \notin overtaken  BY <2>1, <2>11
    <3> QED  BY <2>4, <2>11, <3>1, <3>2 DEF Renewed
  <2> QED  BY <1>1, <2>2, <2>5, <2>8, <2>9, <2>10, <2>11 DEF Renewed
<1>3. CASE HandleClears
  <2>1. /\ UNCHANGED <<routes, overtaken>> /\ lru' = [lru EXCEPT !.map = <<>>, !.head = 0, !.tail = 0]
        /\ late' \subseteq late
    BY <1>3 DEF HandleClears
  <2>2. DOMAIN lru'.map = {}
    <3>1. PICK e : e = <<>> /\ DOMAIN e = {}  OBVIOUS
    <3>2. lru'.map = e  BY <2>1, <3>1 DEF IndInv, CacheOK
    <3> QED  BY <3>1, <3>2
  <2>3. \A q : (Replaced(q) => Replaced(q)') /\ (NotOvertaken(q)' => NotOvertaken(q))  BY <2>1 DEF Replaced, NotOvertaken
  <2> QED  BY <1>1, <2>1, <2>2, <2>3 DEF Renewed
<1> QED  BY <1>2, <1>3

\* Together.
LEMMA NextRenews == IndInv /\ Renewed /\ [Next]_vars => Renewed'
<1> SUFFICES ASSUME IndInv, Renewed, [Next]_vars  PROVE Renewed'  OBVIOUS
<1>1. CASE HandleStores \/ HandleClears  BY <1>1, HandleRenews
<1>2. ASSUME NEW p \in Procs, Step(p)  PROVE Renewed'
  BY <1>2, BeginRenews, HitRenews, LookupRenews, PutRenews, PatternsRenew, OthersRenew DEF Step
<1>3. CASE UNCHANGED vars  BY <1>3 DEF vars, router, Renewed, Replaced, NotOvertaken
<1> QED  BY <1>1, <1>2, <1>3 DEF Next

-----------------------------------------------------------------------------
(* The theorems *)

\* Nothing changes in a step of the environment.
LEMMA Stuttering ==
    ASSUME IndInv, UNCHANGED vars
    PROVE  IndInv'
<1>1. UNCHANGED <<routes, patterns, lru, proc, inflight, tally, tracker, entered, attempts>>  BY DEF vars, router
<1>2. Serving /\ Counted /\ Registered /\ CacheOK(lru) /\ Tracked  BY DEF IndInv
<1>3. Tracked' /\ Registered' /\ CacheOK(lru)'  BY <1>1, <1>2, TrackerSame, RouterSame, CacheSame
<1>4. Serving'  BY <1>1, <1>2 DEF Serving
<1>5. Counted'  BY <1>1, <1>2 DEF Counted, RetriesAddUp, At
<1> QED  BY <1>3, <1>4, <1>5 DEF IndInv

\* Every step of the router, the goroutines and the middlewares keeps the invariant.
LEMMA NextStep == IndInv /\ [Next]_vars => IndInv'
<1> SUFFICES ASSUME IndInv, [Next]_vars  PROVE IndInv'  OBVIOUS
<1>1. CASE HandleStores \/ HandleClears  BY <1>1, HandleStep
<1>2. ASSUME NEW p \in Procs, Step(p)  PROVE IndInv'
  <2>1. CASE Begin(p)  BY <2>1, BeginStep
  <2>2. CASE CacheMiss(p) \/ CacheExpired(p)  BY <2>2, CacheMissStep
  <2>3. CASE CacheEvict(p)  BY <2>3, CacheEvictStep
  <2>4. CASE CacheHit(p)  BY <2>4, CacheHitStep
  <2>5. CASE CachePromote(p)  BY <2>5, CachePromoteStep
  <2>6. CASE LookupRoute(p)  BY <2>6, LookupRouteStep
  <2>7. CASE CachePut(p)  BY <2>7, CachePutStep
  <2>8. CASE MatchPatterns(p)  BY <2>8, MatchPatternsStep
  <2>9. CASE SetDeadline(p)  BY <2>9, SetDeadlineStep
  <2>10. CASE ContextEnds(p)  BY <2>10, ContextEndsStep
  <2>11. CASE AttemptOptions(p) \/ AttemptRefused(p)  BY <2>11, AttemptAtOnceStep
  <2>12. CASE AttemptStarts(p)  BY <2>12, AttemptStartsStep
  <2>13. CASE AttemptEnds(p)  BY <2>13, AttemptEndsStep
  <2>14. CASE BackoffEnds(p)  BY <2>14, BackoffEndsStep
  <2>15. CASE RecordDuration(p)  BY <2>15, RecordDurationStep
  <2> QED  BY <1>2, <2>1, <2>2, <2>3, <2>4, <2>5, <2>6, <2>7, <2>8, <2>9, <2>10, <2>11, <2>12, <2>13, <2>14, <2>15
           DEF Step
<1>3. CASE UNCHANGED vars  BY <1>3, Stuttering
<1> QED  BY <1>1, <1>2, <1>3 DEF Next

\* Any number of requests, with any interleaving of cache, route table, retries and timeout
\* adjustments, keeps every handler right, every counter balanced and every ring at its history.
THEOREM Invariance == Spec => []IndInv
<1>1. Init => IndInv  BY Begun
<1>2. IndInv /\ [Next]_vars => IndInv'  BY NextStep
<1> QED  BY <1>1, <1>2, PTL DEF Spec

\* The map of the route cache leads to nodes, the gauge is the number of requests in a processor,
\* timeouts are within their bounds and no request is tried more than MaxRetries + 1 times.
THEOREM TypeCorrectness == Spec => []TypeOK
<1>1. IndInv => TypeOK
  <2> SUFFICES ASSUME IndInv  PROVE TypeOK  OBVIOUS
  <2>1. DOMAIN lru.map \subseteq Targets /\ \A k \in DOMAIN lru.map : lru.map[k] \in DOMAIN lru.nodes  BY DEF IndInv, CacheOK
  <2>2. Range(lru.map) \subseteq DOMAIN lru.nodes  BY <2>1 DEF Range
  <2>3. inflight = Cardinality({p \in Procs : proc[p].pc = "process"})
    <3>1. At({"process"}) = {p \in Procs : proc[p].pc = "process"}  BY DEF At
    <3> QED  BY <3>1 DEF IndInv, Counted
  <2>4. \A k \in DOMAIN timeout : timeout[k] \in MinTimeout..MaxTimeout  BY DEF IndInv, Tracked
  <2>5. \A p \in Procs : proc[p].attempt \in 0..MaxRetries  BY DEF IndInv, Serving, ProcOK
  <2> QED  BY <2>1, <2>2, <2>3, <2>4, <2>5 DEF TypeOK
<1> QED  BY <1>1, Invariance, PTL

\* Once Handle has returned, no request that begins finds the handler it replaced, whatever is
\* cached, expired, evicted and promoted meanwhile, but for a path on which it was overtaken.
THEOREM RenewalTheorem == Spec => []Renewed
<1>1. Init => Renewed
  <2> SUFFICES ASSUME Init  PROVE Renewed  OBVIOUS
  <2>1. late = {} /\ lru = EmptyCache /\ proc = [p \in Procs |-> Idle]  BY DEF Init
  <2>2. DOMAIN lru.map = {}
    <3>1. PICK e : e = <<>> /\ DOMAIN e = {}  OBVIOUS
    <3>2. lru.map = e  BY <2>1, <3>1 DEF EmptyCache
    <3> QED  BY <3>1, <3>2
  <2>3. \A p \in Procs : proc[p].pc = "idle" /\ proc[p].fresh = FALSE  BY <2>1 DEF Idle
  <2> QED  BY <2>1, <2>2, <2>3 DEF Renewed
<1>2. IndInv /\ Renewed /\ [Next]_vars => Renewed'  BY NextRenews
<1> QED  BY <1>1, <1>2, Invariance, PTL DEF Spec

\* Every answered request of Router.Serve went where the scenarios say, or failed: whichever of
\* table, pattern list and cache its handler came from, and whatever other requests did to the
\* cache between the lookup and the use; and one that began after Handle had returned was served
\* by the new handler, unless the old one was on its way into the cache when Handle stored.
THEOREM RoutingTheorem == Spec => []RoutedAsRegistered
<1>1. IndInv /\ Renewed => RoutedAsRegistered
  <2> SUFFICES ASSUME IndInv, Renewed, NEW p \in Procs, proc[p].pc = "done"
               PROVE  /\ proc[p].answer \in {"error", Expected(proc[p].req)}
                      /\ proc[p].fresh /\ proc[p].req.path \notin overtaken => proc[p].h = routes[proc[p].req.path]
    BY DEF RoutedAsRegistered
  <2>1. proc[p].answer \in {"error", Expected(proc[p].req)}  BY DEF IndInv, Serving, ProcOK
  <2>2. proc[p].pc \in Chosen  BY DEF Chosen
  <2> QED  BY <2>1, <2>2 DEF Renewed
<1> QED  BY <1>1, Invariance, RenewalTheorem, PTL

\* The timeout in force is the percentile of the last SampleSize durations at the last
\* adjustment, for every size of the ring, percentile and history, and, where an adjustment can
\* take place at all, is never AdjustmentFreq requests old.
THEOREM TimeoutTheorem == Spec => []TimeoutFollowsWindow
<1>1. IndInv => TimeoutFollowsWindow
  <2> SUFFICES ASSUME IndInv, NEW k \in Targets
               PROVE  /\ k \in DOMAIN timeout =>
                           LET w == SubSeq(hist[k], Max({1, adjusted[k] - SampleSize + 1}), adjusted[k])
                           IN  \E d \in ToSet(w) : /\ IsNthSmallest(d, w, PercentileIndex(Len(w)))
                                                   /\ timeout[k] = Clamp(d * SafetyMultiplier)
                      /\ MinDataPoints <= SampleSize /\ Len(hist[k]) >= MinDataPoints + AdjustmentFreq =>
                           Len(hist[k]) - adjusted[k] < AdjustmentFreq
    BY DEF TimeoutFollowsWindow
  <2>1. PICK h \in Seq(Durations) : h = hist[k]  BY DEF IndInv, Tracked, RingOK
  <2>2. PICK a : a = adjusted[k] /\ AdjustedOK(h, a)  BY <2>1 DEF IndInv, Tracked
  <2>3. ASSUME k \in DOMAIN timeout
        PROVE  LET w == SubSeq(hist[k], Max({1, adjusted[k] - SampleSize + 1}), adjusted[k])
               IN  \E d \in ToSet(w) : /\ IsNthSmallest(d, w, PercentileIndex(Len(w)))
                                       /\ timeout[k] = Clamp(d * SafetyMultiplier)
    <3>1. TimeoutFor(timeout[k], Window(h, a))  BY <2>1, <2>2, <2>3 DEF IndInv, Tracked
    <3>2. Window(h, a) = SubSeq(h, Max({1, a - SampleSize + 1}), a)
      <4>1. a \in Int /\ SampleSize \in Int  BY <2>2, RequestPathAssumption DEF AdjustedOK
      <4>2. PICK z \in Int : z = a - SampleSize + 1  BY <4>1
      <4>3. Max({1, z}) = IF z < 1 THEN 1 ELSE z
        <5> DEFINE m == IF z < 1 THEN 1 ELSE z
        <5>1. m \in {1, z} /\ \A y \in {1, z} : m >= y  BY <4>2
        <5>2. \A x \in {1, z} : (\A y \in {1, z} : x >= y) => x = m  BY <4>2
        <5> HIDE DEF m
        <5>3. Max({1, z}) = m  BY <5>1, <5>2 DEF Max
        <5> QED  BY <5>3 DEF m
      <4>4. (IF z < 1 THEN 1 ELSE z) = IF a < SampleSize THEN 1 ELSE a - SampleSize + 1  BY <4>1, <4>2
      <4> QED  BY <4>2, <4>3, <4>4 DEF Window
    <3> QED  BY <2>1, <2>2, <3>1, <3>2 DEF TimeoutFor
  <2>4. ASSUME MinDataPoints <= SampleSize, Len(hist[k]) >= MinDataPoints + AdjustmentFreq
        PROVE  Len(hist[k]) - adjusted[k] < AdjustmentFreq
    BY <2>1, <2>2, <2>4, NotStale
  <2> QED  BY <2>3, <2>4
<1> QED  BY <1>1, Invariance, PTL

\* Retries add up for every number of goroutines and retries: every call of the innermost handler
\* is the first of its request or follows one counted retry, and no counted retry is lost.
THEOREM RetriesTheorem == Spec => []RetriesAddUp
<1>1. IndInv => RetriesAddUp  BY DEF IndInv, Counted
<1> QED  BY <1>1, Invariance, PTL

=============================================================================
