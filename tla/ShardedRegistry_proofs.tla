----------------------- MODULE ShardedRegistry_proofs -----------------------
(***************************************************************************)
(* Proofs about ShardedRegistry for any scenario files, shards, cache size *)
(* and number of concurrent mutations and matches.                         *)
(*                                                                         *)
(* A mutation takes the registry apart step by step; the inductive         *)
(* invariant says for each of its steps which part of the old and of the   *)
(* new contents is in place.  Matches run beside it without a lock; what   *)
(* they have found is in the contents as long as generation is the one     *)
(* they began with, and so is what the cache holds for it.                 *)
(***************************************************************************)
EXTENDS ShardedRegistry, FiniteSetTheorems, FunctionTheorems, TLAPS

-----------------------------------------------------------------------------
(* The inductive invariant *)

\* The scenarios there can be: those that are declared, with any order.
Scenario == {[s EXCEPT !.order = n] : s \in Declared, n \in Nat}

MutPcs == {"idle", "read", "list", "lock", "shard", "global", "flag", "index", "commit", "refused", "done"}
Held == {"shard", "global", "flag", "index", "commit", "refused"}
MutRecord == [pc : MutPcs, op : Ops \cup {IdleMut.op}, next : Seq(Scenario), i : Nat,
              list : SUBSET Scenario, hit : BOOLEAN]

Typed ==
    /\ shards \in [1..Shards -> Seq(Scenario)] /\ global \in Seq(Scenario)
    /\ generation \in Nat /\ cacheOff \in BOOLEAN /\ loaded \in BOOLEAN
    /\ mu \in Mutators \cup {None} /\ mut \in [Mutators -> MutRecord]
    /\ disk \in Files /\ edits \in 0..MaxEdits /\ committed \in SUBSET Scenario

\* The mutation that holds mutationMu is between its two increments of generation.
Mutex ==
    /\ \A p \in Mutators : mu = p <=> mut[p].pc \in Held
    /\ mu = None <=> generation % 2 = 0

\* Each mutation adds at most two to generation.
Passed == {p \in Mutators : mut[p].pc \in Held \cup {"done"}}
Numbered == generation + (IF mu = None THEN 0 ELSE 1) <= 2 * Cardinality(Passed)

UniqueNames(S) == \A s, t \in S : s.name = t.name => s = t
Distinct(q) == \A i, j \in DOMAIN q : q[i] = q[j] => i = j
Placed(s) == IsGlobal(s) \/ \E i \in 1..Shards : IndexKeys(s, i) # {}

Replaces(p) == mut[p].op.kind \in {"load", "reload"}
Others(S, name) == {s \in S : s.name # name}

\* What a mutation has prepared: the scenarios of the file, or the one to add.
Prepared(p) ==
    /\ mut[p].pc \in {"read", "list"} => Replaces(p)
    /\ mut[p].pc # "idle" => mut[p].op \in Ops
    /\ mut[p].pc \in {"list", "lock"} \cup Held /\ Replaces(p) =>
          /\ mut[p].next # <<>> /\ Distinct(mut[p].next) /\ UniqueNames(ToSet(mut[p].next))
          /\ \A s \in ToSet(mut[p].next) : Placed(s)
    /\ mut[p].pc \in Held \ {"refused"} /\ mut[p].op.kind = "add" =>
          LET s == [mut[p].op.s EXCEPT !.order = ScenarioOrderForAdd(committed, mut[p].op.s.name)]
          IN  mut[p].next = <<s>> /\ Placed(s)
    /\ mut[p].pc \in {"idle", "read", "lock"} => mut[p].i = 1 /\ mut[p].hit = FALSE
    /\ mut[p].pc = "list" => mut[p].i \in 1..Shards + 1 /\ mut[p].hit = FALSE
    /\ mut[p].pc = "shard" => mut[p].i \in 1..Shards
    /\ mut[p].pc \in {"global", "flag", "commit"} => mut[p].i = 1
    /\ mut[p].pc = "index" => mut[p].i \in 1..Len(mut[p].next) /\ mut[p].op.kind \in {"load", "add"}

\* What a mutation has done to the shards before the k-th.
ShardsDone(p, k) ==
    \A j \in 1..k - 1 :
        CASE mut[p].op.kind = "load" -> shards[j] = <<>>
          [] mut[p].op.kind = "reload" -> shards[j] = BuiltShards(mut[p].next)[j]
          [] OTHER -> \A s \in ToSet(shards[j]) : s.name # NameOf(mut[p].op)

\* While copies are removed, only those of the name are gone, and none before the first hit.
Removing(p) ==
    ~Replaces(p) =>
        /\ Present \subseteq committed /\ Others(committed, NameOf(mut[p].op)) \subseteq Present
        /\ mut[p].hit = FALSE => Present = committed

\* The contents at each step of a mutation.
Contents(p) ==
    /\ mut[p].pc = "refused" => Present = committed
    /\ mut[p].pc = "shard" => ShardsDone(p, mut[p].i) /\ Removing(p)
    /\ mut[p].pc = "global" => ShardsDone(p, Shards + 1) /\ Removing(p)
    /\ mut[p].pc = "flag" => Present = IF Replaces(p) THEN ToSet(mut[p].next)
                                       ELSE Others(committed, NameOf(mut[p].op))
    /\ mut[p].pc = "index" => Present = IF Replaces(p) THEN {mut[p].next[j] : j \in 1..mut[p].i - 1}
                                        ELSE Others(committed, NameOf(mut[p].op))
    /\ mut[p].pc = "commit" => Present = PlainEffect(p)

Mutating ==
    /\ ContentsAgree /\ UniqueNames(committed) /\ Distinct(global)
    /\ \A p \in Mutators : Prepared(p) /\ Contents(p)

Entry == [key : {CacheKey(r) : r \in Requests}, scenario : Scenario, gen : Nat]

\* The cache holds one entry for a key, and at most CacheCap.
OneEach(q) ==
    /\ q \in Seq(Entry) /\ Len(q) <= CacheCap
    /\ Distinct(q) /\ \A x, y \in ToSet(q) : x.key = y.key => x = y
Caching == OneEach(cache)

MatPcs == {"idle", "stable", "flag", "ask", "get", "shard", "fallback", "global", "check", "store", "put", "done"}
Searching == {"flag", "ask", "get", "shard", "fallback", "global", "check"}
Storing == {"store", "put"}
Active == MatPcs \ {"idle", "done"}

MatFields == {"pc", "req", "gen", "on", "i", "best", "seen", "caps", "branch", "calls", "out"}

MatTyped(c) ==
    /\ DOMAIN c = MatFields /\ c.pc \in MatPcs /\ c.gen \in Nat /\ c.i \in Nat
    /\ c.best \in Scenario \cup {Nobody} /\ c.seen \in SUBSET Scenario
    /\ c.branch \in Nat /\ c.calls \in 0..MaxCalls
    /\ c.pc # "idle" => c.req \in Requests
    /\ c.pc = "fallback" => c.i \in 1..Shards

Calling ==
    /\ mat = [m \in Matchers |-> mat[m]] /\ \A m \in Matchers : MatTyped(mat[m])
    /\ window \in [Matchers -> SUBSET SUBSET Scenario]

\* Generations that calls and entries remember are past or present, and even.
Remembered(g) == g <= generation /\ g % 2 = 0

\* What was kept, or found, for the present generation is in the contents.
EntryFound(e) == Remembered(e.gen) /\ (e.gen = generation => e.scenario \in committed)
FoundBy(m) ==
    /\ Remembered(mat[m].gen)
    /\ mat[m].pc = "stable" => mat[m].best = Nobody
    /\ mat[m].pc \in Searching /\ mat[m].gen = generation => mat[m].best \in committed \cup {Nobody}
    /\ mat[m].pc \in Storing => mat[m].best # Nobody
    /\ mat[m].pc \in Storing /\ mat[m].gen = generation => mat[m].best \in committed
Found == (\A e \in ToSet(cache) : EntryFound(e)) /\ \A m \in Matchers : FoundBy(m)

\* The contents that a call has asked the cache for, in set c.
AskedFor(m, c) ==
    /\ mat[m].i = generation => c = committed
    /\ \A e \in ToSet(cache) : e.gen = mat[m].i => e.scenario \in c
    /\ \A k \in Matchers : mat[k].pc \in Storing /\ mat[k].gen = mat[m].i => mat[k].best \in c

\* A scenario that is returned was in the registry at a moment of the call; only the default
\* may stand for nothing found.
AnswerIsContent(m) ==
    mat[m].pc = "done" /\ mat[m].out \in {"found", "hit"} =>
        mat[m].best = DefaultScenario \/ \E c \in window[m] : mat[m].best \in c
AnswersAreContents == \A m \in Matchers : AnswerIsContent(m)

AnswerOf(m) ==
    /\ mat[m].pc \in Active => committed \in window[m]
    /\ mat[m].pc = "get" => mat[m].i <= generation /\ \E c \in window[m] : AskedFor(m, c)
    /\ mat[m].pc \in Storing => \E c \in window[m] : mat[m].best \in c
    /\ AnswerIsContent(m)
Answering == \A m \in Matchers : AnswerOf(m)

IndInv == Typed /\ Mutex /\ Numbered /\ Mutating /\ Caching /\ Calling /\ Found /\ Answering

-----------------------------------------------------------------------------
(* Numbers *)

\* Induction up to m, for a set of numbers: if S had 0 and every successor but
\* not m, adding one would map the part of S below m into itself without 0,
\* injectively, which no finite set allows.
LEMMA UpTo ==
    ASSUME NEW m \in Nat, NEW S, 0 \in S, \A n \in Nat : n < m /\ n \in S => n + 1 \in S
    PROVE  m \in S
<1> DEFINE T == {n \in 0..m : n \in S}
<1> SUFFICES ASSUME m \notin S  PROVE FALSE  OBVIOUS
<1>1. IsFiniteSet(0..m)  BY FS_Interval
<1>2. IsFiniteSet(T) /\ 0 \in T  BY <1>1, FS_Subset
<1>3. IsFiniteSet(T \ {0}) /\ Cardinality(T \ {0}) = Cardinality(T) - 1 /\ Cardinality(T) \in Nat
  BY <1>2, FS_RemoveElement, FS_CardinalityType
<1>4. [n \in T |-> n + 1] \in Injection(T, T \ {0})
  <2>1. \A n \in T : n + 1 \in T \ {0}  OBVIOUS
  <2> QED  BY <2>1 DEF Injection, IsInjective
<1>5. Cardinality(T) <= Cardinality(T \ {0})  BY <1>3, <1>4, FS_Injection
<1> QED  BY <1>3, <1>5

\* A set of numbers that is not empty has a least element.
LEMMA Least ==
    ASSUME NEW S \in SUBSET Nat, S # {}
    PROVE  Min(S) \in S /\ \A n \in S : Min(S) <= n
<1> DEFINE L == {n \in Nat : \A k \in S : n <= k}
<1>1. ASSUME \A x \in S : \E y \in S : ~(x <= y)  PROVE FALSE
  <2>1. PICK m : m \in S  OBVIOUS
  <2>2. 0 \in L  OBVIOUS
  <2>3. ASSUME NEW n \in Nat, n \in L  PROVE n + 1 \in L
    <3>1. n \notin S  BY <1>1, <2>3
    <3> QED  BY <2>3, <3>1
  <2>4. m + 1 \in L
    <3> HIDE DEF L
    <3> QED  BY <2>1, <2>2, <2>3, UpTo
  <2> QED  BY <2>1, <2>4
<1> QED  BY <1>1 DEF Min

\* A set of numbers up to b that is not empty has a greatest element: the distance to b has a
\* least one.
LEMMA Greatest ==
    ASSUME NEW b \in Nat, NEW S \in SUBSET (0..b), S # {}
    PROVE  Max(S) \in S /\ \A n \in S : n <= Max(S)
<1> DEFINE D == {b - n : n \in S}
<1>1. D \in SUBSET Nat /\ D # {}
  <2>1. PICK n : n \in S  OBVIOUS
  <2>2. b - n \in D  BY <2>1
  <2>3. \A k \in S : b - k \in Nat  OBVIOUS
  <2> QED  BY <2>2, <2>3
<1>2. Min(D) \in D /\ \A d \in D : Min(D) <= d  BY <1>1, Least
<1>3. PICK n \in S : Min(D) = b - n  BY <1>2
<1>4. \A k \in S : n >= k
  <2> TAKE k \in S
  <2>1. b - k \in D  OBVIOUS
  <2>2. b - n <= b - k  BY <1>2, <1>3, <2>1
  <2> QED  BY <2>2
<1>5. \E x \in S : \A y \in S : x >= y  BY <1>4
<1>6. Max(S) \in S /\ \A y \in S : Max(S) >= y  BY <1>5 DEF Max
<1> QED  BY <1>6

\* A function is defined by its first value and its steps.
Steps(n, V) == [1..n -> [V -> V]]
Follows(g, n, V, a, F) == g \in [0..n -> V] /\ g[0] = a /\ \A i \in 1..n : g[i] = F[i][g[i - 1]]

\* A recursive function on 0..n exists: the values up to k are defined for k = 0 and, with those
\* up to k, for k + 1.
LEMMA Recursion ==
    ASSUME NEW n \in Nat, NEW V, NEW a \in V, NEW F \in Steps(n, V)
    PROVE  \E g : Follows(g, n, V, a, F)
<1> DEFINE Good(k) == \E g \in [0..k -> V] : g[0] = a /\ \A i \in 1..k : g[i] = F[i][g[i - 1]]
           T == {k \in 0..n : Good(k)}
<1> USE DEF Steps
<1>1. 0 \in T
  <2> DEFINE z == [i \in 0..0 |-> a]
  <2>1. z \in [0..0 -> V] /\ z[0] = a /\ \A i \in 1..0 : z[i] = F[i][z[i - 1]]  OBVIOUS
  <2>2. Good(0)
    <3> HIDE DEF z
    <3> QED  BY <2>1
  <2> HIDE DEF Good
  <2> QED  BY <2>2
<1>2. ASSUME NEW k \in Nat, k < n, k \in T  PROVE k + 1 \in T
  <2>1. PICK g \in [0..k -> V] : g[0] = a /\ \A i \in 1..k : g[i] = F[i][g[i - 1]]  BY <1>2
  <2> DEFINE h == [i \in 0..(k + 1) |-> IF i = k + 1 THEN F[k + 1][g[k]] ELSE g[i]]
  <2>2. F[k + 1][g[k]] \in V
    <3>1. k + 1 \in 1..n /\ g[k] \in V  BY <1>2
    <3> QED  BY <3>1
  <2>3. h \in [0..(k + 1) -> V] /\ h[0] = a  BY <2>1, <2>2
  <2>4. ASSUME NEW i \in 1..(k + 1)  PROVE h[i] = F[i][h[i - 1]]
    <3>1. h[i - 1] = g[i - 1]  OBVIOUS
    <3>2. CASE i = k + 1
      <4>1. h[i] = F[k + 1][g[k]] /\ i - 1 = k  BY <3>2
      <4> QED  BY <3>1, <3>2, <4>1
    <3>3. CASE i # k + 1
      <4>1. i \in 1..k /\ h[i] = g[i]  BY <3>3
      <4> QED  BY <2>1, <3>1, <4>1
    <3> QED  BY <3>2, <3>3
  <2>5. Good(k + 1)
    <3> HIDE DEF h
    <3> QED  BY <2>3, <2>4
  <2> HIDE DEF Good
  <2> QED  BY <1>2, <2>5
<1>3. n \in T
  <2> HIDE DEF T
  <2> QED  BY <1>1, <1>2, UpTo
<1> QED  BY <1>3 DEF Follows

-----------------------------------------------------------------------------
(* Lists *)

\* Appending to a list.
LEMMA Appended ==
    ASSUME NEW T, NEW q \in Seq(T), NEW x \in T
    PROVE  /\ Append(q, x) \in Seq(T) /\ ToSet(Append(q, x)) = ToSet(q) \cup {x}
           /\ Distinct(q) /\ x \notin ToSet(q) => Distinct(Append(q, x))
<1>1. /\ Append(q, x) \in Seq(T) /\ Len(Append(q, x)) = Len(q) + 1
      /\ \A i \in 1..Len(q) : Append(q, x)[i] = q[i]
      /\ Append(q, x)[Len(q) + 1] = x
  OBVIOUS
<1>2. ToSet(Append(q, x)) = ToSet(q) \cup {x}  BY <1>1 DEF ToSet
<1>3. ASSUME Distinct(q), x \notin ToSet(q)  PROVE Distinct(Append(q, x))
  BY <1>1, <1>3 DEF ToSet, Distinct
<1> QED  BY <1>1, <1>2, <1>3

\* What Keep returns: the elements in S, in a list that is as free of repetitions and no
\* longer.
LEMMA Kept ==
    ASSUME NEW T, NEW q \in Seq(T), NEW S
    PROVE  /\ Keep(q, S) \in Seq(T) /\ ToSet(Keep(q, S)) = ToSet(q) \cap S
           /\ Distinct(q) => Distinct(Keep(q, S))
           /\ Len(Keep(q, S)) <= Len(q)
           /\ (\E i \in DOMAIN q : q[i] \notin S) => Len(Keep(q, S)) < Len(q)
<1> DEFINE n == Len(q)
           Value(g, i) == IF i = 0 THEN <<>> ELSE IF q[i] \in S THEN Append(g[i - 1], q[i]) ELSE g[i - 1]
           F == [i \in 1..n |-> [v \in Seq(T) |-> IF q[i] \in S THEN Append(v, q[i]) ELSE v]]
           kept == CHOOSE g : g = [i \in 0..n |-> Value(g, i)]
<1>1. n \in Nat /\ DOMAIN q = 1..n /\ \A i \in 1..n : q[i] \in T  OBVIOUS
<1>2. F \in [1..n -> [Seq(T) -> Seq(T)]]
  <2>1. ASSUME NEW i \in 1..n, NEW v \in Seq(T)
        PROVE  (IF q[i] \in S THEN Append(v, q[i]) ELSE v) \in Seq(T)
    BY <1>1
  <2> QED  BY <2>1
<1>3. PICK g \in [0..n -> Seq(T)] : g[0] = <<>> /\ \A i \in 1..n : g[i] = F[i][g[i - 1]]
  <2>0. <<>> \in Seq(T)  OBVIOUS
  <2>1. PICK e \in Seq(T) : e = <<>>  BY <2>0
  <2> HIDE DEF F, n
  <2>2. F \in Steps(n, Seq(T))  BY <1>1, <1>2 DEF Steps
  <2>3. \E g : Follows(g, n, Seq(T), e, F)  BY <1>1, <2>1, <2>2, Recursion
  <2> QED  BY <2>1, <2>3 DEF Follows
<1>4. g = [i \in 0..n |-> Value(g, i)]
  <2>1. ASSUME NEW i \in 0..n  PROVE g[i] = Value(g, i)
    <3>1. CASE i = 0  BY <1>3, <3>1
    <3>2. CASE i # 0
      <4>1. i \in 1..n /\ i - 1 \in 0..n  BY <1>1, <3>2
      <4>2. g[i - 1] \in Seq(T)  BY <4>1
      <4>3. F[i][g[i - 1]] = Value(g, i)  BY <3>2, <4>1, <4>2
      <4> QED  BY <1>3, <4>1, <4>3
    <3> QED  BY <3>1, <3>2
  <2> HIDE DEF Value
  <2> QED  BY <1>3, <2>1
<1>5. kept = [i \in 0..n |-> Value(kept, i)]
  <2> HIDE DEF Value
  <2> QED  BY <1>4
<1>6. Keep(q, S) = kept[n]  BY DEF Keep
<1> HIDE DEF kept, F
<1>7. \A i \in 0..n : kept[i] = Value(kept, i)
  <2> HIDE DEF Value
  <2> QED  BY <1>5
<1> DEFINE R(k) == /\ kept[k] \in Seq(T) /\ ToSet(kept[k]) = {q[j] : j \in 1..k} \cap S
                   /\ Distinct(q) => Distinct(kept[k])
                   /\ Len(kept[k]) <= k
                   /\ (\E i \in 1..k : q[i] \notin S) => Len(kept[k]) < k
           G == {k \in 0..n : R(k)}
<1>8. 0 \in G
  <2>1. kept[0] = <<>>  BY <1>1, <1>7
  <2>2. R(0)  BY <2>1 DEF ToSet, Distinct
  <2> HIDE DEF R
  <2> QED  BY <1>1, <2>2
<1>9. ASSUME NEW k \in Nat, k < n, k \in G  PROVE k + 1 \in G
  <2>1. R(k) /\ k + 1 \in 1..n /\ (k + 1) - 1 = k /\ q[k + 1] \in T  BY <1>1, <1>9
  <2>2. {q[j] : j \in 1..(k + 1)} = {q[j] : j \in 1..k} \cup {q[k + 1]}
    <3>1. 1..(k + 1) = 1..k \cup {k + 1}  BY <2>1
    <3> QED  BY <3>1
  <2>3. kept[k + 1] = IF q[k + 1] \in S THEN Append(kept[k], q[k + 1]) ELSE kept[k]
    BY <1>7, <2>1
  <2>4. R(k + 1)
    <3>1. CASE q[k + 1] \in S
      <4>1. kept[k] \in Seq(T) /\ kept[k + 1] = Append(kept[k], q[k + 1])  BY <2>1, <2>3, <3>1
      <4>2. /\ kept[k + 1] \in Seq(T) /\ ToSet(kept[k + 1]) = ToSet(kept[k]) \cup {q[k + 1]}
            /\ Distinct(kept[k]) /\ q[k + 1] \notin ToSet(kept[k]) => Distinct(kept[k + 1])
            /\ Len(kept[k + 1]) = Len(kept[k]) + 1
        BY <2>1, <4>1, Appended
      <4>3. ToSet(kept[k + 1]) = {q[j] : j \in 1..(k + 1)} \cap S  BY <2>1, <2>2, <3>1, <4>2
      <4>4. ASSUME Distinct(q)  PROVE Distinct(kept[k + 1])
        <5>1. q[k + 1] \notin {q[j] : j \in 1..k}
          <6> SUFFICES ASSUME NEW j \in 1..k, q[k + 1] = q[j]  PROVE FALSE  OBVIOUS
          <6>1. j \in DOMAIN q /\ k + 1 \in DOMAIN q  BY <1>1, <2>1
          <6>2. k + 1 = j  BY <4>4, <6>1 DEF Distinct
          <6> QED  BY <6>2
        <5> QED  BY <2>1, <4>2, <4>4, <5>1
      <4>5. (\E i \in 1..(k + 1) : q[i] \notin S) => \E i \in 1..k : q[i] \notin S  BY <3>1
      <4> QED  BY <2>1, <4>2, <4>3, <4>4, <4>5
    <3>2. CASE q[k + 1] \notin S
      <4>1. kept[k + 1] = kept[k]  BY <2>3, <3>2
      <4>2. ToSet(kept[k + 1]) = {q[j] : j \in 1..(k + 1)} \cap S  BY <2>1, <2>2, <3>2, <4>1
      <4> QED  BY <2>1, <4>1, <4>2
    <3> QED  BY <3>1, <3>2
  <2> HIDE DEF R
  <2> QED  BY <2>1, <2>4
<1>10. n \in G
  <2> HIDE DEF G
  <2> QED  BY <1>1, <1>8, <1>9, UpTo
<1>11. {q[j] : j \in 1..n} = ToSet(q)  BY <1>1 DEF ToSet
<1> QED  BY <1>1, <1>6, <1>10, <1>11

\* Taking one element out.
LEMMA Removed ==
    ASSUME NEW T, NEW q \in Seq(T), NEW k \in DOMAIN q
    PROVE  /\ RemoveAt(q, k) \in Seq(T) /\ Len(RemoveAt(q, k)) = Len(q) - 1
           /\ \A i \in 1..Len(q) - 1 : RemoveAt(q, k)[i] = IF i < k THEN q[i] ELSE q[i + 1]
<1>1. Len(q) \in Nat /\ DOMAIN q = 1..Len(q) /\ k \in 1..Len(q)  OBVIOUS
<1> DEFINE a == SubSeq(q, 1, k - 1)
           b == SubSeq(q, k + 1, Len(q))
<1>2. /\ a \in Seq(T) /\ Len(a) = k - 1 /\ \A i \in 1..(k - 1) : a[i] = q[i]  BY <1>1
<1>3. /\ b \in Seq(T) /\ Len(b) = Len(q) - k /\ \A i \in 1..(Len(q) - k) : b[i] = q[i + k]  BY <1>1
<1>4. RemoveAt(q, k) = a \o b  BY DEF RemoveAt
<1> HIDE DEF a, b
<1>5. /\ a \o b \in Seq(T) /\ Len(a \o b) = Len(q) - 1
  <2>0. a \in Seq(T) /\ b \in Seq(T)  BY <1>2, <1>3
  <2>1. a \o b \in Seq(T) /\ Len(a \o b) = Len(a) + Len(b)  BY <2>0
  <2> QED  BY <1>1, <1>2, <1>3, <2>1
<1>6. ASSUME NEW i \in 1..Len(q) - 1  PROVE (a \o b)[i] = IF i < k THEN q[i] ELSE q[i + 1]
  <2>1. CASE i < k  BY <1>1, <1>2, <1>3, <2>1
  <2>2. CASE ~(i < k)
    <3>0. i \in Len(a) + 1..Len(a) + Len(b) /\ i - Len(a) = i - (k - 1)  BY <1>1, <1>2, <1>3, <2>2
    <3>1. (a \o b)[i] = b[i - (k - 1)] /\ i - (k - 1) \in 1..(Len(q) - k)
      <4>0. a \in Seq(T) /\ b \in Seq(T) /\ Len(a) \in Nat /\ Len(b) \in Nat  BY <1>2, <1>3
      <4>1. (a \o b)[i] = b[i - Len(a)]  BY <4>0, <3>0
      <4>2. i - (k - 1) \in 1..(Len(q) - k)  BY <1>1, <2>2
      <4> QED  BY <3>0, <4>1, <4>2
    <3>2. (i - (k - 1)) + k = i + 1  BY <1>1
    <3> QED  BY <1>3, <2>2, <3>1, <3>2
  <2> QED  BY <2>1, <2>2
<1> QED  BY <1>4, <1>5, <1>6

\* Taking one element out of a list without repetitions.
LEMMA TakenOut ==
    ASSUME NEW T, NEW q \in Seq(T), NEW k \in DOMAIN q, Distinct(q)
    PROVE  Distinct(RemoveAt(q, k)) /\ ToSet(RemoveAt(q, k)) = ToSet(q) \ {q[k]}
<1> DEFINE r == RemoveAt(q, k)
<1>1. Len(q) \in Nat /\ DOMAIN q = 1..Len(q)  OBVIOUS
<1> HIDE DEF r
<1>2. /\ r \in Seq(T) /\ Len(r) = Len(q) - 1
      /\ \A i \in 1..Len(q) - 1 : r[i] = IF i < k THEN q[i] ELSE q[i + 1]
  BY Removed DEF r
<1>3. DOMAIN r = 1..Len(q) - 1 /\ k \in Nat  BY <1>1, <1>2
<1>4. Distinct(r)
  <2> SUFFICES ASSUME NEW i \in DOMAIN r, NEW j \in DOMAIN r, r[i] = r[j]  PROVE i = j
    BY DEF Distinct
  <2> DEFINE from(x) == IF x < k THEN x ELSE x + 1
  <2>1. from(i) \in DOMAIN q /\ from(j) \in DOMAIN q  BY <1>1, <1>3
  <2>2. r[i] = q[from(i)] /\ r[j] = q[from(j)]  BY <1>2, <1>3
  <2>3. from(i) = from(j)
    <3> HIDE DEF from
    <3> QED  BY <2>1, <2>2 DEF Distinct
  <2> QED  BY <1>1, <1>3, <2>3
<1>5. ASSUME NEW x \in ToSet(r)  PROVE x \in ToSet(q) \ {q[k]}
  <2>1. PICK i \in DOMAIN r : x = r[i]  BY <1>5 DEF ToSet
  <2>2. PICK j \in DOMAIN q : j # k /\ x = q[j]
    <3>1. CASE i < k  BY <1>1, <1>2, <1>3, <2>1, <3>1
    <3>2. CASE ~(i < k)
      <4>1. x = q[i + 1] /\ i + 1 \in DOMAIN q /\ i + 1 # k  BY <1>1, <1>2, <1>3, <2>1, <3>2
      <4> QED  BY <4>1
    <3> QED  BY <3>1, <3>2
  <2> QED  BY <2>2 DEF Distinct, ToSet
<1>6. ASSUME NEW x \in ToSet(q) \ {q[k]}  PROVE x \in ToSet(r)
  <2>1. PICK j \in DOMAIN q : x = q[j] /\ j # k  BY <1>6 DEF ToSet
  <2>2. PICK i \in DOMAIN r : x = r[i]
    <3>1. CASE j < k  BY <1>1, <1>2, <1>3, <2>1, <3>1
    <3>2. CASE ~(j < k)
      <4>1. j - 1 \in DOMAIN r /\ ~(j - 1 < k) /\ (j - 1) + 1 = j  BY <1>1, <1>3, <2>1, <3>2
      <4>2. r[j - 1] = q[j]  BY <1>2, <1>3, <4>1
      <4> QED  BY <2>1, <4>1, <4>2
    <3> QED  BY <3>1, <3>2
  <2> QED  BY <2>2 DEF ToSet
<1>7. ToSet(r) = ToSet(q) \ {q[k]}  BY <1>5, <1>6
<1> QED  BY <1>4, <1>7 DEF r

\* Putting an element in front.
LEMMA Prefixed ==
    ASSUME NEW T, NEW q \in Seq(T), NEW e \in T
    PROVE  /\ <<e>> \o q \in Seq(T) /\ Len(<<e>> \o q) = Len(q) + 1
           /\ ToSet(<<e>> \o q) = {e} \cup ToSet(q)
           /\ Distinct(q) /\ e \notin ToSet(q) => Distinct(<<e>> \o q)
<1> DEFINE r == <<e>> \o q
<1>1. Len(q) \in Nat /\ DOMAIN q = 1..Len(q) /\ <<e>> \in Seq(T) /\ Len(<<e>>) = 1  OBVIOUS
<1>2. r \in Seq(T) /\ Len(r) = Len(q) + 1  BY <1>1
<1>3. r[1] = e /\ \A i \in 1..Len(q) : r[i + 1] = q[i]
  <2>1. \A i \in 1..Len(q) : i + 1 \in Len(<<e>>) + 1..Len(<<e>>) + Len(q) /\ (i + 1) - Len(<<e>>) = i
    BY <1>1
  <2> QED  BY <1>1, <2>1
<1> HIDE DEF r
<1>4. DOMAIN r = 1..(Len(q) + 1)  BY <1>1, <1>2
<1>5. \A i \in DOMAIN r : i = 1 \/ (i - 1 \in DOMAIN q /\ r[i] = q[i - 1])
  <2> TAKE i \in DOMAIN r
  <2>1. CASE i # 1
    <3>1. i - 1 \in 1..Len(q) /\ (i - 1) + 1 = i  BY <1>1, <1>4, <2>1
    <3> QED  BY <1>1, <1>3, <3>1
  <2> QED  BY <2>1
<1>6. ToSet(r) = {e} \cup ToSet(q)
  <2>1. \A x \in ToSet(r) : x \in {e} \cup ToSet(q)  BY <1>3, <1>5 DEF ToSet
  <2>2. \A i \in DOMAIN q : i + 1 \in DOMAIN r /\ r[i + 1] = q[i]  BY <1>1, <1>3, <1>4
  <2>3. 1 \in DOMAIN r  BY <1>1, <1>4
  <2> QED  BY <1>3, <2>1, <2>2, <2>3 DEF ToSet
<1>7. ASSUME Distinct(q), e \notin ToSet(q)  PROVE Distinct(r)
  <2>1. \A i \in DOMAIN q : q[i] # e  BY <1>7 DEF ToSet
  <2>2. ASSUME NEW i \in DOMAIN r, NEW j \in DOMAIN r, r[i] = r[j]  PROVE i = j
    <3>1. i \in Nat /\ j \in Nat  BY <1>1, <1>4
    <3>2. CASE i = 1 /\ j # 1  BY <1>3, <1>5, <2>1, <2>2, <3>2
    <3>3. CASE i # 1 /\ j = 1  BY <1>3, <1>5, <2>1, <2>2, <3>3
    <3>4. CASE i # 1 /\ j # 1
      <4>1. i - 1 = j - 1  BY <1>5, <1>7, <2>2, <3>4 DEF Distinct
      <4> QED  BY <3>1, <4>1
    <3> QED  BY <3>2, <3>3, <3>4
  <2> QED  BY <2>2 DEF Distinct
<1> QED  BY <1>2, <1>6, <1>7 DEF r

\* Dropping the last element.
LEMMA Shortened ==
    ASSUME NEW T, NEW q \in Seq(T), Len(q) > 0, Distinct(q)
    PROVE  Front(q) \in Seq(T) /\ Len(Front(q)) = Len(q) - 1 /\ Distinct(Front(q)) /\ ToSet(Front(q)) \subseteq ToSet(q)
<1>1. Len(q) \in Nat /\ DOMAIN q = 1..Len(q)  OBVIOUS
<1>2. /\ Front(q) \in Seq(T) /\ Len(Front(q)) = Len(q) - 1
      /\ \A i \in 1..Len(q) - 1 : Front(q)[i] = q[i]
  BY <1>1 DEF Front
<1>3. DOMAIN Front(q) = 1..Len(q) - 1  BY <1>1, <1>2
<1>4. \A i \in DOMAIN Front(q) : i \in DOMAIN q /\ Front(q)[i] = q[i]  BY <1>1, <1>2, <1>3
<1> QED  BY <1>2, <1>4 DEF Distinct, ToSet

\* Two lists after each other have the elements of both.
LEMMA Joined ==
    ASSUME NEW S, NEW a \in Seq(S), NEW b \in Seq(S)
    PROVE  a \o b \in Seq(S) /\ ToSet(a) \subseteq ToSet(a \o b) /\ ToSet(b) \subseteq ToSet(a \o b)
<1>1. /\ a \o b \in Seq(S) /\ Len(a \o b) = Len(a) + Len(b) /\ Len(a) \in Nat /\ Len(b) \in Nat
      /\ DOMAIN a = 1..Len(a) /\ DOMAIN b = 1..Len(b) /\ DOMAIN (a \o b) = 1..Len(a \o b)
  OBVIOUS
<1>2. \A i \in 1..Len(a) : i \in DOMAIN (a \o b) /\ (a \o b)[i] = a[i]  BY <1>1
<1>3. \A i \in 1..Len(b) : i + Len(a) \in DOMAIN (a \o b) /\ (a \o b)[i + Len(a)] = b[i]
  <2> TAKE i \in 1..Len(b)
  <2>1. i + Len(a) \in Len(a) + 1..Len(a) + Len(b) /\ (i + Len(a)) - Len(a) = i  BY <1>1
  <2> QED  BY <1>1, <2>1
<1> QED  BY <1>1, <1>2, <1>3 DEF ToSet

\* Flattening a list of lists gives a list with their elements.
LEMMA Flattened ==
    ASSUME NEW S, NEW q \in Seq(Seq(S))
    PROVE  FlattenSeq(q) \in Seq(S) /\ \A j \in DOMAIN q : ToSet(q[j]) \subseteq ToSet(FlattenSeq(q))
<1> DEFINE n == Len(q)
<1>1. CASE n = 0
  <2>1. q = <<>>  BY <1>1
  <2> QED  BY <1>1, <2>1 DEF FlattenSeq
<1>2. CASE n # 0
  <2> DEFINE Value(f, i) == IF i = 1 THEN q[i] ELSE f[i - 1] \o q[i]
             F == [i \in 1..n |-> [v \in Seq(S) |-> v \o q[i]]]
             flat == CHOOSE f : f = [i \in 1..n |-> Value(f, i)]
  <2>1. n \in Nat /\ 1 \in 1..n /\ n \in 1..n /\ \A i \in 1..n : q[i] \in Seq(S)  BY <1>2
  <2>2. F \in [1..n -> [Seq(S) -> Seq(S)]]
    <3>1. ASSUME NEW i \in 1..n, NEW v \in Seq(S)  PROVE v \o q[i] \in Seq(S)
      <4>1. q[i] \in Seq(S)  BY <2>1
      <4> QED  BY <4>1
    <3> QED  BY <3>1
  <2>3. PICK g \in [0..n -> Seq(S)] : g[0] = <<>> /\ \A i \in 1..n : g[i] = F[i][g[i - 1]]
    <3>0. <<>> \in Seq(S)  OBVIOUS
    <3>1. PICK e \in Seq(S) : e = <<>>  BY <3>0
    <3> HIDE DEF F, n
    <3>2. F \in Steps(n, Seq(S))  BY <2>1, <2>2 DEF Steps
    <3>3. \E g : Follows(g, n, Seq(S), e, F)  BY <2>1, <3>1, <3>2, Recursion
    <3> QED  BY <3>1, <3>3 DEF Follows
  <2> DEFINE h == [i \in 1..n |-> g[i]]
  <2>4. ASSUME NEW i \in 1..n  PROVE h[i] = Value(h, i)
    <3>0. i - 1 \in 0..n  BY <2>1
    <3>1. g[i - 1] \in Seq(S)  BY <3>0
    <3>2. h[i] = g[i - 1] \o q[i]  BY <2>3, <3>1
    <3>3. CASE i = 1
      <4>1. g[i - 1] = <<>> /\ <<>> \o q[i] = q[i]  BY <2>1, <2>3, <3>3
      <4> QED  BY <3>2, <3>3, <4>1
    <3>4. CASE i # 1
      <4>1. h[i - 1] = g[i - 1]  BY <3>4
      <4> QED  BY <3>2, <3>4, <4>1
    <3> QED  BY <3>3, <3>4
  <2>5. h = [i \in 1..n |-> Value(h, i)]
    <3> HIDE DEF Value
    <3> QED  BY <2>4
  <2>6. flat = [i \in 1..n |-> Value(flat, i)]
    <3> HIDE DEF Value, h
    <3> QED  BY <2>5
  <2>7. FlattenSeq(q) = flat[n]  BY <1>2 DEF FlattenSeq
  <2> HIDE DEF flat, F
  <2>8. \A i \in 1..n : flat[i] = Value(flat, i)
    <3> HIDE DEF Value
    <3> QED  BY <2>6
  <2> DEFINE Whole(k) == flat[k] \in Seq(S) /\ \A j \in 1..k : ToSet(q[j]) \subseteq ToSet(flat[k])
             G == {k \in Nat : k \in 1..n => Whole(k)}
  <2>9. 0 \in G  OBVIOUS
  <2>10. ASSUME NEW k \in Nat, k < n, k \in G  PROVE k + 1 \in G
    <3>1. k + 1 \in 1..n /\ q[k + 1] \in Seq(S)  BY <2>1, <2>10
    <3>2. CASE k = 0
      <4>1. flat[k + 1] = q[k + 1] /\ \A j \in 1..k + 1 : j = k + 1  BY <2>8, <3>1, <3>2
      <4>2. Whole(k + 1)  BY <3>1, <4>1
      <4> HIDE DEF Whole
      <4> QED  BY <4>2
    <3>3. CASE k # 0
      <4>1. Whole(k) /\ (k + 1) - 1 = k /\ k + 1 # 1
        <5> HIDE DEF Whole
        <5> QED  BY <2>10, <3>3
      <4>2. flat[k + 1] = flat[k] \o q[k + 1]  BY <2>8, <3>1, <4>1
      <4>3. /\ flat[k] \o q[k + 1] \in Seq(S) /\ ToSet(flat[k]) \subseteq ToSet(flat[k] \o q[k + 1])
            /\ ToSet(q[k + 1]) \subseteq ToSet(flat[k] \o q[k + 1])
        <5> HIDE DEF G
        <5>1. flat[k] \in Seq(S)  BY <4>1
        <5> HIDE DEF Whole
        <5> QED  BY <3>1, <5>1, Joined
      <4>4. \A j \in 1..k + 1 : j \in 1..k \/ j = k + 1  OBVIOUS
      <4>5. Whole(k + 1)
        <5> HIDE DEF G
        <5> QED  BY <4>1, <4>2, <4>3, <4>4
      <4> HIDE DEF Whole
      <4> QED  BY <4>5
    <3> QED  BY <3>2, <3>3
  <2>11. n \in G
    <3> HIDE DEF G
    <3> QED  BY <2>1, <2>9, <2>10, UpTo
  <2>12. DOMAIN q = 1..n  OBVIOUS
  <2> QED  BY <2>1, <2>7, <2>11, <2>12
<1> QED  BY <1>1, <1>2

-----------------------------------------------------------------------------
(* Scenarios *)

Fields == {"name", "priority", "order", "routes", "methods", "paths", "rule", "branches", "weights",
           "compiles", "resp", "variants"}

\* The default scenario is in order.
LEMMA Default ==
    /\ DOMAIN DefaultScenario = Fields /\ DefaultScenario.order = 0 /\ DefaultScenario.name = DefaultName
    /\ IsScenario(DefaultScenario) /\ Hashed(DefaultScenario)
<1>1. /\ DOMAIN DefaultScenario = Fields /\ DefaultScenario.order = 0 /\ DefaultScenario.name = DefaultName
      /\ DefaultScenario.priority \in Int /\ DefaultScenario.order \in Nat
      /\ DefaultScenario.paths = <<>> /\ DefaultScenario.branches = <<>> /\ DefaultScenario.routes = <<>>
  BY DEF DefaultScenario, Fields
<1>2. \A S : <<>> \in Seq(S)  OBVIOUS
<1>3. DOMAIN <<>> = {} /\ ToSet(<<>>) = {}  BY DEF ToSet
<1> QED  BY <1>1, <1>2, <1>3 DEF IsScenario, Hashed

\* What is declared is a scenario.
LEMMA DeclaredOnes ==
    ASSUME NEW s \in Declared
    PROVE  IsScenario(s) /\ Hashed(s) /\ DOMAIN s = Fields
<1>1. ASSUME NEW f \in Files, s \in ToSet(f)  PROVE IsScenario(s) /\ Hashed(s)
  BY <1>1, RegistryAssumption
<1>2. ASSUME NEW op \in Ops, op.kind = "add", s = op.s  PROVE IsScenario(s) /\ Hashed(s)
  BY <1>2, RegistryAssumption
<1>3. IsScenario(s) /\ Hashed(s)
  <2>1. \/ s = DefaultScenario \/ \E f \in Files : s \in ToSet(f)
        \/ \E op \in Ops : op.kind = "add" /\ s = op.s
    <3>1. \/ s \in {DefaultScenario} \/ s \in UNION {ToSet(f) : f \in Files}
          \/ s \in {op.s : op \in {o \in Ops : o.kind = "add"}}
      BY DEF Declared
    <3>2. CASE s \in UNION {ToSet(f) : f \in Files}  BY <3>2
    <3>3. CASE s \in {op.s : op \in {o \in Ops : o.kind = "add"}}
      <4>1. PICK op \in {o \in Ops : o.kind = "add"} : s = op.s  BY <3>3
      <4> QED  BY <4>1
    <3> QED  BY <3>1, <3>2, <3>3
  <2>2. CASE s = DefaultScenario  BY <2>2, Default
  <2>3. CASE \E f \in Files : s \in ToSet(f)  BY <2>3, <1>1
  <2>4. CASE \E op \in Ops : op.kind = "add" /\ s = op.s  BY <2>4, <1>2
  <2> QED  BY <2>1, <2>2, <2>3, <2>4
<1>4. DOMAIN s = DOMAIN DefaultScenario  BY <1>3 DEF IsScenario
<1> QED  BY <1>3, <1>4, Default

\* A scenario differs from the declared one in its order.
LEMMA Ordered ==
    ASSUME NEW s \in Declared, NEW n \in Nat
    PROVE  /\ [s EXCEPT !.order = n] \in Scenario
           /\ [s EXCEPT !.order = n].order = n /\ [s EXCEPT !.order = n].name = s.name
           /\ [s EXCEPT !.order = n].routes = s.routes /\ [s EXCEPT !.order = n].paths = s.paths
           /\ [s EXCEPT !.order = n].methods = s.methods /\ [s EXCEPT !.order = n].priority = s.priority
           /\ [s EXCEPT !.order = n].branches = s.branches
<1>1. DOMAIN s = Fields  BY DeclaredOnes
<1>2. [s EXCEPT !.order = n] \in Scenario  BY DEF Scenario
<1> QED  BY <1>1, <1>2 DEF Fields

\* What every scenario has.
LEMMA Scenarios ==
    ASSUME NEW s \in Scenario
    PROVE  /\ s.order \in Nat /\ s.priority \in Int /\ s.branches \in Seq(ToSet(s.branches))
           /\ \E d \in Declared : s = [d EXCEPT !.order = s.order]
<1>1. PICK d \in Declared, n \in Nat : s = [d EXCEPT !.order = n]  BY DEF Scenario
<1>2. s.order = n /\ s.priority = d.priority /\ s.branches = d.branches  BY <1>1, Ordered
<1>3. IsScenario(d)  BY <1>1, DeclaredOnes
<1> QED  BY <1>1, <1>2, <1>3 DEF IsScenario

\* The default scenario is one of them.
LEMMA DefaultOne == DefaultScenario \in Scenario
<1>1. DefaultScenario \in Declared  BY DEF Declared
<1>2. PICK d : d = DefaultScenario  OBVIOUS
<1>3. DOMAIN d = Fields /\ d.order = 0 /\ d = [f \in DOMAIN d |-> d[f]]
  <2>1. DefaultScenario = [f \in DOMAIN DefaultScenario |-> DefaultScenario[f]]  BY DEF DefaultScenario
  <2> QED  BY <1>2, <2>1, Default
<1>4. d = [d EXCEPT !.order = 0]  BY <1>3
<1> QED  BY <1>1, <1>2, <1>4 DEF Scenario

\* A list of at least one element has an element.
LEMMA FirstOf ==
    ASSUME NEW T, NEW q \in Seq(T), q # <<>>
    PROVE  1 \in DOMAIN q /\ q[1] \in ToSet(q)
BY DEF ToSet

\* A valid scenario is in the global list or in the index of a shard.
LEMMA Placement ==
    ASSUME NEW s, IsScenario(s), Hashed(s), RouteMapValid(s.routes)
    PROVE  Placed(s)
<1>1. CASE ExactRoutes(s)
  <2>1. PICK m : m \in DOMAIN s.routes  BY <1>1 DEF ExactRoutes, HasRoutes
  <2>2. s.routes[m] \in Seq(ToSet(s.routes[m])) /\ s.routes[m] # <<>>
    BY <2>1 DEF IsScenario, RouteMapValid
  <2>3. PICK ep : ep \in ToSet(s.routes[m])  BY <2>2, FirstOf
  <2>4. ~IsPattern(ep)  BY <1>1, <2>1, <2>3 DEF ExactRoutes
  <2>5. ep \in UNION {ToSet(s.routes[r]) : r \in DOMAIN s.routes}  BY <2>1, <2>3
  <2>6. ep.segs \in DOMAIN ShardOf  BY <2>4, <2>5 DEF Hashed
  <2>7. ShardOf[ep.segs] \in 1..Shards  BY <2>6, RegistryAssumption
  <2> DEFINE sh == ShardOf[ep.segs]
             keys(r) == {<<r, e.segs>> : e \in {e \in ToSet(s.routes[r]) : ShardOf[e.segs] = sh}}
  <2>8. <<m, ep.segs>> \in keys(m)  BY <2>3
  <2>9. IndexKeys(s, sh) = UNION {keys(r) : r \in DOMAIN s.routes}  BY <1>1 DEF IndexKeys
  <2> HIDE DEF keys
  <2>10. <<m, ep.segs>> \in IndexKeys(s, sh)  BY <2>1, <2>8, <2>9
  <2> QED  BY <2>7, <2>10 DEF Placed
<1>2. CASE ~ExactRoutes(s) /\ ShardSafe(s)
  <2>1. s.paths \in Seq(ToSet(s.paths)) /\ Len(s.paths) = 1 /\ ~IsPattern(s.paths[1])
    BY <1>2 DEF ShardSafe, IsScenario
  <2>2. s.paths[1] \in ToSet(s.paths)  BY <2>1 DEF ToSet
  <2>3. s.paths[1].segs \in DOMAIN ShardOf  BY <2>1, <2>2 DEF Hashed
  <2>4. ShardOf[s.paths[1].segs] \in 1..Shards  BY <2>3, RegistryAssumption
  <2> DEFINE sh == ShardOf[s.paths[1].segs]
             ms == IF s.methods = {} THEN {"*"} ELSE s.methods
             pre == ExtractPathPrefix(s.paths[1].segs)
  <2>5. IndexKeys(s, sh) = {<<m, pre>> : m \in ms}  BY <1>2 DEF IndexKeys
  <2>6. PICK m : m \in ms  OBVIOUS
  <2>7. <<m, pre>> \in IndexKeys(s, sh)  BY <2>5, <2>6
  <2> QED  BY <2>4, <2>7 DEF Placed
<1>3. CASE ~ExactRoutes(s) /\ ~ShardSafe(s)  BY <1>3 DEF Placed, IsGlobal
<1> QED  BY <1>1, <1>2, <1>3

\* Where a scenario is placed does not depend on its order.
LEMMA PlacedOrdered ==
    ASSUME NEW s \in Declared, NEW n \in Nat, Placed(s)
    PROVE  Placed([s EXCEPT !.order = n])
<1> DEFINE t == [s EXCEPT !.order = n]
<1>1. t.routes = s.routes /\ t.paths = s.paths /\ t.methods = s.methods  BY Ordered
<1> HIDE DEF t
<1>2. ExactRoutes(t) <=> ExactRoutes(s)  BY <1>1 DEF ExactRoutes, HasRoutes
<1>3. ShardSafe(t) <=> ShardSafe(s)  BY <1>1 DEF ShardSafe
<1>4. \A i \in 1..Shards : IndexKeys(t, i) = IndexKeys(s, i)  BY <1>1, <1>2, <1>3 DEF IndexKeys
<1>5. IsGlobal(t) <=> IsGlobal(s)  BY <1>2, <1>3 DEF IsGlobal
<1>6. Placed(t)  BY <1>4, <1>5 DEF Placed
<1> QED  BY <1>6 DEF t

\* The default scenario is placed, whatever its order.
LEMMA DefaultPlaced == Placed(DefaultScenario)
<1>1. DefaultScenario.routes = <<>> /\ DefaultScenario.paths = <<>>  BY DEF DefaultScenario
<1>2. DOMAIN <<>> = {} /\ Len(<<>>) = 0  OBVIOUS
<1>3. IsGlobal(DefaultScenario)  BY <1>1, <1>2 DEF IsGlobal, ExactRoutes, HasRoutes, ShardSafe
<1> QED  BY <1>3 DEF Placed

-----------------------------------------------------------------------------
(* The contents of a file *)

UniqueOrders(S) == \A s, t \in S : s.order = t.order => s = t

\* Scenarios of different orders have each a place of their own in the sorted list: their
\* ranks are distinct numbers below their number, so that none is left out.
LEMMA Sorted ==
    ASSUME NEW S \in SUBSET Scenario, IsFiniteSet(S), UniqueOrders(S)
    PROVE  /\ SortedByPriority(S) \in Seq(S) /\ Len(SortedByPriority(S)) = Cardinality(S)
           /\ Distinct(SortedByPriority(S))
<1> DEFINE n == Cardinality(S)
           above(s) == {t \in S : ScenarioOutranks(t, s)}
           rank == [s \in S |-> Cardinality(above(s))]
<1>1. n \in Nat  BY FS_CardinalityType
<1>2. \A s \in S : s.order \in Nat /\ s.priority \in Int  BY Scenarios
<1>3. ASSUME NEW s \in S
      PROVE  IsFiniteSet(above(s)) /\ Cardinality(above(s)) \in 0..(n - 1)
  <2>1. s \notin above(s)  BY <1>2 DEF ScenarioOutranks
  <2>2. above(s) \subseteq S \ {s}  BY <2>1
  <2>3. IsFiniteSet(S \ {s}) /\ Cardinality(S \ {s}) = n - 1  BY FS_RemoveElement
  <2> HIDE DEF above
  <2>4. IsFiniteSet(above(s)) /\ Cardinality(above(s)) <= n - 1 /\ Cardinality(above(s)) \in Nat
    BY <2>2, <2>3, FS_Subset, FS_CardinalityType
  <2> QED  BY <1>1, <2>4
<1>4. ASSUME NEW s \in S, NEW t \in S, ScenarioOutranks(s, t)
      PROVE  Cardinality(above(s)) < Cardinality(above(t))
  <2>1. above(s) \subseteq above(t) /\ s \in above(t) /\ s \notin above(s)
    BY <1>2, <1>4 DEF ScenarioOutranks
  <2>2. IsFiniteSet(above(t)) /\ IsFiniteSet(above(s))  BY <1>3
  <2> HIDE DEF above
  <2>3. above(s) \subseteq above(t) \ {s}  BY <2>1
  <2>4. /\ IsFiniteSet(above(t) \ {s}) /\ Cardinality(above(t) \ {s}) = Cardinality(above(t)) - 1
        /\ Cardinality(above(t)) \in Nat /\ Cardinality(above(s)) \in Nat
    BY <2>1, <2>2, FS_RemoveElement, FS_CardinalityType
  <2>5. Cardinality(above(s)) <= Cardinality(above(t) \ {s})  BY <2>3, <2>4, FS_Subset
  <2> QED  BY <2>4, <2>5
<1>5. ASSUME NEW s \in S, NEW t \in S, s # t  PROVE ScenarioOutranks(s, t) \/ ScenarioOutranks(t, s)
  <2>1. s.order # t.order  BY <1>5 DEF UniqueOrders
  <2> QED  BY <1>2, <2>1 DEF ScenarioOutranks
<1> HIDE DEF above
<1>6. rank \in Injection(S, 0..(n - 1))
  <2>1. rank \in [S -> 0..(n - 1)]  BY <1>3
  <2>2. ASSUME NEW s \in S, NEW t \in S, rank[s] = rank[t]  PROVE s = t
    <3>1. \A u \in S : Cardinality(above(u)) \in Nat  BY <1>1, <1>3
    <3> QED  BY <1>4, <1>5, <2>2, <3>1
  <2> HIDE DEF rank
  <2> QED  BY <2>1, <2>2 DEF Injection, IsInjective
<1>7. IsFiniteSet(0..(n - 1)) /\ Cardinality(0..(n - 1)) = n
  <2>1. n - 1 \in Int /\ 0 \in Int  BY <1>1
  <2>2. /\ IsFiniteSet(0..(n - 1))
        /\ Cardinality(0..(n - 1)) = IF 0 > n - 1 THEN 0 ELSE (n - 1) - 0 + 1
    BY <2>1, FS_Interval
  <2> QED  BY <1>1, <2>2
<1>8. rank \in Surjection(S, 0..(n - 1))
  <2> HIDE DEF rank
  <2> QED  BY <1>6, <1>7, FS_Injection
<1>9. \A k \in 0..(n - 1) : \E s \in S : rank[s] = k
  <2> HIDE DEF rank
  <2> QED  BY <1>8 DEF Surjection
<1> DEFINE q == SortedByPriority(S)
<1>10. q = [i \in 1..n |-> CHOOSE s \in S : Cardinality(above(s)) = i - 1]
  BY DEF SortedByPriority, above
<1>11. ASSUME NEW i \in 1..n  PROVE q[i] \in S /\ Cardinality(above(q[i])) = i - 1
  <2>1. i - 1 \in 0..(n - 1)  BY <1>1
  <2>2. \E s \in S : Cardinality(above(s)) = i - 1  BY <1>9, <2>1
  <2>3. q[i] = CHOOSE s \in S : Cardinality(above(s)) = i - 1
    <3> HIDE DEF q
    <3> QED  BY <1>10
  <2> QED  BY <2>2, <2>3
<1> HIDE DEF q
<1>12. DOMAIN q = 1..n /\ q \in [1..n -> S]  BY <1>10, <1>11
<1>13. q \in Seq(S) /\ Len(q) = n  BY <1>1, <1>12
<1>14. \A i, j \in 1..n : q[i] = q[j] => i = j  BY <1>1, <1>11
<1> QED  BY <1>12, <1>13, <1>14 DEF q, Distinct

\* The elements of a list are finitely many.
LEMMA FiniteList ==
    ASSUME NEW T, NEW q \in Seq(T)
    PROVE  IsFiniteSet(ToSet(q))
<1>1. Len(q) \in Nat /\ DOMAIN q = 1..Len(q) /\ q = [i \in DOMAIN q |-> q[i]]  OBVIOUS
<1>2. q \in Surjection(DOMAIN q, ToSet(q))
  <2>1. q \in [DOMAIN q -> ToSet(q)]  BY <1>1 DEF ToSet
  <2>2. \A x \in ToSet(q) : \E i \in DOMAIN q : q[i] = x  BY DEF ToSet
  <2> QED  BY <2>1, <2>2 DEF Surjection
<1>3. IsFiniteSet(DOMAIN q)
  <2>1. 1 \in Int /\ Len(q) \in Int  BY <1>1
  <2> QED  BY <1>1, <2>1, FS_Interval
<1> QED  BY <1>2, <1>3, FS_Surjection

\* A finite set of numbers that is not empty has a greatest element: otherwise the next
\* number in the set would be an injection that misses the least one.
LEMMA GreatestOfFinite ==
    ASSUME NEW S \in SUBSET Nat, IsFiniteSet(S), S # {}
    PROVE  Max(S) \in S /\ \A n \in S : n <= Max(S)
<1> DEFINE above(x) == {y \in S : y > x}
           next == [x \in S |-> Min(above(x))]
           rest == S \ {Min(S)}
<1>1. ASSUME \A x \in S : \E y \in S : ~(x >= y)  PROVE FALSE
  <2>1. \A x \in S : above(x) \in SUBSET Nat /\ above(x) # {}
    <3> TAKE x \in S
    <3>1. PICK y \in S : ~(x >= y)  BY <1>1
    <3>2. y > x  BY <3>1
    <3> QED  BY <3>2
  <2>2. \A x \in S : Min(above(x)) \in above(x) /\ \A n \in above(x) : Min(above(x)) <= n
    <3> HIDE DEF above
    <3> QED  BY <2>1, Least
  <2>3. Min(S) \in S /\ \A n \in S : Min(S) <= n  BY Least
  <2>4. \A x \in S : next[x] \in S /\ next[x] > x /\ \A y \in S : y > x => next[x] <= y
    BY <2>2
  <2> HIDE DEF next
  <2>5. \A x \in S : next[x] \in rest
    <3> TAKE x \in S
    <3>1. next[x] \in S /\ next[x] > x /\ Min(S) <= x /\ Min(S) \in Nat /\ next[x] \in Nat  BY <2>3, <2>4
    <3>2. next[x] # Min(S)  BY <3>1
    <3> QED  BY <3>1, <3>2
  <2>6. next \in [S -> rest]  BY <2>5 DEF next
  <2>7. \A x, y \in S : next[x] = next[y] => x = y
    <3> SUFFICES ASSUME NEW x \in S, NEW y \in S, next[x] = next[y], x < y  PROVE FALSE  OBVIOUS
    <3>1. next[x] <= y /\ next[y] > y  BY <2>4
    <3>2. next[x] \in Nat /\ next[y] \in Nat  BY <2>4
    <3> QED  BY <3>1, <3>2
  <2>8. next \in Injection(S, rest)  BY <2>6, <2>7 DEF Injection, IsInjective
  <2>9. IsFiniteSet(rest) /\ Cardinality(rest) = Cardinality(S) - 1 /\ Cardinality(S) \in Nat
    BY <2>3, FS_RemoveElement, FS_CardinalityType
  <2>10. Cardinality(S) <= Cardinality(rest)  BY <2>8, <2>9, FS_Injection
  <2> QED  BY <2>9, <2>10
<1>2. \E x \in S : \A y \in S : x >= y  BY <1>1
<1>3. Max(S) \in S /\ \A y \in S : Max(S) >= y  BY <1>2 DEF Max
<1> QED  BY <1>3

\* What a file holds: scenarios with names and orders of their own, the default among them.
LEMMA Loaded ==
    ASSUME NEW f \in Files
    PROVE  /\ LoadedContents(f) \in SUBSET Scenario /\ IsFiniteSet(LoadedContents(f))
           /\ LoadedContents(f) # {}
           /\ UniqueOrders(LoadedContents(f)) /\ UniqueNames(LoadedContents(f))
           /\ FileValid(f) => \A s \in LoadedContents(f) : Placed(s)
<1> DEFINE named == \E i \in DOMAIN f : f[i].name = DefaultName
           all == IF named THEN f ELSE Append(f, DefaultScenario)
           one(i) == [all[i] EXCEPT !.order = i - 1]
<1>1. f \in Seq(Declared)
  <2>1. f \in Seq(ToSet(f))  BY RegistryAssumption
  <2>2. ToSet(f) \subseteq Declared  BY DEF Declared
  <2> QED  BY <2>1, <2>2
<1>2. DefaultScenario \in Declared  BY DEF Declared
<1>3. all \in Seq(Declared)  BY <1>1, <1>2
<1>4. \A i, j \in DOMAIN f : f[i].name = f[j].name => i = j  BY RegistryAssumption
<1>5. \A i, j \in DOMAIN all : all[i].name = all[j].name => i = j
  <2>1. CASE named  BY <1>4, <2>1
  <2>2. CASE ~named
    <3>1. /\ Len(f) \in Nat /\ DOMAIN f = 1..Len(f) /\ DOMAIN all = 1..(Len(f) + 1)
          /\ \A i \in DOMAIN f : all[i] = f[i]
          /\ all[Len(f) + 1] = DefaultScenario
      BY <1>1, <1>2, <2>2
    <3>2. DefaultScenario.name = DefaultName  BY Default
    <3>3. \A i \in DOMAIN f : f[i].name # DefaultScenario.name  BY <2>2, <3>2
    <3> HIDE DEF all, named
    <3> QED  BY <1>4, <3>1, <3>3
  <2> QED  BY <2>1, <2>2
<1>6. DOMAIN all # {}
  <2>1. CASE named  BY <2>1
  <2>2. CASE ~named
    <3>1. Len(all) = Len(f) + 1 /\ Len(f) \in Nat  BY <1>1, <1>2, <2>2
    <3>2. DOMAIN all = 1..Len(all)  BY <1>3
    <3>3. 1 \in DOMAIN all  BY <3>1, <3>2
    <3> QED  BY <3>3
  <2> QED  BY <2>1, <2>2
<1>7. ASSUME FileValid(f), NEW i \in DOMAIN all  PROVE Placed(all[i])
  <2>1. CASE i \in DOMAIN f /\ all[i] = f[i]
    <3>1. ValidateAndCompile(f[i])  BY <1>7, <2>1 DEF FileValid
    <3>2. RouteMapValid(f[i].routes)  BY <3>1 DEF ValidateAndCompile, RoutesValid
    <3>3. f[i] \in Declared  BY <1>1, <2>1
    <3>4. IsScenario(f[i]) /\ Hashed(f[i])  BY <3>3, DeclaredOnes
    <3>5. Placed(f[i])  BY <3>2, <3>4, Placement
    <3> QED  BY <2>1, <3>5
  <2>2. CASE all[i] = DefaultScenario  BY <2>2, DefaultPlaced
  <2>3. (i \in DOMAIN f /\ all[i] = f[i]) \/ all[i] = DefaultScenario  BY <1>1, <1>2
  <2> QED  BY <2>1, <2>2, <2>3
<1>8. LoadedContents(f) = {one(i) : i \in DOMAIN all}  BY DEF LoadedContents
<1>9. PICK n \in Nat : DOMAIN all = 1..n /\ \A i \in 1..n : all[i] \in Declared  BY <1>3
<1> HIDE DEF all
<1>10. ASSUME NEW i \in DOMAIN all
       PROVE  one(i) \in Scenario /\ one(i).order = i - 1 /\ one(i).name = all[i].name
  <2>1. all[i] \in Declared /\ i - 1 \in Nat  BY <1>9
  <2> QED  BY <2>1, Ordered
<1>11. ASSUME NEW i \in DOMAIN all, Placed(all[i])  PROVE Placed(one(i))
  <2>1. all[i] \in Declared /\ i - 1 \in Nat  BY <1>9
  <2> QED  BY <1>11, <2>1, PlacedOrdered
<1> DEFINE g == [i \in DOMAIN all |-> one(i)]
<1>12. IsFiniteSet(LoadedContents(f))
  <2> HIDE DEF one
  <2>1. g \in [DOMAIN all -> LoadedContents(f)]  BY <1>8
  <2>2. \A s \in LoadedContents(f) : \E i \in DOMAIN all : g[i] = s  BY <1>8
  <2> HIDE DEF g
  <2>3. g \in Surjection(DOMAIN all, LoadedContents(f))  BY <2>1, <2>2 DEF Surjection
  <2>4. IsFiniteSet(DOMAIN all)  BY <1>9, FS_Interval
  <2> QED  BY <2>3, <2>4, FS_Surjection
<1> HIDE DEF one
<1>13. UniqueOrders(LoadedContents(f))
  <2> SUFFICES ASSUME NEW i \in DOMAIN all, NEW j \in DOMAIN all, one(i).order = one(j).order
               PROVE  one(i) = one(j)
    BY <1>8 DEF UniqueOrders
  <2>1. i - 1 = j - 1 /\ i \in Nat /\ j \in Nat  BY <1>9, <1>10
  <2>2. i = j  BY <2>1
  <2> QED  BY <2>2
<1>14. UniqueNames(LoadedContents(f))
  <2> SUFFICES ASSUME NEW i \in DOMAIN all, NEW j \in DOMAIN all, one(i).name = one(j).name
               PROVE  one(i) = one(j)
    BY <1>8 DEF UniqueNames
  <2>1. i = j  BY <1>5, <1>10
  <2> QED  BY <2>1
<1>15. LoadedContents(f) # {} /\ LoadedContents(f) \in SUBSET Scenario  BY <1>6, <1>8, <1>10
<1>16. FileValid(f) => \A s \in LoadedContents(f) : Placed(s)  BY <1>7, <1>8, <1>11
<1> QED  BY <1>12, <1>13, <1>14, <1>15, <1>16

\* The list that is made of a file.
LEMMA LoadedList ==
    ASSUME NEW f \in Files, NEW q, q = SortedByPriority(LoadedContents(f))
    PROVE  /\ q \in Seq(Scenario) /\ q # <<>> /\ Distinct(q)
           /\ ToSet(q) = LoadedContents(f) /\ UniqueNames(ToSet(q))
           /\ FileValid(f) => \A s \in ToSet(q) : Placed(s)
<1> DEFINE S == LoadedContents(f)
<1>1. /\ S \in SUBSET Scenario /\ IsFiniteSet(S) /\ S # {} /\ UniqueOrders(S) /\ UniqueNames(S)
      /\ FileValid(f) => \A s \in S : Placed(s)
  BY Loaded
<1> HIDE DEF S
<1>2. q \in Seq(S) /\ Len(q) = Cardinality(S) /\ Distinct(q)  BY <1>1, Sorted DEF S
<1>3. Cardinality(S) \in Nat /\ Cardinality(S) # 0  BY <1>1, FS_EmptySet, FS_CardinalityType
<1>4. q # <<>>  BY <1>2, <1>3
<1>5. ToSet(q) = S
  <2>1. DOMAIN q = 1..Cardinality(S) /\ q \in [DOMAIN q -> S]  BY <1>2, <1>3
  <2>2. q \in Injection(DOMAIN q, S)  BY <1>2, <2>1 DEF Distinct, Injection, IsInjective
  <2>3. Cardinality(DOMAIN q) = Cardinality(S)
    <3>1. 1 \in Int /\ Cardinality(S) \in Int  BY <1>3
    <3>2. Cardinality(1..Cardinality(S)) = IF 1 > Cardinality(S) THEN 0 ELSE Cardinality(S) - 1 + 1
      BY <3>1, FS_Interval
    <3> QED  BY <1>3, <2>1, <3>2
  <2>4. q \in Surjection(DOMAIN q, S)  BY <1>1, <2>2, <2>3, FS_Injection
  <2> QED  BY <2>4 DEF Surjection, ToSet
<1>6. q \in Seq(Scenario)  BY <1>1, <1>2
<1> QED  BY <1>1, <1>2, <1>4, <1>5, <1>6 DEF S

-----------------------------------------------------------------------------
(* The parts of the registry *)

ShardLists == [1..Shards -> Seq(Scenario)]
In(sh, g) == (UNION {ToSet(sh[i]) : i \in 1..Shards}) \cup ToSet(g)

\* Shards with the same lists are the same.
LEMMA SameLists ==
    ASSUME NEW a \in ShardLists, NEW b \in ShardLists, \A j \in 1..Shards : a[j] = b[j]
    PROVE  a = b
<1>1. a = [j \in 1..Shards |-> a[j]] /\ b = [j \in 1..Shards |-> b[j]]  BY DEF ShardLists
<1> QED  BY <1>1

\* Being in the registry.
LEMMA Inside ==
    ASSUME NEW sh, NEW g, NEW s
    PROVE  s \in In(sh, g) <=> s \in ToSet(g) \/ \E i \in 1..Shards : s \in ToSet(sh[i])
BY DEF In

\* What the registry holds are finitely many scenarios.
LEMMA InType ==
    ASSUME NEW sh \in ShardLists, NEW g \in Seq(Scenario)
    PROVE  In(sh, g) \in SUBSET Scenario /\ IsFiniteSet(In(sh, g))
<1>1. \A i \in 1..Shards : sh[i] \in Seq(Scenario)  BY DEF ShardLists
<1>2. \A q \in Seq(Scenario) : IsFiniteSet(ToSet(q)) /\ ToSet(q) \subseteq Scenario
  BY FiniteList DEF ToSet
<1> DEFINE F == {ToSet(sh[i]) : i \in 1..Shards}
           t == [i \in 1..Shards |-> ToSet(sh[i])]
<1>3. IsFiniteSet(F)
  <2>1. 1 \in Int /\ Shards \in Int  BY RegistryAssumption
  <2>2. IsFiniteSet(1..Shards)  BY <2>1, FS_Interval
  <2>3. t \in [1..Shards -> F] /\ \A x \in F : \E i \in 1..Shards : t[i] = x  OBVIOUS
  <2> HIDE DEF t, F
  <2>4. t \in Surjection(1..Shards, F)  BY <2>3 DEF Surjection
  <2> QED  BY <2>2, <2>4, FS_Surjection
<1>4. \A T \in F : IsFiniteSet(T) /\ T \subseteq Scenario  BY <1>1, <1>2
<1>5. In(sh, g) = (UNION F) \cup ToSet(g)  BY DEF In
<1> HIDE DEF F
<1>6. IsFiniteSet(UNION F) /\ IsFiniteSet(ToSet(g))  BY <1>2, <1>3, <1>4, FS_UNION
<1>7. IsFiniteSet((UNION F) \cup ToSet(g))  BY <1>6, FS_Union
<1> QED  BY <1>2, <1>4, <1>5, <1>7

\* replaceValidated installs every scenario of the list and nothing else.
LEMMA Built ==
    ASSUME NEW q \in Seq(Scenario), \A s \in ToSet(q) : Placed(s)
    PROVE  /\ BuiltShards(q) \in ShardLists /\ BuiltGlobal(q) \in Seq(Scenario)
           /\ Distinct(q) => Distinct(BuiltGlobal(q))
           /\ In(BuiltShards(q), BuiltGlobal(q)) = ToSet(q)
<1> DEFINE of(i) == {s \in ToSet(q) : IndexKeys(s, i) # {}}
           glob == {s \in ToSet(q) : IsGlobal(s)}
<1>1. BuiltShards(q) = [i \in 1..Shards |-> Keep(q, of(i))] /\ BuiltGlobal(q) = Keep(q, glob)
  BY DEF BuiltShards, BuiltGlobal
<1>2. \A S : /\ Keep(q, S) \in Seq(Scenario) /\ ToSet(Keep(q, S)) = ToSet(q) \cap S
             /\ Distinct(q) => Distinct(Keep(q, S))
  BY Kept
<1>3. \A s \in ToSet(q) : s \in glob \/ \E i \in 1..Shards : s \in of(i)  BY DEF Placed
<1> HIDE DEF of, glob
<1>4. BuiltShards(q) \in ShardLists  BY <1>1, <1>2 DEF ShardLists
<1>5. \A i \in 1..Shards : ToSet(BuiltShards(q)[i]) = ToSet(q) \cap of(i)  BY <1>1, <1>2
<1>6. ToSet(BuiltGlobal(q)) = ToSet(q) \cap glob  BY <1>1, <1>2
<1>7. ASSUME NEW s  PROVE s \in In(BuiltShards(q), BuiltGlobal(q)) <=> s \in ToSet(q)
  BY <1>3, <1>5, <1>6, Inside
<1>8. In(BuiltShards(q), BuiltGlobal(q)) = ToSet(q)  BY <1>7
<1> QED  BY <1>1, <1>2, <1>4, <1>8

\* indexScenario adds the scenario and nothing else.
LEMMA Indexed ==
    ASSUME NEW sh \in ShardLists, NEW g \in Seq(Scenario), NEW s \in Scenario, Placed(s)
    PROVE  /\ IndexedShards(sh, s) \in ShardLists /\ IndexedGlobal(g, s) \in Seq(Scenario)
           /\ Distinct(g) /\ s \notin In(sh, g) => Distinct(IndexedGlobal(g, s))
           /\ In(IndexedShards(sh, s), IndexedGlobal(g, s)) = In(sh, g) \cup {s}
<1>1. \A q \in Seq(Scenario) : /\ Append(q, s) \in Seq(Scenario) /\ ToSet(Append(q, s)) = ToSet(q) \cup {s}
                               /\ Distinct(q) /\ s \notin ToSet(q) => Distinct(Append(q, s))
  BY Appended
<1>2. \A i \in 1..Shards : sh[i] \in Seq(Scenario)  BY DEF ShardLists
<1>3. /\ DOMAIN IndexedShards(sh, s) = 1..Shards
      /\ IndexedShards(sh, s) = [i \in 1..Shards |-> IndexedShards(sh, s)[i]]
      /\ \A i \in 1..Shards : IndexedShards(sh, s)[i] = IF IndexKeys(s, i) = {} THEN sh[i] ELSE Append(sh[i], s)
  BY DEF IndexedShards
<1>4. IndexedShards(sh, s) \in ShardLists
  <2>1. \A i \in 1..Shards : IndexedShards(sh, s)[i] \in Seq(Scenario)  BY <1>1, <1>2, <1>3
  <2> QED  BY <1>3, <2>1 DEF ShardLists
<1>5. \A i \in 1..Shards : ToSet(IndexedShards(sh, s)[i]) = ToSet(sh[i]) \cup IF IndexKeys(s, i) = {} THEN {} ELSE {s}
  BY <1>1, <1>2, <1>3
<1>6. /\ IndexedGlobal(g, s) \in Seq(Scenario)
      /\ ToSet(IndexedGlobal(g, s)) = ToSet(g) \cup IF IsGlobal(s) THEN {s} ELSE {}
      /\ Distinct(g) /\ s \notin ToSet(g) => Distinct(IndexedGlobal(g, s))
  BY <1>1 DEF IndexedGlobal
<1>7. ASSUME NEW t
      PROVE  t \in In(IndexedShards(sh, s), IndexedGlobal(g, s)) <=> t \in In(sh, g) \cup {s}
  <2> DEFINE h == IndexedShards(sh, s)
             l == IndexedGlobal(g, s)
  <2>1. t \in In(h, l) <=> t \in ToSet(l) \/ \E i \in 1..Shards : t \in ToSet(h[i])  BY Inside
  <2>2. t \in In(sh, g) <=> t \in ToSet(g) \/ \E i \in 1..Shards : t \in ToSet(sh[i])  BY Inside
  <2>3. t \in ToSet(l) <=> t \in ToSet(g) \/ (t = s /\ IsGlobal(s))  BY <1>6
  <2>4. \A i \in 1..Shards : t \in ToSet(h[i]) <=> t \in ToSet(sh[i]) \/ (t = s /\ IndexKeys(s, i) # {})
    BY <1>5
  <2>5. IsGlobal(s) \/ \E i \in 1..Shards : IndexKeys(s, i) # {}  BY DEF Placed
  <2> HIDE DEF h, l
  <2>6. t \in In(h, l) <=> t \in In(sh, g) \/ t = s  BY <2>1, <2>2, <2>3, <2>4, <2>5
  <2> QED  BY <2>6 DEF h, l
<1>8. In(IndexedShards(sh, s), IndexedGlobal(g, s)) = In(sh, g) \cup {s}  BY <1>7
<1>9. ToSet(g) \subseteq In(sh, g)  BY Inside
<1> QED  BY <1>4, <1>6, <1>8, <1>9

\* Removing a name from a shard.
LEMMA Cleared ==
    ASSUME NEW q \in Seq(Scenario), NEW name
    PROVE  Without(q, name) \in Seq(Scenario) /\ ToSet(Without(q, name)) = Others(ToSet(q), name)
<1> DEFINE S == {s \in ToSet(q) : s.name # name}
<1>1. Without(q, name) = Keep(q, S)  BY DEF Without
<1>2. S = Others(ToSet(q), name)  BY DEF Others
<1>3. ToSet(q) \cap S = S  OBVIOUS
<1> HIDE DEF S
<1>4. Keep(q, S) \in Seq(Scenario) /\ ToSet(Keep(q, S)) = ToSet(q) \cap S  BY Kept
<1> QED  BY <1>1, <1>2, <1>3, <1>4

\* Removing a name from the global list, which has it at most once.
LEMMA ClearedFirst ==
    ASSUME NEW q \in Seq(Scenario), NEW name, Distinct(q), UniqueNames(ToSet(q))
    PROVE  /\ WithoutFirst(q, name) \in Seq(Scenario) /\ Distinct(WithoutFirst(q, name))
           /\ ToSet(WithoutFirst(q, name)) = Others(ToSet(q), name)
<1> DEFINE at == {i \in DOMAIN q : q[i].name = name}
           r == WithoutFirst(q, name)
<1>1. Len(q) \in Nat /\ DOMAIN q = 1..Len(q)  OBVIOUS
<1>2. CASE at = {}
  <2>1. r = q  BY <1>2 DEF WithoutFirst
  <2>2. Others(ToSet(q), name) = ToSet(q)  BY <1>2 DEF Others, ToSet
  <2> HIDE DEF r
  <2>3. r \in Seq(Scenario) /\ Distinct(r) /\ ToSet(r) = Others(ToSet(q), name)  BY <2>1, <2>2
  <2> QED  BY <2>3 DEF r
<1>3. CASE at # {}
  <2> DEFINE k == Min(at)
  <2>1. k \in at
    <3>1. at \in SUBSET Nat  BY <1>1
    <3> HIDE DEF at
    <3> QED  BY <1>3, <3>1, Least
  <2>2. r = RemoveAt(q, k)  BY <1>3 DEF WithoutFirst
  <2>3. k \in DOMAIN q /\ q[k].name = name  BY <2>1
  <2> HIDE DEF at, k, r
  <2>4. r \in Seq(Scenario)  BY <2>2, <2>3, Removed
  <2>5. Distinct(r) /\ ToSet(r) = ToSet(q) \ {q[k]}  BY <2>2, <2>3, TakenOut
  <2>6. q[k] \in ToSet(q)  BY <2>3 DEF ToSet
  <2>7. Others(ToSet(q), name) = ToSet(q) \ {q[k]}  BY <2>3, <2>6 DEF UniqueNames, Others
  <2> QED  BY <2>4, <2>5, <2>7 DEF r
<1> QED  BY <1>2, <1>3

\* The plain registry, when names are unique: the first of a name is the only one.
LEMMA RemovedOnes ==
    ASSUME NEW S, UniqueNames(S), NEW name
    PROVE  RemovedContents(S, name) = Others(S, name)
<1> DEFINE named == {s \in S : s.name = name}
           first == {s \in named : \A t \in named \ {s} : ScenarioOutranks(s, t)}
<1>1. \A s \in named : named \ {s} = {}  BY DEF UniqueNames
<1>2. first = named
  <2> HIDE DEF named
  <2> QED  BY <1>1
<1>3. FirstNamed(S, name) = named  BY <1>2 DEF FirstNamed
<1> QED  BY <1>3 DEF RemovedContents, Others

\* The order that Add gives.
LEMMA OrderType ==
    ASSUME NEW S \in SUBSET Scenario, IsFiniteSet(S), NEW name
    PROVE  ScenarioOrderForAdd(S, name) \in Nat
<1> DEFINE old == FirstNamed(S, name)
           next == {s.order + 1 : s \in S}
<1>0. \A s \in S : s.order \in Nat  BY Scenarios
<1>1. CASE old # {}
  <2>1. old \subseteq S  BY DEF FirstNamed
  <2>2. (CHOOSE s \in old : TRUE) \in S  BY <1>1, <2>1
  <2>3. ScenarioOrderForAdd(S, name) = (CHOOSE s \in old : TRUE).order  BY <1>1 DEF ScenarioOrderForAdd
  <2> HIDE DEF old
  <2> QED  BY <1>0, <2>2, <2>3
<1>2. CASE old = {}
  <2> DEFINE N == {0} \cup next
             o == [s \in S |-> s.order + 1]
  <2>1. ScenarioOrderForAdd(S, name) = Max(N)  BY <1>2 DEF ScenarioOrderForAdd, NextScenarioOrder
  <2>2. IsFiniteSet(next)
    <3>1. o \in [S -> next] /\ \A x \in next : \E s \in S : o[s] = x  OBVIOUS
    <3> HIDE DEF o, next
    <3>2. o \in Surjection(S, next)  BY <3>1 DEF Surjection
    <3> QED  BY <3>2, FS_Surjection
  <2>3. N \in SUBSET Nat /\ N # {}  BY <1>0
  <2>4. IsFiniteSet(N)
    <3>1. N = next \cup {0}  OBVIOUS
    <3>2. PICK z : z = 0  OBVIOUS
    <3> HIDE DEF next, N
    <3>3. IsFiniteSet(next \cup {z})  BY <2>2, FS_AddElement
    <3> QED  BY <3>1, <3>2, <3>3
  <2> HIDE DEF N
  <2>5. Max(N) \in Nat  BY <2>3, <2>4, GreatestOfFinite
  <2> QED  BY <2>1, <2>5
<1> QED  BY <1>1, <1>2

-----------------------------------------------------------------------------
(* Lookup *)

\* A branch is counted from 1, or 0.
LEMMA BranchType ==
    ASSUME NEW s \in Scenario, NEW req
    PROVE  MatchesScenario(s, req).branch \in Nat
<1>1. MatchesScenario(s, req).branch = SelectBranch(s, req)  BY DEF MatchesScenario
<1>2. s.branches \in Seq(ToSet(s.branches))  BY Scenarios
<1> DEFINE hits == {i \in DOMAIN s.branches : RulesMatch(s.branches[i].rule, req)}
<1>3. hits \in SUBSET Nat  BY <1>2
<1>4. SelectBranch(s, req) = IF hits = {} THEN 0 ELSE Min(hits)  BY DEF SelectBranch
<1> HIDE DEF hits
<1>5. hits # {} => Min(hits) \in Nat  BY <1>3, Least
<1> QED  BY <1>1, <1>4, <1>5

\* Evaluating candidates finds one of them, or leaves what was found before, or nothing.
LEMMA Evaluated ==
    ASSUME NEW S \in SUBSET Scenario, NEW q \in Seq(S), NEW c, c.best \in S \cup {Nobody}, c.branch \in Nat,
           NEW req
    PROVE  /\ Evaluate(q, c, req).best \in S \cup {Nobody}
           /\ Evaluate(q, c, req).branch \in Nat /\ Evaluate(q, c, req).err \in BOOLEAN
<1> DEFINE n == Len(q)
           verdict == [i \in DOMAIN q |-> MatchesScenario(q[i], req)]
           failed  == {i \in DOMAIN q : verdict[i].res = "error"}
           tried   == IF failed = {} THEN DOMAIN q ELSE 1..Min(failed)
           touched == {i \in tried : verdict[i].touched}
           V == S \cup {Nobody}
           better(i, b) == verdict[i].res = "yes" /\ (b = Nobody \/ ScenarioOutranks(q[i], b))
           Value(g, i) == IF i = 0 THEN c.best ELSE IF better(i, g[i - 1]) THEN q[i] ELSE g[i - 1]
           best == CHOOSE g : g = [i \in 0..n |-> Value(g, i)]
           F == [i \in 1..n |-> [v \in V |-> IF better(i, v) THEN q[i] ELSE v]]
           r == Evaluate(q, c, req)
<1>1. /\ r.err = (failed # {})
      /\ r.best = IF failed # {} THEN Nobody ELSE best[n]
      /\ r.branch = IF touched = {} THEN c.branch ELSE verdict[Max(touched)].branch
  BY DEF Evaluate
<1>2. n \in Nat /\ DOMAIN q = 1..n /\ \A i \in 1..n : q[i] \in S  OBVIOUS
<1>3. \A i \in 1..n : verdict[i].branch \in Nat
  <2> TAKE i \in 1..n
  <2>1. q[i] \in Scenario /\ verdict[i] = MatchesScenario(q[i], req)  BY <1>2
  <2> HIDE DEF verdict
  <2> QED  BY <2>1, BranchType
<1>4. touched \subseteq 1..n
  <2>1. failed \in SUBSET Nat /\ failed \subseteq 1..n  BY <1>2
  <2> HIDE DEF failed
  <2>2. failed # {} => Min(failed) \in 1..n  BY <2>1, Least
  <2>3. tried \subseteq 1..n  BY <1>2, <2>2
  <2> QED  BY <2>3
<1> HIDE DEF r, verdict, failed, touched
<1>5. r.branch \in Nat
  <2>1. CASE touched = {}  BY <1>1, <2>1
  <2>2. CASE touched # {}
    <3>1. touched \in SUBSET (0..n)  BY <1>2, <1>4
    <3> HIDE DEF n
    <3>2. Max(touched) \in touched  BY <1>2, <2>2, <3>1, Greatest
    <3> QED  BY <1>1, <1>3, <1>4, <2>2, <3>2
  <2> QED  BY <2>1, <2>2
<1> HIDE DEF better
<1>6. F \in [1..n -> [V -> V]]
  <2>1. ASSUME NEW i \in 1..n, NEW v \in V  PROVE (IF better(i, v) THEN q[i] ELSE v) \in V
    BY <1>2
  <2> HIDE DEF V
  <2> QED  BY <2>1
<1>7. PICK g \in [0..n -> V] : g[0] = c.best /\ \A i \in 1..n : g[i] = F[i][g[i - 1]]
  <2>1. PICK e \in V : e = c.best  OBVIOUS
  <2> HIDE DEF F, n, V
  <2>2. F \in Steps(n, V)  BY <1>2, <1>6 DEF Steps
  <2>3. \E g : Follows(g, n, V, e, F)  BY <1>2, <2>1, <2>2, Recursion
  <2> QED  BY <2>1, <2>3 DEF Follows
<1> HIDE DEF V
<1>8. g = [i \in 0..n |-> Value(g, i)]
  <2>1. ASSUME NEW i \in 0..n  PROVE g[i] = Value(g, i)
    <3>1. CASE i = 0  BY <1>7, <3>1
    <3>2. CASE i # 0
      <4>1. i \in 1..n /\ i - 1 \in 0..n  BY <1>2, <3>2
      <4>2. g[i - 1] \in V  BY <4>1
      <4>3. F[i][g[i - 1]] = Value(g, i)  BY <3>2, <4>1, <4>2
      <4> QED  BY <1>7, <4>1, <4>3
    <3> QED  BY <3>1, <3>2
  <2> HIDE DEF Value
  <2> QED  BY <1>7, <2>1
<1>9. best = [i \in 0..n |-> Value(best, i)]
  <2> HIDE DEF Value
  <2> QED  BY <1>8
<1> HIDE DEF best, F
<1>10. \A i \in 0..n : best[i] = Value(best, i)
  <2> HIDE DEF Value
  <2> QED  BY <1>9
<1> DEFINE G == {k \in 0..n : best[k] \in V}
<1>11. 0 \in G
  <2>1. 0 \in 0..n /\ best[0] = c.best  BY <1>2, <1>10
  <2> QED  BY <2>1 DEF V
<1>12. ASSUME NEW k \in Nat, k < n, k \in G  PROVE k + 1 \in G
  <2>1. k + 1 \in 0..n /\ k + 1 \in 1..n /\ (k + 1) - 1 = k /\ k + 1 # 0 /\ q[k + 1] \in V
    BY <1>2, <1>12 DEF V
  <2>2. best[k + 1] = IF better(k + 1, best[k]) THEN q[k + 1] ELSE best[k]  BY <1>10, <2>1
  <2> QED  BY <1>12, <2>1, <2>2
<1>13. n \in G
  <2> HIDE DEF G
  <2> QED  BY <1>2, <1>11, <1>12, UpTo
<1>14. r.best \in V  BY <1>1, <1>13 DEF V
<1>15. r.err \in BOOLEAN  BY <1>1
<1> QED  BY <1>5, <1>14, <1>15 DEF r, V

\* The candidates of a shard are in the shard.
LEMMA Candidates ==
    ASSUME Typed, NEW sh \in 1..Shards, NEW req, req.path \in Seq(ToSet(req.path))
    PROVE  IndexCandidates(sh, req) \in Seq(ToSet(shards[sh]))
<1> DEFINE keys == SearchKeys(req)
           T == ToSet(shards[sh])
           first(s) == Min({j \in DOMAIN keys : keys[j] \in IndexKeys(s, sh)} \cup {Len(keys) + 1})
           under(k) == Keep(shards[sh], {s \in T : k = first(s)})
           lists == [k \in DOMAIN keys |-> under(k)]
<1>1. shards[sh] \in Seq(T)
  <2>1. shards[sh] \in Seq(Scenario)  BY DEF Typed
  <2> QED  BY <2>1 DEF ToSet
<1>2. \E n \in Nat : DOMAIN keys = 1..n
  <2> DEFINE a == <<<<req.method, req.path>>, <<req.method, AnyPath>>, <<"*", req.path>>, <<"*", AnyPath>>>>
             m == Len(req.path)
             b == [i \in 1..m - 1 |-> <<req.method, SubSeq(req.path, 1, m - i)>>]
             U == {a[1], a[2], a[3], a[4]} \cup {b[i] : i \in 1..m - 1}
  <2>1. m \in Nat  OBVIOUS
  <2>2. keys = a \o b  BY DEF SearchKeys
  <2> HIDE DEF keys
  <2>3. a \in Seq(U) /\ Len(a) = 4
    <3>1. a[1] \in U /\ a[2] \in U /\ a[3] \in U /\ a[4] \in U  OBVIOUS
    <3> HIDE DEF U
    <3> QED  BY <3>1
  <2>4. b \in Seq(U)
    <3>1. DOMAIN b = 1..m - 1 /\ b = [i \in 1..m - 1 |-> b[i]]  OBVIOUS
    <3>2. \A i \in 1..m - 1 : b[i] \in U
      <4> HIDE DEF b, a
      <4> QED  OBVIOUS
    <3> DEFINE n == IF m = 0 THEN 0 ELSE m - 1
    <3>3. 1..m - 1 = 1..n /\ n \in Nat  BY <2>1
    <3> HIDE DEF U, b, m, n
    <3>4. b \in [1..n -> U]  BY <3>1, <3>2, <3>3
    <3> QED  BY <3>3, <3>4
  <2> HIDE DEF a, b, U
  <2>5. a \o b \in Seq(U)  BY <2>3, <2>4
  <2>6. Len(a \o b) \in Nat /\ DOMAIN (a \o b) = 1..Len(a \o b)  BY <2>5
  <2> QED  BY <2>2, <2>6
<1>3. PICK n \in Nat : DOMAIN keys = 1..n  BY <1>2
<1>4. \A k \in DOMAIN keys : under(k) \in Seq(T)
  <2> HIDE DEF first, T
  <2> QED  BY <1>1, Kept
<1>5. IndexCandidates(sh, req) = FlattenSeq(lists)  BY DEF IndexCandidates
<1> HIDE DEF keys, under
<1>6. lists \in Seq(Seq(T))
  <2> HIDE DEF T
  <2>1. lists \in [1..n -> Seq(T)]  BY <1>3, <1>4
  <2> QED  BY <2>1
<1> HIDE DEF lists, T
<1>7. FlattenSeq(lists) \in Seq(T)  BY <1>6, Flattened
<1> QED  BY <1>5, <1>7 DEF T

-----------------------------------------------------------------------------
(* The cache *)

\* An entry that is used moves to the front and all others stay.
LEMMA CacheMoved ==
    ASSUME OneEach(cache), NEW k \in DOMAIN cache
    PROVE  OneEach(MovedToFront(k)) /\ ToSet(MovedToFront(k)) = ToSet(cache)
<1> DEFINE r == RemoveAt(cache, k)
           e == cache[k]
<1>1. cache \in Seq(Entry) /\ e \in Entry /\ e \in ToSet(cache)  BY DEF OneEach, ToSet
<1>2. r \in Seq(Entry) /\ Len(r) = Len(cache) - 1  BY <1>1, Removed
<1>3. Distinct(r) /\ ToSet(r) = ToSet(cache) \ {e}  BY <1>1, TakenOut DEF OneEach
<1>4. MovedToFront(k) = <<e>> \o r  BY DEF MovedToFront
<1> HIDE DEF r, e
<1>5. /\ <<e>> \o r \in Seq(Entry) /\ Len(<<e>> \o r) = Len(r) + 1
      /\ ToSet(<<e>> \o r) = {e} \cup ToSet(r)
      /\ Distinct(r) /\ e \notin ToSet(r) => Distinct(<<e>> \o r)
  BY <1>1, <1>2, Prefixed
<1>6. ToSet(<<e>> \o r) = ToSet(cache)  BY <1>1, <1>3, <1>5
<1>7. Len(<<e>> \o r) = Len(cache) /\ Distinct(<<e>> \o r)  BY <1>1, <1>2, <1>3, <1>5
<1> QED  BY <1>4, <1>5, <1>6, <1>7 DEF OneEach

\* An entry that is put replaces the one with its key, or evicts the last when the cache is
\* full.
LEMMA CachePut ==
    ASSUME OneEach(cache), NEW e \in Entry
    PROVE  OneEach(PutGeneration(e)) /\ ToSet(PutGeneration(e)) \subseteq ToSet(cache) \cup {e}
<1> DEFINE S == {x \in ToSet(cache) : x.key # e.key}
           rest == Keep(cache, S)
           grown == <<e>> \o rest
           full == EntryAt(e.key) = {} /\ Len(grown) > CacheCap
<1>1. cache \in Seq(Entry) /\ Len(cache) \in Nat /\ Len(cache) <= CacheCap /\ CacheCap \in Nat /\ Distinct(cache)
  BY RegistryAssumption DEF OneEach
<1>2. /\ rest \in Seq(Entry) /\ ToSet(rest) = ToSet(cache) \cap S /\ Distinct(rest)
      /\ Len(rest) <= Len(cache)
      /\ (\E i \in DOMAIN cache : cache[i] \notin S) => Len(rest) < Len(cache)
  <2> HIDE DEF S
  <2> QED  BY <1>1, Kept
<1>3. e \notin ToSet(rest) /\ \A x \in ToSet(rest) : x \in ToSet(cache) /\ x.key # e.key  BY <1>2
<1>4. EntryAt(e.key) # {} => \E i \in DOMAIN cache : cache[i] \notin S  BY DEF EntryAt
<1>5. PutGeneration(e) = IF full THEN Front(grown) ELSE grown  BY DEF PutGeneration
<1> HIDE DEF S, rest
<1>6. /\ grown \in Seq(Entry) /\ Len(grown) = Len(rest) + 1
      /\ ToSet(grown) = {e} \cup ToSet(rest) /\ Distinct(grown)
  BY <1>2, <1>3, Prefixed
<1>7. Len(rest) \in Nat  BY <1>2
<1> HIDE DEF grown
<1>8. ToSet(grown) \subseteq ToSet(cache) \cup {e} /\ \A x, y \in ToSet(grown) : x.key = y.key => x = y
  BY <1>3, <1>6 DEF OneEach
<1>9. CASE full
  <2>1. Len(grown) > 0 /\ Len(grown) <= CacheCap + 1  BY <1>1, <1>2, <1>6, <1>7
  <2>2. /\ Front(grown) \in Seq(Entry) /\ Len(Front(grown)) = Len(grown) - 1
        /\ Distinct(Front(grown)) /\ ToSet(Front(grown)) \subseteq ToSet(grown)
    BY <1>6, <2>1, Shortened
  <2>3. Len(Front(grown)) <= CacheCap  BY <1>1, <1>6, <1>7, <2>1, <2>2
  <2> QED  BY <1>5, <1>8, <1>9, <2>2, <2>3 DEF OneEach
<1>10. CASE ~full
  <2>1. Len(grown) <= CacheCap
    <3>1. CASE EntryAt(e.key) # {}  BY <1>1, <1>2, <1>4, <1>6, <1>7, <3>1
    <3>2. CASE EntryAt(e.key) = {}  BY <1>1, <1>6, <1>7, <1>10, <3>2
    <3> QED  BY <3>1, <3>2
  <2> QED  BY <1>5, <1>6, <1>8, <1>10, <2>1 DEF OneEach
<1> QED  BY <1>9, <1>10

-----------------------------------------------------------------------------
(* Mutations *)

\* A mutation that waits, or whose part of the state stays, is where it was.
LEMMA OtherMutation ==
    ASSUME NEW q \in Mutators, Prepared(q), Contents(q), mut'[q] = mut[q],
           mut[q].pc \in Held => UNCHANGED <<shards, global, committed>>
    PROVE  Prepared(q)' /\ Contents(q)'
<1>1. CASE mut[q].pc \in Held
  <2>1. UNCHANGED <<shards, global, committed>>  BY <1>1
  <2>2. Present' = Present  BY <2>1 DEF Present
  <2>3. PlainEffect(q)' = PlainEffect(q)  BY <2>1 DEF PlainEffect
  <2>4. Replaces(q)' = Replaces(q)  BY DEF Replaces
  <2>5. Removing(q)' = Removing(q)  BY <2>1, <2>2, <2>4 DEF Removing
  <2>6. \A k : ShardsDone(q, k)' = ShardsDone(q, k)  BY <2>1 DEF ShardsDone
  <2>7. Prepared(q)'  BY <2>1, <2>4 DEF Prepared
  <2>8. Contents(q)'  BY <2>1, <2>2, <2>3, <2>4, <2>5, <2>6 DEF Contents
  <2> QED  BY <2>7, <2>8
<1>2. CASE mut[q].pc \notin Held
  <2>1. Replaces(q)' = Replaces(q)  BY DEF Replaces
  <2>2. Prepared(q)'  BY <1>2, <2>1 DEF Prepared
  <2>3. Contents(q)'  BY <1>2 DEF Contents, Held
  <2> QED  BY <2>2, <2>3
<1> QED  BY <1>1, <1>2

\* One mutation takes a step: the others keep their place, because only one is inside.
LEMMA Assembled ==
    ASSUME Mutex, Mutating, NEW p \in Mutators, \A q \in Mutators : q # p => mut'[q] = mut[q],
           UNCHANGED <<shards, global, committed>> \/ mut[p].pc \in Held,
           Prepared(p)', Contents(p)', ContentsAgree', UniqueNames(committed)', Distinct(global)'
    PROVE  Mutating'
<1>1. ASSUME NEW q \in Mutators, q # p  PROVE Prepared(q)' /\ Contents(q)'
  <2>1. mut[q].pc \in Held => mut[p].pc \notin Held  BY <1>1 DEF Mutex
  <2>2. Prepared(q) /\ Contents(q)  BY DEF Mutating
  <2> QED  BY <1>1, <2>1, <2>2, OtherMutation
<1> QED  BY <1>1 DEF Mutating

\* The holder of mutationMu does not change.
LEMMA MutexKept ==
    ASSUME Mutex, NEW p \in Mutators, \A q \in Mutators : q # p => mut'[q] = mut[q],
           mu' = mu, generation' = generation, mut'[p].pc \in Held <=> mut[p].pc \in Held
    PROVE  Mutex'
<1>1. \A q \in Mutators : mut'[q].pc \in Held <=> mut[q].pc \in Held  OBVIOUS
<1> QED  BY <1>1 DEF Mutex

\* A mutation inside has a number of steps before it; the plain facts about it.
LEMMA Inner ==
    ASSUME Typed, Mutex, NEW p \in Mutators, mut[p].pc \in Held
    PROVE  mu = p /\ mu # None
BY RegistryAssumption DEF Mutex

\* The kinds of a mutation under way.
LEMMA Kinds ==
    ASSUME Typed, Mutating, NEW p \in Mutators, mut[p].pc # "idle"
    PROVE  /\ mut[p].op \in Ops /\ mut[p].op.kind \in {"load", "reload", "add", "remove"}
           /\ Replaces(p) <=> mut[p].op.kind \notin {"add", "remove"}
           /\ mut[p].op.kind = "add" => mut[p].op.s \in Declared
<1>1. mut[p].op \in Ops  BY DEF Mutating, Prepared
<1>2. mut[p].op.kind \in {"load", "reload", "add", "remove"}  BY <1>1, RegistryAssumption
<1>3. mut[p].op.kind = "add" => mut[p].op.s \in Declared  BY <1>1 DEF Declared
<1> QED  BY <1>1, <1>2, <1>3 DEF Replaces

\* The shards and the global list hold scenarios.
LEMMA PresentType ==
    ASSUME Typed
    PROVE  shards \in ShardLists /\ global \in Seq(Scenario) /\ Present = In(shards, global)
           /\ Present \in SUBSET Scenario /\ IsFiniteSet(Present)
<1>1. shards \in ShardLists /\ global \in Seq(Scenario) /\ Present = In(shards, global)
  BY DEF Typed, ShardLists, Present, In
<1> QED  BY <1>1, InType

\* A call arrives; a Reload of a registry that was never loaded ends at once.
LEMMA BeginStep ==
    ASSUME Typed, Mutex, Mutating, NEW p \in Mutators, Begin(p)
    PROVE  Typed' /\ Mutex' /\ Mutating'
<1> DEFINE to(op) == CASE op.kind = "load" -> "read"
                       [] op.kind = "reload" -> IF loaded THEN "read" ELSE "done"
                       [] OTHER -> "lock"
<1>0. PICK op \in Ops : mut' = [mut EXCEPT ![p].op = op, ![p].pc = to(op)]  BY DEF Begin
<1>1. PICK pc : pc = to(op)  OBVIOUS
<1>2. mut[p].pc = "idle" /\ UNCHANGED <<store, mu, mat, disk, edits, committed, window>>  BY DEF Begin
<1>3. op.kind \in {"load", "reload", "add", "remove"}  BY RegistryAssumption
<1>4. /\ pc \in {"read", "done", "lock"}
      /\ pc = "read" => op.kind \in {"load", "reload"}
      /\ pc = "lock" => op.kind \in {"add", "remove"}
  BY <1>1, <1>3
<1>41. /\ \A q \in Mutators : q # p => mut'[q] = mut[q]
      /\ mut'[p].op = op /\ mut'[p].next = mut[p].next /\ mut'[p].i = mut[p].i /\ mut'[p].hit = mut[p].hit
      /\ mut'[p].pc = pc
      /\ mut' \in [Mutators -> MutRecord]
  <2> HIDE DEF to
  <2>1. mut' = [mut EXCEPT ![p].op = op, ![p].pc = pc] /\ pc \in MutPcs  BY <1>0, <1>1, <1>4 DEF MutPcs
  <2>2. mut \in [Mutators -> MutRecord] /\ mut[p] \in MutRecord  BY DEF Typed
  <2> DEFINE r == [[mut[p] EXCEPT !.op = op] EXCEPT !.pc = pc]
  <2>3. op \in Ops \cup {IdleMut.op}  OBVIOUS
  <2>4. r \in MutRecord /\ r.op = op /\ r.pc = pc /\ r.next = mut[p].next /\ r.i = mut[p].i /\ r.hit = mut[p].hit
    BY <2>1, <2>2, <2>3 DEF MutRecord
  <2>5. mut' = [mut EXCEPT ![p] = r]  BY <2>1, <2>2
  <2> HIDE DEF r
  <2> QED  BY <2>2, <2>4, <2>5
<1>5. Typed'  BY <1>2, <1>4, <1>41 DEF Typed, store
<1>6. Mutex'  BY <1>2, <1>4, <1>41, MutexKept DEF Held, store
<1>7. Prepared(p)'
  <2>1. mut[p].i = 1 /\ mut[p].hit = FALSE  BY <1>2 DEF Mutating, Prepared
  <2> QED  BY <1>4, <1>41, <2>1 DEF Prepared, Replaces, Held
<1>8. Contents(p)'  BY <1>4, <1>41 DEF Contents
<1>9. ContentsAgree' /\ UniqueNames(committed)' /\ Distinct(global)'
  BY <1>2 DEF Mutating, ContentsAgree, Present, store
<1>10. Mutating'  BY <1>2, <1>4, <1>41, <1>7, <1>8, <1>9, Assembled DEF store
<1> QED  BY <1>5, <1>6, <1>10

\* The file is read and validated before any lock is taken.
LEMMA ReadFileStep ==
    ASSUME Typed, Mutex, Mutating, NEW p \in Mutators, ReadFile(p)
    PROVE  Typed' /\ Mutex' /\ Mutating'
<1> DEFINE q == SortedByPriority(LoadedContents(disk))
<1>1. /\ q \in Seq(Scenario) /\ q # <<>> /\ Distinct(q) /\ UniqueNames(ToSet(q))
      /\ FileValid(disk) => \A s \in ToSet(q) : Placed(s)
  <2>1. disk \in Files  BY DEF Typed
  <2> HIDE DEF q
  <2> QED  BY <2>1, LoadedList DEF q
<1>2. /\ mut[p].pc = "read" /\ UNCHANGED <<store, mu, mat, disk, edits, committed, window>>
      /\ mut' = [mut EXCEPT ![p].next = q,
                   ![p].pc = IF ~FileValid(disk) THEN "done"
                             ELSE IF mut[p].op.kind = "load" THEN "lock" ELSE "list"]
  BY DEF ReadFile
<1> HIDE DEF q
<1>3. /\ \A k \in Mutators : k # p => mut'[k] = mut[k]
      /\ mut'[p].op = mut[p].op /\ mut'[p].next = q /\ mut'[p].i = mut[p].i /\ mut'[p].hit = mut[p].hit
      /\ mut'[p].pc \in {"done", "lock", "list"} /\ (mut'[p].pc # "done" => FileValid(disk))
      /\ mut' \in [Mutators -> MutRecord]
  <2>1. PICK pc \in {"done", "lock", "list"} :
            /\ mut' = [mut EXCEPT ![p].next = q, ![p].pc = pc] /\ (pc # "done" => FileValid(disk))
    BY <1>2
  <2>2. mut \in [Mutators -> MutRecord] /\ mut[p] \in MutRecord  BY DEF Typed
  <2> QED  BY <1>1, <2>1, <2>2 DEF MutRecord, MutPcs
<1>4. Typed'  BY <1>2, <1>3 DEF Typed, store
<1>5. Mutex'  BY <1>2, <1>3, MutexKept DEF Held, store
<1>6. Prepared(p)'
  <2>1. mut[p].i = 1 /\ mut[p].hit = FALSE /\ mut[p].op \in Ops /\ Replaces(p)
    BY <1>2 DEF Mutating, Prepared
  <2>2. 1 \in 1..Shards + 1  BY RegistryAssumption
  <2> QED  BY <1>1, <1>3, <2>1, <2>2 DEF Prepared, Replaces, Held
<1>7. Contents(p)'  BY <1>3 DEF Contents
<1>8. ContentsAgree' /\ UniqueNames(committed)' /\ Distinct(global)'
  BY <1>2 DEF Mutating, ContentsAgree, Present, store
<1>9. Mutating'  BY <1>2, <1>3, <1>6, <1>7, <1>8, Assembled DEF store
<1> QED  BY <1>4, <1>5, <1>9

\* The topology check reads the lists and changes nothing.
LEMMA ListShardStep ==
    ASSUME Typed, Mutex, Mutating, NEW p \in Mutators, ListShard(p)
    PROVE  Typed' /\ Mutex' /\ Mutating'
<1> DEFINE part == IF mut[p].i > Shards THEN global ELSE shards[mut[p].i]
           more == mut[p].list \cup ToSet(part)
<1>1. /\ mut[p].pc = "list" /\ UNCHANGED <<store, mu, mat, disk, edits, committed, window>>
      /\ mut' = [mut EXCEPT ![p].list = more,
                     ![p].i = IF mut[p].i > Shards THEN 1 ELSE mut[p].i + 1,
                     ![p].pc = IF mut[p].i <= Shards THEN "list"
                               ELSE IF TopologyKept(more, ToSet(mut[p].next)) THEN "lock" ELSE "done"]
  BY DEF ListShard
<1>2. mut[p].i \in 1..Shards + 1 /\ mut[p].hit = FALSE /\ mut[p].op \in Ops /\ Replaces(p) /\ Shards \in Nat
  BY <1>1, RegistryAssumption DEF Mutating, Prepared
<1>3. more \in SUBSET Scenario
  <2>1. part \in Seq(Scenario)  BY <1>2 DEF Typed
  <2>2. ToSet(part) \subseteq Scenario
    <3> HIDE DEF part
    <3> QED  BY <2>1 DEF ToSet
  <2> HIDE DEF part
  <2> QED  BY <2>2 DEF Typed, MutRecord
<1> HIDE DEF more
<1>4. /\ \A k \in Mutators : k # p => mut'[k] = mut[k]
      /\ mut'[p].op = mut[p].op /\ mut'[p].next = mut[p].next /\ mut'[p].hit = mut[p].hit
      /\ mut'[p].pc \in {"done", "lock", "list"}
      /\ mut'[p].pc = "list" => mut'[p].i \in 1..Shards + 1
      /\ mut'[p].pc = "lock" => mut'[p].i = 1
      /\ mut' \in [Mutators -> MutRecord]
  BY <1>1, <1>2, <1>3 DEF Typed, MutRecord, MutPcs
<1>5. Typed'  BY <1>1, <1>4 DEF Typed, store
<1>6. Mutex'  BY <1>1, <1>4, MutexKept DEF Held, store
<1>7. Prepared(p)'
  <2>1. /\ mut[p].next # <<>> /\ Distinct(mut[p].next) /\ UniqueNames(ToSet(mut[p].next))
        /\ \A s \in ToSet(mut[p].next) : Placed(s)
    BY <1>1, <1>2 DEF Mutating, Prepared
  <2> QED  BY <1>2, <1>4, <2>1 DEF Prepared, Replaces, Held
<1>8. Contents(p)'  BY <1>4 DEF Contents
<1>9. ContentsAgree' /\ UniqueNames(committed)' /\ Distinct(global)'
  BY <1>1 DEF Mutating, ContentsAgree, Present, store
<1>10. Mutating'  BY <1>1, <1>4, <1>7, <1>8, <1>9, Assembled DEF store
<1> QED  BY <1>5, <1>6, <1>10

\* mutationMu is taken with the contents still in force; Add fixes the order of its scenario.
LEMMA LockStep ==
    ASSUME Typed, Mutex, Mutating, NEW p \in Mutators, Lock(p)
    PROVE  Typed' /\ Mutex' /\ Mutating'
<1> DEFINE op == mut[p].op
           order == ScenarioOrderForAdd(committed, op.s.name)
           s == [op.s EXCEPT !.order = order]
           next == IF op.kind # "add" THEN mut[p].next ELSE <<s>>
           pc == IF op.kind = "add" /\ ~ValidateAndCompile(op.s) THEN "refused" ELSE "shard"
<1>1. /\ mut[p].pc = "lock" /\ mu = None /\ mu' = p /\ generation' = generation + 1
      /\ cacheOff' = IF op.kind = "load" THEN AnyDisablesCache(ToSet(mut[p].next)) ELSE cacheOff
      /\ UNCHANGED <<shards, global, cache, loaded, mat, disk, edits, committed, window>>
  BY DEF Lock
<1>2. Present = committed  BY <1>1 DEF Mutating, ContentsAgree
<1>3. mut' = [mut EXCEPT ![p].pc = pc, ![p].next = next]
  BY <1>2 DEF Lock, Present
<1>4. /\ op \in Ops /\ op.kind \in {"load", "reload", "add", "remove"}
      /\ Replaces(p) <=> op.kind \notin {"add", "remove"}
      /\ op.kind = "add" => op.s \in Declared
  BY <1>1, Kinds
<1>5. order \in Nat
  <2>1. committed \in SUBSET Scenario /\ IsFiniteSet(committed)  BY <1>2, PresentType
  <2> QED  BY <2>1, OrderType
<1>6. op.kind = "add" => s \in Scenario
  <2> HIDE DEF order, op
  <2> QED  BY <1>4, <1>5, Ordered
<1>7. ASSUME op.kind = "add", ValidateAndCompile(op.s)  PROVE Placed(s)
  <2>1. op.s \in Declared /\ RouteMapValid(op.s.routes)  BY <1>4, <1>7 DEF ValidateAndCompile, RoutesValid
  <2>2. IsScenario(op.s) /\ Hashed(op.s)  BY <2>1, DeclaredOnes
  <2>3. Placed(op.s)  BY <2>1, <2>2, Placement
  <2> HIDE DEF order, op
  <2> QED  BY <1>5, <2>1, <2>3, PlacedOrdered
<1> HIDE DEF s, order
<1>8. next \in Seq(Scenario)
  <2>1. mut[p].next \in Seq(Scenario)  BY DEF Typed, MutRecord
  <2>2. CASE op.kind = "add"
    <3>1. s \in Scenario  BY <1>6, <2>2
    <3>2. <<s>> \in Seq(Scenario)  BY <3>1
    <3> QED  BY <2>2, <3>2
  <2> QED  BY <2>1, <2>2
<1>9. pc \in {"refused", "shard"}  OBVIOUS
<1>10. /\ \A k \in Mutators : k # p => mut'[k] = mut[k]
       /\ mut'[p].op = op /\ mut'[p].next = next /\ mut'[p].i = mut[p].i /\ mut'[p].hit = mut[p].hit
       /\ mut'[p].pc = pc /\ mut' \in [Mutators -> MutRecord]
  <2>1. mut \in [Mutators -> MutRecord] /\ mut[p] \in MutRecord  BY DEF Typed
  <2>2. pc \in MutPcs  BY DEF MutPcs
  <2>3. mut[p].op = op  OBVIOUS
  <2> DEFINE r == [[mut[p] EXCEPT !.pc = pc] EXCEPT !.next = next]
  <2> HIDE DEF next, pc, op
  <2>4. r \in MutRecord /\ r.op = op /\ r.pc = pc /\ r.next = next /\ r.i = mut[p].i /\ r.hit = mut[p].hit
    BY <1>8, <2>1, <2>2, <2>3 DEF MutRecord
  <2>5. mut' = [mut EXCEPT ![p] = r]  BY <1>3, <2>1
  <2> HIDE DEF r
  <2> QED  BY <2>1, <2>4, <2>5
<1>11. cacheOff' \in BOOLEAN
  <2>1. AnyDisablesCache(ToSet(mut[p].next)) \in BOOLEAN  BY DEF AnyDisablesCache
  <2> QED  BY <1>1, <2>1 DEF Typed
<1>12. Typed'
  <2>1. generation' \in Nat  BY <1>1 DEF Typed
  <2>2. mu' \in Mutators  BY <1>1
  <2> QED  BY <1>1, <1>10, <1>11, <2>1, <2>2 DEF Typed
<1>13. Mutex'
  <2>1. \A k \in Mutators : mut[k].pc \notin Held  BY <1>1, RegistryAssumption DEF Mutex
  <2>2. mut'[p].pc \in Held  BY <1>9, <1>10 DEF Held
  <2>3. \A k \in Mutators : mu' = k <=> mut'[k].pc \in Held  BY <1>1, <1>10, <2>1, <2>2
  <2>4. generation \in Nat /\ generation % 2 = 0  BY <1>1 DEF Typed, Mutex
  <2>5. (generation + 1) % 2 # 0  BY <2>4
  <2> QED  BY <1>1, <2>3, <2>5, RegistryAssumption DEF Mutex
<1>14. Prepared(p)'
  <2>1. mut[p].i = 1 /\ mut[p].hit = FALSE  BY <1>1 DEF Mutating, Prepared
  <2>2. Replaces(p) => /\ mut[p].next # <<>> /\ Distinct(mut[p].next) /\ UniqueNames(ToSet(mut[p].next))
                       /\ \A t \in ToSet(mut[p].next) : Placed(t)
    BY <1>1 DEF Mutating, Prepared
  <2>3. 1 \in 1..Shards  BY RegistryAssumption
  <2>4. Replaces(p)' = Replaces(p)  BY <1>10 DEF Replaces
  <2>5. pc # "refused" /\ op.kind = "add" => Placed(s)  BY <1>7
  <2>6. Replaces(p) => next = mut[p].next  BY <1>4
  <2>7. op.kind = "add" => next = <<s>> /\ ~Replaces(p)  BY <1>4
  <2> HIDE DEF next, pc
  <2>8. Replaces(p)' => /\ mut'[p].next # <<>> /\ Distinct(mut'[p].next) /\ UniqueNames(ToSet(mut'[p].next))
                        /\ \A t \in ToSet(mut'[p].next) : Placed(t)
    BY <1>10, <2>2, <2>4, <2>6
  <2>9. mut'[p].op.kind = "add" /\ mut'[p].pc # "refused" =>
           mut'[p].next = <<[mut'[p].op.s EXCEPT !.order = ScenarioOrderForAdd(committed', mut'[p].op.s.name)]>>
           /\ Placed([mut'[p].op.s EXCEPT !.order = ScenarioOrderForAdd(committed', mut'[p].op.s.name)])
    BY <1>1, <1>10, <2>5, <2>7 DEF s, order
  <2> HIDE DEF op
  <2> QED  BY <1>4, <1>9, <1>10, <2>1, <2>3, <2>8, <2>9 DEF Prepared
<1>15. Present' = Present  BY <1>1 DEF Present
<1>16. Contents(p)'
  <2>1. mut[p].i = 1  BY <1>1 DEF Mutating, Prepared
  <2>2. ShardsDone(p, mut[p].i)'  BY <1>10, <2>1 DEF ShardsDone
  <2>3. Removing(p)'  BY <1>1, <1>2, <1>15 DEF Removing, Others
  <2> HIDE DEF pc
  <2> QED  BY <1>1, <1>2, <1>9, <1>10, <1>15, <2>2, <2>3 DEF Contents
<1>17. ContentsAgree' /\ UniqueNames(committed)' /\ Distinct(global)'
  BY <1>1, RegistryAssumption DEF Mutating, ContentsAgree
<1>18. Mutating'  BY <1>1, <1>10, <1>14, <1>16, <1>17, Assembled
<1> QED  BY <1>12, <1>13, <1>18

\* A shard is emptied, replaced, or relieved of the name.
LEMMA UpdateShardStep ==
    ASSUME Typed, Mutex, Mutating, NEW p \in Mutators, UpdateShard(p)
    PROVE  Typed' /\ Mutex' /\ Mutating'
<1> DEFINE op == mut[p].op
           name == NameOf(op)
           i == mut[p].i
           new == NewPart(op, BuiltShards(mut[p].next)[i], Without(shards[i], name))
           hit == mut[p].hit \/ new # shards[i]
           pc == IF i = Shards THEN "global" ELSE "shard"
           to == IF i = Shards THEN 1 ELSE i + 1
<1>1. /\ mut[p].pc = "shard" /\ shards' = [shards EXCEPT ![i] = new]
      /\ mut' = [mut EXCEPT ![p].i = to, ![p].pc = pc, ![p].hit = hit]
      /\ UNCHANGED <<global, generation, cacheOff, cache, loaded, mu, mat, disk, edits, committed, window>>
  BY DEF UpdateShard
<1>2. /\ op \in Ops /\ op.kind \in {"load", "reload", "add", "remove"}
      /\ Replaces(p) <=> op.kind \notin {"add", "remove"}
  BY <1>1, Kinds
<1>3. i \in 1..Shards /\ Shards \in Nat  BY <1>1, RegistryAssumption DEF Mutating, Prepared
<1>4. shards \in ShardLists /\ shards[i] \in Seq(Scenario) /\ global \in Seq(Scenario)
  BY <1>3, PresentType DEF ShardLists
<1>5. ASSUME Replaces(p)
      PROVE  mut[p].next \in Seq(Scenario) /\ \A s \in ToSet(mut[p].next) : Placed(s)
  BY <1>1, <1>5 DEF Typed, MutRecord, Mutating, Prepared, Held
<1>6. ASSUME op.kind = "reload"  PROVE BuiltShards(mut[p].next)[i] \in Seq(Scenario)
  <2>1. Replaces(p)  BY <1>6 DEF Replaces
  <2>2. BuiltShards(mut[p].next) \in ShardLists  BY <1>5, <2>1, Built
  <2> QED  BY <1>3, <2>2 DEF ShardLists
<1>7. Without(shards[i], name) \in Seq(Scenario) /\ ToSet(Without(shards[i], name)) = Others(ToSet(shards[i]), name)
  BY <1>4, Cleared
<1>8. /\ op.kind = "load" => new = <<>>
      /\ op.kind = "reload" => new = BuiltShards(mut[p].next)[i]
      /\ ~Replaces(p) => new = Without(shards[i], name)
  BY <1>2 DEF NewPart
<1>9. new \in Seq(Scenario)
  <2>1. <<>> \in Seq(Scenario)  OBVIOUS
  <2> HIDE DEF new, op
  <2> QED  BY <1>2, <1>6, <1>7, <1>8, <2>1
<1> HIDE DEF new, name
<1>10. shards' \in ShardLists /\ shards'[i] = new /\ \A j \in 1..Shards : j # i => shards'[j] = shards[j]
  BY <1>1, <1>3, <1>4, <1>9 DEF ShardLists
<1>11. to \in Nat /\ pc \in {"global", "shard"} /\ hit \in BOOLEAN
  <2>1. mut[p].hit \in BOOLEAN  BY DEF Typed, MutRecord
  <2> QED  BY <1>3, <2>1
<1>12. /\ \A k \in Mutators : k # p => mut'[k] = mut[k]
       /\ mut'[p].op = op /\ mut'[p].next = mut[p].next /\ mut'[p].i = to /\ mut'[p].hit = hit
       /\ mut'[p].pc = pc /\ mut' \in [Mutators -> MutRecord]
  <2>1. mut \in [Mutators -> MutRecord] /\ mut[p] \in MutRecord  BY DEF Typed
  <2>2. pc \in MutPcs  BY DEF MutPcs
  <2>3. mut[p].op = op  OBVIOUS
  <2> DEFINE r == [[[mut[p] EXCEPT !.i = to] EXCEPT !.pc = pc] EXCEPT !.hit = hit]
  <2> HIDE DEF to, pc, hit, op
  <2>4. r \in MutRecord /\ r.op = op /\ r.pc = pc /\ r.next = mut[p].next /\ r.i = to /\ r.hit = hit
    BY <1>11, <2>1, <2>2, <2>3 DEF MutRecord
  <2>5. mut' = [mut EXCEPT ![p] = r]  BY <1>1, <2>1
  <2> HIDE DEF r
  <2> QED  BY <2>1, <2>4, <2>5
<1>13. Typed'  BY <1>1, <1>10, <1>12 DEF Typed, ShardLists
<1>14. Mutex'
  <2>1. mut'[p].pc \in Held /\ mut[p].pc \in Held  BY <1>1, <1>11, <1>12 DEF Held
  <2> QED  BY <1>1, <1>12, <2>1, MutexKept
<1>15. Prepared(p)'
  <2>1. Replaces(p)' = Replaces(p)  BY <1>12 DEF Replaces
  <2>2. Prepared(p)  BY DEF Mutating
  <2>3. pc = "shard" => to \in 1..Shards  BY <1>3
  <2>4. pc = "global" => to = 1  BY <1>3
  <2> HIDE DEF pc, to, hit
  <2> QED  BY <1>1, <1>11, <1>12, <2>1, <2>2, <2>3, <2>4 DEF Prepared, Held
<1>16. Present' = In(shards', global)  BY <1>1 DEF Present, In
<1>17. Present = In(shards, global)  BY PresentType
<1>18. Removing(p)'
  <2> SUFFICES ASSUME ~Replaces(p)
               PROVE  /\ Present' \subseteq committed /\ Others(committed, name) \subseteq Present'
                      /\ hit = FALSE => Present' = committed
    BY <1>1, <1>12 DEF Removing, Replaces, name
  <2>1. /\ Present \subseteq committed /\ Others(committed, name) \subseteq Present
        /\ mut[p].hit = FALSE => Present = committed
    BY <1>1 DEF Mutating, Contents, Removing, name
  <2>2. new = Without(shards[i], name) /\ ToSet(new) = Others(ToSet(shards[i]), name)  BY <1>7, <1>8
  <2>3. \A j \in 1..Shards : ToSet(shards'[j]) \subseteq ToSet(shards[j])  BY <1>10, <2>2 DEF Others
  <2>4. Present' \subseteq Present  BY <1>16, <1>17, <2>3, Inside
  <2>5. \A x : x.name # name => \A j \in 1..Shards : x \in ToSet(shards[j]) => x \in ToSet(shards'[j])
    BY <1>10, <2>2 DEF Others
  <2>6. \A x : x.name # name => (x \in Present => x \in Present')
    BY <1>16, <1>17, <2>5, Inside
  <2>7. Others(committed, name) \subseteq Present'  BY <2>1, <2>6 DEF Others
  <2>8. ASSUME hit = FALSE  PROVE Present' = committed
    <3>1. new = shards[i] /\ mut[p].hit = FALSE  BY <2>8 DEF Typed, MutRecord
    <3>2. shards' = shards  BY <1>1, <1>3, <1>4, <3>1 DEF ShardLists
    <3> QED  BY <1>16, <1>17, <2>1, <3>1, <3>2
  <2> QED  BY <2>1, <2>4, <2>7, <2>8
<1>190. PICK n : n = i  OBVIOUS
<1>19. ShardsDone(p, n + 1)'
  <2> SUFFICES ASSUME NEW j \in 1..i
               PROVE  CASE op.kind = "load" -> shards'[j] = <<>>
                        [] op.kind = "reload" -> shards'[j] = BuiltShards(mut[p].next)[j]
                        [] OTHER -> \A s \in ToSet(shards'[j]) : s.name # name
    <3>1. (n + 1) - 1 = i  BY <1>3, <1>190
    <3> QED  BY <1>12, <3>1 DEF ShardsDone, name
  <2>1. CASE j = i
    <3>1. ~Replaces(p) => \A s \in ToSet(new) : s.name # name  BY <1>7, <1>8 DEF Others
    <3> HIDE DEF op
    <3> QED  BY <1>2, <1>8, <1>10, <1>3, <2>1, <3>1
  <2>2. CASE j # i
    <3>1. j \in 1..i - 1 /\ j \in 1..Shards  BY <1>3, <2>2
    <3>2. ShardsDone(p, i)  BY <1>1 DEF Mutating, Contents
    <3>3. shards'[j] = shards[j]  BY <1>10, <2>2, <3>1
    <3> QED  BY <3>1, <3>2, <3>3 DEF ShardsDone, name
  <2> QED  BY <2>1, <2>2
<1>20. Contents(p)'
  <2>1. CASE i = Shards
    <3>1. mut'[p].pc = "global" /\ ShardsDone(p, Shards + 1)'  BY <1>12, <1>190, <1>19, <2>1
    <3> QED  BY <1>18, <3>1 DEF Contents
  <2>2. CASE i # Shards
    <3>1. mut'[p].pc = "shard" /\ mut'[p].i = n + 1  BY <1>12, <1>190, <2>2
    <3>2. ShardsDone(p, mut[p].i)'  BY <1>19, <3>1
    <3> QED  BY <1>18, <3>1, <3>2 DEF Contents
  <2> QED  BY <2>1, <2>2
<1>21. ContentsAgree' /\ UniqueNames(committed)' /\ Distinct(global)'
  <2>1. mu # None  BY <1>1, Inner DEF Held
  <2> QED  BY <1>1, <2>1 DEF Mutating, ContentsAgree
<1>22. Mutating'  BY <1>1, <1>12, <1>15, <1>20, <1>21, Assembled DEF Held
<1> QED  BY <1>13, <1>14, <1>22

\* The global list follows; then every copy of the name is gone, or the file's lists are in
\* place, or nothing is left.
LEMMA UpdateGlobalStep ==
    ASSUME Typed, Mutex, Mutating, NEW p \in Mutators, UpdateGlobal(p)
    PROVE  Typed' /\ Mutex' /\ Mutating'
<1> DEFINE op == mut[p].op
           name == NameOf(op)
           next == mut[p].next
           new == NewPart(op, BuiltGlobal(next), WithoutFirst(global, name))
           removed == mut[p].hit \/ new # global
           pc == IF op.kind # "load" /\ (op.kind = "reload" \/ removed) THEN "flag"
                 ELSE IF op.kind = "remove" THEN "refused" ELSE "index"
<1>1. /\ mut[p].pc = "global" /\ global' = new /\ loaded' = (loaded \/ op.kind = "reload")
      /\ mut' = [mut EXCEPT ![p].pc = pc]
      /\ UNCHANGED <<shards, generation, cacheOff, cache, mu, mat, disk, edits, committed, window>>
  BY DEF UpdateGlobal
<1>2. /\ op \in Ops /\ op.kind \in {"load", "reload", "add", "remove"}
      /\ Replaces(p) <=> op.kind \notin {"add", "remove"}
  BY <1>1, Kinds
<1>3. shards \in ShardLists /\ global \in Seq(Scenario) /\ Present = In(shards, global)  BY PresentType
<1>4. Prepared(p) /\ ShardsDone(p, Shards + 1) /\ Removing(p) /\ UniqueNames(committed) /\ Distinct(global)
  BY <1>1 DEF Mutating, Contents
<1>5. next \in Seq(Scenario) /\ mut[p].i = 1 /\ mut[p].hit \in BOOLEAN
  BY <1>1, <1>4 DEF Typed, MutRecord, Prepared
<1>6. ASSUME Replaces(p)
      PROVE  next # <<>> /\ Distinct(next) /\ \A s \in ToSet(next) : Placed(s)
  BY <1>1, <1>4, <1>6 DEF Prepared, Held
<1>7. ASSUME ~Replaces(p)
      PROVE  /\ WithoutFirst(global, name) \in Seq(Scenario) /\ Distinct(WithoutFirst(global, name))
             /\ ToSet(WithoutFirst(global, name)) = Others(ToSet(global), name)
  <2>1. ToSet(global) \subseteq committed  BY <1>3, <1>4, <1>7, Inside DEF Removing
  <2>2. UniqueNames(ToSet(global))  BY <1>4, <2>1 DEF UniqueNames
  <2> QED  BY <1>3, <1>4, <2>2, ClearedFirst
<1>8. /\ op.kind = "load" => new = <<>>
      /\ op.kind = "reload" => new = BuiltGlobal(next)
      /\ ~Replaces(p) => new = WithoutFirst(global, name)
  BY <1>2 DEF NewPart
<1>9. new \in Seq(Scenario) /\ Distinct(new)
  <2>1. CASE op.kind = "load"
    <3>1. <<>> \in Seq(Scenario) /\ Distinct(<<>>)  BY DEF Distinct
    <3> HIDE DEF new
    <3> QED  BY <1>8, <2>1, <3>1
  <2>2. CASE op.kind = "reload"
    <3>1. Replaces(p)  BY <2>2 DEF Replaces
    <3>2. BuiltGlobal(next) \in Seq(Scenario) /\ Distinct(BuiltGlobal(next))  BY <1>5, <1>6, <3>1, Built
    <3> HIDE DEF new
    <3> QED  BY <1>8, <2>2, <3>2
  <2>3. CASE ~Replaces(p)
    <3> HIDE DEF new
    <3> QED  BY <1>7, <1>8, <2>3
  <2> QED  BY <1>2, <2>1, <2>2, <2>3
<1>10. /\ pc \in {"index", "flag", "refused"}
       /\ op.kind = "load" => pc = "index"
       /\ op.kind = "reload" => pc = "flag"
       /\ op.kind = "add" => pc \in {"index", "flag"}
       /\ op.kind = "remove" => pc \in {"flag", "refused"}
       /\ ~Replaces(p) /\ pc = "refused" => mut[p].hit = FALSE /\ new = global
  <2> HIDE DEF new
  <2>1. ~removed => mut[p].hit = FALSE /\ new = global  BY <1>5
  <2> HIDE DEF removed, op
  <2> QED  BY <1>2, <2>1
<1> HIDE DEF new, name
<1>11. /\ \A k \in Mutators : k # p => mut'[k] = mut[k]
       /\ mut'[p].op = op /\ mut'[p].next = next /\ mut'[p].i = mut[p].i /\ mut'[p].hit = mut[p].hit
       /\ mut'[p].pc = pc /\ mut' \in [Mutators -> MutRecord]
  <2>1. mut \in [Mutators -> MutRecord] /\ mut[p] \in MutRecord  BY DEF Typed
  <2>2. pc \in MutPcs  BY <1>10 DEF MutPcs
  <2>3. mut[p].op = op /\ mut[p].next = next  OBVIOUS
  <2> DEFINE r == [mut[p] EXCEPT !.pc = pc]
  <2> HIDE DEF pc, op, next
  <2>4. r \in MutRecord /\ r.op = op /\ r.pc = pc /\ r.next = next /\ r.i = mut[p].i /\ r.hit = mut[p].hit
    BY <2>1, <2>2, <2>3 DEF MutRecord
  <2>5. mut' = [mut EXCEPT ![p] = r]  BY <1>1, <2>1
  <2> HIDE DEF r
  <2> QED  BY <2>1, <2>4, <2>5
<1> HIDE DEF pc
<1>12. Typed'
  <2>1. loaded' \in BOOLEAN  BY <1>1
  <2> QED  BY <1>1, <1>9, <1>11, <2>1 DEF Typed
<1>13. Mutex'
  <2>1. mut'[p].pc \in Held /\ mut[p].pc \in Held  BY <1>1, <1>10, <1>11 DEF Held
  <2> QED  BY <1>1, <1>11, <2>1, MutexKept
<1>14. Present' = In(shards, new)  BY <1>1 DEF Present, In
<1>15. Prepared(p)'
  <2>1. Replaces(p)' = Replaces(p)  BY <1>11 DEF Replaces
  <2>2. pc = "index" => mut[p].i \in 1..Len(next) /\ op.kind \in {"load", "add"}
    <3> SUFFICES ASSUME pc = "index"  PROVE 1 \in 1..Len(next) /\ op.kind \in {"load", "add"}  BY <1>5
    <3>1. op.kind \in {"load", "add"}  BY <1>2, <1>10
    <3>2. next # <<>>
      <4>1. CASE op.kind = "load"  BY <1>6, <4>1 DEF Replaces
      <4>2. CASE op.kind = "add"
        <5>1. PICK s : next = <<s>>  BY <1>1, <1>4, <4>2 DEF Prepared, Held
        <5> QED  BY <5>1
      <4> QED  BY <3>1, <4>1, <4>2
    <3>3. Len(next) \in Nat /\ Len(next) # 0  BY <1>5, <3>2
    <3> QED  BY <3>1, <3>3
  <2> QED  BY <1>1, <1>4, <1>5, <1>10, <1>11, <2>1, <2>2 DEF Prepared, Held
<1>16. ASSUME ~Replaces(p)
       PROVE  /\ Present' = Others(committed, name)
              /\ pc = "refused" => Present' = committed
  <2>1. /\ Present \subseteq committed /\ Others(committed, name) \subseteq Present
        /\ mut[p].hit = FALSE => Present = committed
    BY <1>4, <1>16 DEF Removing, name
  <2>2. new = WithoutFirst(global, name) /\ ToSet(new) = Others(ToSet(global), name)  BY <1>7, <1>8, <1>16
  <2>3. \A j \in 1..Shards : \A s \in ToSet(shards[j]) : s.name # name
    <3> TAKE j \in 1..Shards
    <3>1. j \in 1..(Shards + 1) - 1  BY RegistryAssumption
    <3> HIDE DEF op
    <3> QED  BY <1>2, <1>4, <1>16, <3>1 DEF ShardsDone, Replaces, name, op
  <2>4. \A x : x \in Present' <=> x \in Present /\ x.name # name
    <3> TAKE x
    <3>1. x \in Present' <=> x \in ToSet(new) \/ \E j \in 1..Shards : x \in ToSet(shards[j])  BY <1>14, Inside
    <3>2. x \in Present <=> x \in ToSet(global) \/ \E j \in 1..Shards : x \in ToSet(shards[j])  BY <1>3, Inside
    <3>3. x \in ToSet(new) <=> x \in ToSet(global) /\ x.name # name  BY <2>2 DEF Others
    <3> QED  BY <2>3, <3>1, <3>2, <3>3
  <2>5. Present' = Others(committed, name)  BY <2>1, <2>4 DEF Others
  <2>6. ASSUME pc = "refused"  PROVE Present' = committed
    <3>1. mut[p].hit = FALSE /\ new = global  BY <1>10, <1>16, <2>6
    <3> QED  BY <1>3, <1>14, <2>1, <3>1
  <2> QED  BY <2>5, <2>6
<1>17. ASSUME op.kind = "load"  PROVE Present' = {}
  <2>1. \A j \in 1..Shards : shards[j] = <<>>
    <3> TAKE j \in 1..Shards
    <3>1. j \in 1..(Shards + 1) - 1  BY RegistryAssumption
    <3> QED  BY <1>4, <1>17, <3>1 DEF ShardsDone
  <2>2. new = <<>> /\ ToSet(<<>>) = {}  BY <1>8, <1>17 DEF ToSet
  <2>3. \A x : x \notin Present'  BY <1>14, <2>1, <2>2, Inside
  <2> QED  BY <2>3
<1>18. ASSUME op.kind = "reload"  PROVE Present' = ToSet(next)
  <2>1. Replaces(p)  BY <1>18 DEF Replaces
  <2>2. /\ BuiltShards(next) \in ShardLists
        /\ In(BuiltShards(next), BuiltGlobal(next)) = ToSet(next)
    BY <1>5, <1>6, <2>1, Built
  <2>3. \A j \in 1..Shards : shards[j] = BuiltShards(next)[j]
    <3> TAKE j \in 1..Shards
    <3>1. j \in 1..(Shards + 1) - 1  BY RegistryAssumption
    <3> QED  BY <1>4, <1>18, <3>1 DEF ShardsDone
  <2>4. shards = BuiltShards(next)  BY <1>3, <2>2, <2>3, SameLists
  <2> QED  BY <1>8, <1>14, <1>18, <2>2, <2>4
<1>19. Contents(p)'
  <2>1. Replaces(p)' = Replaces(p)  BY <1>11 DEF Replaces
  <2>2. NameOf(mut[p].op)' = name /\ committed' = committed  BY <1>1, <1>11 DEF name
  <2>3. CASE op.kind = "load"
    <3>1. mut'[p].pc = "index" /\ mut'[p].i = 1 /\ Replaces(p)'  BY <1>5, <1>10, <1>11, <2>1, <2>3 DEF Replaces
    <3>2. {mut'[p].next[j] : j \in 1..mut'[p].i - 1} = {}  BY <3>1
    <3> QED  BY <1>17, <2>3, <3>1, <3>2 DEF Contents
  <2>4. CASE op.kind = "reload"
    <3>1. mut'[p].pc = "flag" /\ Replaces(p)' /\ mut'[p].next = next
      BY <1>10, <1>11, <2>1, <2>4 DEF Replaces
    <3> QED  BY <1>18, <2>4, <3>1 DEF Contents
  <2>5. CASE ~Replaces(p)
    <3>1. mut'[p].pc \in {"index", "flag", "refused"} /\ ~(Replaces(p)')  BY <1>10, <1>11, <2>1, <2>5
    <3>2. Present' = Others(committed', NameOf(mut[p].op)')  BY <1>16, <2>2, <2>5
    <3>3. mut'[p].pc = "refused" => Present' = committed'  BY <1>11, <1>16, <2>2, <2>5
    <3> QED  BY <3>1, <3>2, <3>3 DEF Contents
  <2> QED  BY <1>2, <2>3, <2>4, <2>5
<1>20. ContentsAgree' /\ UniqueNames(committed)' /\ Distinct(global)'
  <2>1. mu # None  BY <1>1, Inner DEF Held
  <2> QED  BY <1>1, <1>4, <1>9, <2>1 DEF ContentsAgree
<1>21. Mutating'  BY <1>1, <1>11, <1>15, <1>19, <1>20, Assembled DEF Held
<1> QED  BY <1>12, <1>13, <1>21

\* The flag is recomputed and the cache cleared; a removal is complete.
LEMMA UpdateFlagStep ==
    ASSUME Typed, Mutex, Mutating, NEW p \in Mutators, UpdateFlag(p)
    PROVE  Typed' /\ Mutex' /\ Mutating'
<1> DEFINE op == mut[p].op
           pc == IF op.kind = "add" THEN "index" ELSE "commit"
<1>1. /\ mut[p].pc = "flag" /\ mut' = [mut EXCEPT ![p].pc = pc]
      /\ UNCHANGED <<shards, global, generation, loaded, mu, mat, disk, edits, committed, window>>
  BY DEF UpdateFlag
<1>2. /\ op \in Ops /\ op.kind \in {"load", "reload", "add", "remove"}
      /\ Replaces(p) <=> op.kind \notin {"add", "remove"}
  BY <1>1, Kinds
<1>3. cacheOff' \in BOOLEAN  BY DEF UpdateFlag, AnyDisablesCache
<1>4. Prepared(p) /\ Contents(p) /\ UniqueNames(committed)  BY DEF Mutating
<1>5. pc \in {"index", "commit"}  OBVIOUS
<1>6. /\ \A k \in Mutators : k # p => mut'[k] = mut[k]
      /\ mut'[p].op = op /\ mut'[p].next = mut[p].next /\ mut'[p].i = mut[p].i /\ mut'[p].hit = mut[p].hit
      /\ mut'[p].pc = pc /\ mut' \in [Mutators -> MutRecord]
  <2>1. mut \in [Mutators -> MutRecord] /\ mut[p] \in MutRecord  BY DEF Typed
  <2>2. pc \in MutPcs  BY DEF MutPcs
  <2>3. mut[p].op = op  OBVIOUS
  <2> DEFINE r == [mut[p] EXCEPT !.pc = pc]
  <2> HIDE DEF pc, op
  <2>4. r \in MutRecord /\ r.op = op /\ r.pc = pc /\ r.next = mut[p].next /\ r.i = mut[p].i /\ r.hit = mut[p].hit
    BY <2>1, <2>2, <2>3 DEF MutRecord
  <2>5. mut' = [mut EXCEPT ![p] = r]  BY <1>1, <2>1
  <2> HIDE DEF r
  <2> QED  BY <2>1, <2>4, <2>5
<1>7. Typed'  BY <1>1, <1>3, <1>6 DEF Typed
<1>8. Mutex'
  <2>1. mut'[p].pc \in Held /\ mut[p].pc \in Held  BY <1>1, <1>5, <1>6 DEF Held
  <2> QED  BY <1>1, <1>6, <2>1, MutexKept
<1>9. Replaces(p)' = Replaces(p)  BY <1>6 DEF Replaces
<1>10. Prepared(p)'
  <2>1. mut[p].i = 1  BY <1>1, <1>4 DEF Prepared
  <2>2. op.kind = "add" => 1 \in 1..Len(mut[p].next)
    <3> SUFFICES ASSUME op.kind = "add"  PROVE 1 \in 1..Len(mut[p].next)  OBVIOUS
    <3>1. PICK s : mut[p].next = <<s>>  BY <1>1, <1>4 DEF Prepared, Held
    <3>2. Len(<<s>>) = 1  OBVIOUS
    <3> QED  BY <3>1, <3>2
  <2> QED  BY <1>1, <1>4, <1>5, <1>6, <1>9, <2>1, <2>2 DEF Prepared, Held
<1>11. Present' = Present  BY <1>1 DEF Present
<1>12. Present = IF Replaces(p) THEN ToSet(mut[p].next) ELSE Others(committed, NameOf(op))
  BY <1>1, <1>4 DEF Contents
<1>13. Contents(p)'
  <2>1. CASE op.kind = "add"
    <3>1. mut'[p].pc = "index" /\ ~(Replaces(p)')  BY <1>2, <1>6, <1>9, <2>1
    <3>2. Present' = Others(committed', NameOf(mut[p].op)')  BY <1>1, <1>2, <1>6, <1>11, <1>12, <2>1
    <3> QED  BY <3>1, <3>2 DEF Contents
  <2>2. CASE op.kind # "add"
    <3>1. mut'[p].pc = "commit"  BY <1>6, <2>2
    <3>2. PlainEffect(p)' = PlainEffect(p)  BY <1>1, <1>6 DEF PlainEffect
    <3>3. PlainEffect(p) = Present
      <4>1. CASE Replaces(p)
        <5>1. op.kind \in {"load", "reload"}  BY <4>1 DEF Replaces
        <5>2. PlainEffect(p) = ToSet(mut[p].next)  BY <5>1 DEF PlainEffect
        <5> QED  BY <1>12, <4>1, <5>2
      <4>2. CASE ~Replaces(p)
        <5>1. op.kind = "remove"  BY <1>2, <2>2, <4>2
        <5>2. PlainEffect(p) = RemovedContents(committed, op.name) /\ NameOf(op) = op.name
          BY <5>1 DEF PlainEffect, NameOf
        <5>3. RemovedContents(committed, op.name) = Others(committed, op.name)  BY <1>4, RemovedOnes
        <5> QED  BY <1>12, <4>2, <5>2, <5>3
      <4> QED  BY <4>1, <4>2
    <3> QED  BY <1>11, <3>1, <3>2, <3>3 DEF Contents
  <2> QED  BY <2>1, <2>2
<1>14. ContentsAgree' /\ UniqueNames(committed)' /\ Distinct(global)'
  BY <1>1, <1>11 DEF Mutating, ContentsAgree
<1>15. Mutating'  BY <1>1, <1>6, <1>10, <1>13, <1>14, Assembled DEF Held
<1> QED  BY <1>7, <1>8, <1>15

\* The next scenario goes to the lists it belongs to; after the last one a load or an addition
\* is complete.
LEMMA IndexScenarioStep ==
    ASSUME Typed, Mutex, Mutating, NEW p \in Mutators, IndexScenario(p)
    PROVE  Typed' /\ Mutex' /\ Mutating'
<1> DEFINE op == mut[p].op
           next == mut[p].next
           i == mut[p].i
           s == next[i]
           last == i = Len(next)
           to == IF last THEN 1 ELSE i + 1
           pc == IF last THEN "commit" ELSE "index"
<1>1. /\ mut[p].pc = "index" /\ shards' = IndexedShards(shards, s) /\ global' = IndexedGlobal(global, s)
      /\ mut' = [mut EXCEPT ![p].i = to, ![p].pc = pc]
      /\ UNCHANGED <<generation, mu, mat, disk, edits, committed, window>>
  BY DEF IndexScenario
<1>2. loaded' \in BOOLEAN /\ cacheOff' \in BOOLEAN  BY DEF IndexScenario
<1>3. /\ op \in Ops /\ op.kind \in {"load", "reload", "add", "remove"}
      /\ Replaces(p) <=> op.kind \notin {"add", "remove"}
      /\ op.kind = "add" => op.s \in Declared
  BY <1>1, Kinds
<1>4. Prepared(p) /\ Contents(p) /\ UniqueNames(committed) /\ Distinct(global)  BY DEF Mutating
<1>5. i \in 1..Len(next) /\ op.kind \in {"load", "add"}  BY <1>1, <1>4 DEF Prepared
<1>6. next \in Seq(Scenario) /\ Len(next) \in Nat /\ DOMAIN next = 1..Len(next) /\ s \in Scenario /\ s \in ToSet(next)
  <2>1. next \in Seq(Scenario)  BY DEF Typed, MutRecord
  <2>2. Len(next) \in Nat /\ DOMAIN next = 1..Len(next) /\ s \in Scenario  BY <1>5, <2>1
  <2> QED  BY <1>5, <2>1, <2>2 DEF ToSet
<1>7. shards \in ShardLists /\ global \in Seq(Scenario) /\ Present = In(shards, global)  BY PresentType
<1>8. ASSUME op.kind = "load"
      PROVE  /\ Replaces(p) /\ Distinct(next) /\ UniqueNames(ToSet(next)) /\ Placed(s)
             /\ Present = {next[j] : j \in 1..i - 1}
  <2>1. Replaces(p)  BY <1>8 DEF Replaces
  <2>2. Distinct(next) /\ UniqueNames(ToSet(next)) /\ \A t \in ToSet(next) : Placed(t)
    BY <1>1, <1>4, <2>1 DEF Prepared, Held
  <2>3. Present = {next[j] : j \in 1..i - 1}  BY <1>1, <1>4, <2>1 DEF Contents
  <2> QED  BY <1>6, <2>1, <2>2, <2>3
<1>9. ASSUME op.kind = "add"
      PROVE  /\ ~Replaces(p) /\ Placed(s) /\ s.name = op.s.name /\ i = 1 /\ last
             /\ s = [op.s EXCEPT !.order = ScenarioOrderForAdd(committed, op.s.name)]
             /\ Present = Others(committed, op.s.name)
  <2> DEFINE t == [op.s EXCEPT !.order = ScenarioOrderForAdd(committed, op.s.name)]
  <2>1. next = <<t>> /\ Placed(t)  BY <1>1, <1>4, <1>9 DEF Prepared, Held
  <2>2. t.name = op.s.name
    <3>1. DOMAIN op.s = Fields  BY <1>3, <1>9, DeclaredOnes
    <3> QED  BY <3>1 DEF Fields
  <2> HIDE DEF t
  <2>3. i = 1 /\ last /\ s = t  BY <1>5, <2>1
  <2>4. ~Replaces(p)  BY <1>3, <1>9
  <2>5. NameOf(op) = op.s.name  BY <1>9 DEF NameOf
  <2>6. Present = Others(committed, NameOf(op))  BY <1>1, <1>4, <2>4 DEF Contents
  <2> QED  BY <2>1, <2>2, <2>3, <2>4, <2>5, <2>6 DEF t
<1>10. Placed(s)  BY <1>5, <1>8, <1>9
<1>11. s \notin Present
  <2>1. CASE op.kind = "load"
    <3> SUFFICES ASSUME NEW j \in 1..i - 1, s = next[j]  PROVE FALSE  BY <1>8, <2>1
    <3>1. j \in DOMAIN next /\ i \in DOMAIN next  BY <1>5, <1>6
    <3>2. j = i  BY <1>8, <2>1, <3>1 DEF Distinct
    <3> QED  BY <1>5, <1>6, <3>2
  <2>2. CASE op.kind = "add"
    <3>1. s.name = op.s.name /\ Present = Others(committed, op.s.name)  BY <1>9, <2>2
    <3> HIDE DEF s
    <3> QED  BY <3>1 DEF Others
  <2> QED  BY <1>5, <2>1, <2>2
<1> HIDE DEF s
<1>12. /\ shards' \in ShardLists /\ global' \in Seq(Scenario) /\ Distinct(global')
       /\ In(shards', global') = Present \cup {s}
  <2>1. /\ IndexedShards(shards, s) \in ShardLists /\ IndexedGlobal(global, s) \in Seq(Scenario)
        /\ Distinct(global) /\ s \notin In(shards, global) => Distinct(IndexedGlobal(global, s))
        /\ In(IndexedShards(shards, s), IndexedGlobal(global, s)) = In(shards, global) \cup {s}
    BY <1>6, <1>7, <1>10, Indexed
  <2> QED  BY <1>1, <1>4, <1>7, <1>11, <2>1
<1>13. Present' = Present \cup {s}  BY <1>12 DEF Present, In
<1>14. pc \in {"index", "commit"} /\ to \in Nat  BY <1>5, <1>6
<1>15. /\ \A k \in Mutators : k # p => mut'[k] = mut[k]
       /\ mut'[p].op = op /\ mut'[p].next = next /\ mut'[p].i = to /\ mut'[p].hit = mut[p].hit
       /\ mut'[p].pc = pc /\ mut' \in [Mutators -> MutRecord]
  <2>1. mut \in [Mutators -> MutRecord] /\ mut[p] \in MutRecord  BY DEF Typed
  <2>2. pc \in MutPcs  BY DEF MutPcs
  <2>3. mut[p].op = op /\ mut[p].next = next  OBVIOUS
  <2> DEFINE r == [[mut[p] EXCEPT !.i = to] EXCEPT !.pc = pc]
  <2> HIDE DEF pc, op, to, next
  <2>4. r \in MutRecord /\ r.op = op /\ r.pc = pc /\ r.next = next /\ r.i = to /\ r.hit = mut[p].hit
    BY <1>14, <2>1, <2>2, <2>3 DEF MutRecord
  <2>5. mut' = [mut EXCEPT ![p] = r]  BY <1>1, <2>1
  <2> HIDE DEF r
  <2> QED  BY <2>1, <2>4, <2>5
<1>16. Typed'  BY <1>1, <1>2, <1>12, <1>15 DEF Typed, ShardLists
<1>17. Mutex'
  <2>1. mut'[p].pc \in Held /\ mut[p].pc \in Held  BY <1>1, <1>14, <1>15 DEF Held
  <2> QED  BY <1>1, <1>15, <2>1, MutexKept
<1>18. Replaces(p)' = Replaces(p)  BY <1>15 DEF Replaces
<1>19. Prepared(p)'
  <2>1. pc = "index" => to \in 1..Len(next)  BY <1>5, <1>6
  <2>2. pc = "commit" => to = 1  OBVIOUS
  <2> HIDE DEF pc, to, last
  <2> QED  BY <1>1, <1>4, <1>5, <1>14, <1>15, <1>18, <2>1, <2>2 DEF Prepared, Held
<1>20. Contents(p)'
  <2>1. CASE op.kind = "load"
    <3>1. Present' = {next[j] : j \in 1..i}
      <4>1. 1..i = 1..i - 1 \cup {i} /\ s = next[i]  BY <1>5, <1>6 DEF s
      <4>2. {next[j] : j \in 1..i} = {next[j] : j \in 1..i - 1} \cup {next[i]}  BY <4>1
      <4> QED  BY <1>8, <1>13, <2>1, <4>1, <4>2
    <3>2. CASE last
      <4>1. mut'[p].pc = "commit" /\ mut'[p].op.kind = "load" /\ mut'[p].next = next  BY <1>15, <2>1, <3>2
      <4>2. PlainEffect(p)' = ToSet(next)  BY <4>1 DEF PlainEffect
      <4>3. Present' = ToSet(next)  BY <1>6, <3>1, <3>2 DEF ToSet
      <4> QED  BY <4>1, <4>2, <4>3 DEF Contents
    <3>3. CASE ~last
      <4>1. mut'[p].pc = "index" /\ Replaces(p)' /\ mut'[p].next = next /\ mut'[p].i = i + 1
        BY <1>8, <1>15, <1>18, <2>1, <3>3
      <4>2. mut'[p].i - 1 = i  BY <1>5, <1>6, <4>1
      <4>3. Present' = {mut'[p].next[j] : j \in 1..mut'[p].i - 1}  BY <3>1, <4>1, <4>2
      <4> QED  BY <4>1, <4>3 DEF Contents
    <3> QED  BY <3>2, <3>3
  <2>2. CASE op.kind = "add"
    <3>1. mut'[p].pc = "commit" /\ mut'[p].op = op  BY <1>9, <1>15, <2>2
    <3>2. PlainEffect(p)' = AddedContents(committed, op.s)  BY <1>1, <2>2, <3>1 DEF PlainEffect
    <3>3. RemovedContents(committed, op.s.name) = Others(committed, op.s.name)  BY <1>4, RemovedOnes
    <3>4. AddedContents(committed, op.s) = Present \cup {s}  BY <1>9, <2>2, <3>3 DEF AddedContents
    <3> QED  BY <1>13, <3>1, <3>2, <3>4 DEF Contents
  <2> QED  BY <1>5, <2>1, <2>2
<1>21. ContentsAgree' /\ UniqueNames(committed)' /\ Distinct(global)'
  <2>1. mu # None  BY <1>1, Inner DEF Held
  <2> QED  BY <1>1, <1>4, <1>12, <2>1 DEF ContentsAgree
<1>22. Mutating'  BY <1>1, <1>15, <1>19, <1>20, <1>21, Assembled DEF Held
<1> QED  BY <1>16, <1>17, <1>22

\* A mutation ends: what is there now is what the plain registry would hold.
LEMMA CommitStep ==
    ASSUME Typed, Mutex, Mutating, NEW p \in Mutators, Commit(p)
    PROVE  Typed' /\ Mutex' /\ Mutating' /\ committed' = Present
<1> DEFINE op == mut[p].op
<1>1. /\ mut[p].pc \in {"commit", "refused"} /\ mut' = [mut EXCEPT ![p].pc = "done"]
      /\ generation' = generation + 1 /\ mu' = None
      /\ committed' = IF mut[p].pc = "refused" THEN committed ELSE PlainEffect(p)
      /\ UNCHANGED <<shards, global, cacheOff, cache, loaded, mat, disk, edits>>
  BY DEF Commit
<1>2. Prepared(p) /\ Contents(p) /\ UniqueNames(committed) /\ Distinct(global)  BY DEF Mutating
<1>3. committed' = Present  BY <1>1, <1>2 DEF Contents
<1>4. mu = p /\ mu # None  BY <1>1, Inner DEF Held
<1>5. /\ \A k \in Mutators : k # p => mut'[k] = mut[k]
      /\ mut'[p].op = op /\ mut'[p].pc = "done" /\ mut' \in [Mutators -> MutRecord]
  <2>1. mut \in [Mutators -> MutRecord] /\ mut[p] \in MutRecord  BY DEF Typed
  <2>2. PICK pc \in MutPcs : pc = "done"  BY DEF MutPcs
  <2> DEFINE r == [mut[p] EXCEPT !.pc = pc]
  <2>3. r \in MutRecord /\ r.op = mut[p].op /\ r.pc = pc  BY <2>1, <2>2 DEF MutRecord
  <2>4. mut' = [mut EXCEPT ![p] = r]  BY <1>1, <2>1, <2>2
  <2> HIDE DEF r
  <2> QED  BY <2>1, <2>2, <2>3, <2>4
<1>6. Typed'
  <2>1. committed' \in SUBSET Scenario  BY <1>3, PresentType
  <2>2. generation' \in Nat  BY <1>1 DEF Typed
  <2> QED  BY <1>1, <1>5, <2>1, <2>2 DEF Typed
<1>7. Mutex'
  <2>1. \A k \in Mutators : k # p => mut[k].pc \notin Held  BY <1>4 DEF Mutex
  <2>2. \A k \in Mutators : mut'[k].pc \notin Held  BY <1>5, <2>1 DEF Held
  <2>3. generation \in Nat /\ generation % 2 # 0  BY <1>4 DEF Typed, Mutex
  <2>4. (generation + 1) % 2 = 0  BY <2>3
  <2> QED  BY <1>1, <2>2, <2>4, RegistryAssumption DEF Mutex
<1>8. UniqueNames(committed')
  <2>1. CASE mut[p].pc = "refused"  BY <1>1, <1>2, <2>1
  <2>2. CASE mut[p].pc = "commit"
    <3>1. committed' = PlainEffect(p)  BY <1>1, <2>2
    <3>2. /\ op.kind \in {"load", "reload", "add", "remove"}
          /\ Replaces(p) <=> op.kind \notin {"add", "remove"}
          /\ op.kind = "add" => op.s \in Declared
      BY <2>2, Kinds
    <3>3. \A name : RemovedContents(committed, name) = Others(committed, name)  BY <1>2, RemovedOnes
    <3>4. CASE Replaces(p)
      <4>1. PlainEffect(p) = ToSet(mut[p].next)  BY <3>4 DEF PlainEffect, Replaces
      <4> QED  BY <1>2, <2>2, <3>1, <3>4, <4>1 DEF Prepared, Held
    <3>5. CASE op.kind = "add"
      <4> DEFINE t == [op.s EXCEPT !.order = ScenarioOrderForAdd(committed, op.s.name)]
      <4>1. DOMAIN op.s = Fields  BY <3>2, <3>5, DeclaredOnes
      <4>2. t.name = op.s.name  BY <4>1 DEF Fields
      <4>3. PlainEffect(p) = Others(committed, op.s.name) \cup {t}
        BY <3>3, <3>5 DEF PlainEffect, AddedContents
      <4> HIDE DEF t
      <4> QED  BY <1>2, <3>1, <4>2, <4>3 DEF UniqueNames, Others
    <3>6. CASE op.kind = "remove"
      <4>1. PlainEffect(p) = Others(committed, op.name)  BY <3>3, <3>6 DEF PlainEffect
      <4> QED  BY <1>2, <3>1, <4>1 DEF UniqueNames, Others
    <3> QED  BY <3>2, <3>4, <3>5, <3>6
  <2> QED  BY <1>1, <2>1, <2>2
<1>9. Prepared(p)' /\ Contents(p)'
  <2>1. mut'[p].op \in Ops  BY <1>1, <1>2, <1>5 DEF Prepared
  <2> QED  BY <1>5, <2>1 DEF Prepared, Contents, Held
<1>10. ContentsAgree' /\ Distinct(global)'
  <2>1. Present' = Present  BY <1>1 DEF Present
  <2> QED  BY <1>1, <1>2, <1>3, <2>1 DEF ContentsAgree
<1>11. Mutating'  BY <1>1, <1>5, <1>8, <1>9, <1>10, Assembled DEF Held
<1> QED  BY <1>3, <1>6, <1>7, <1>11

\* A step of a mutation keeps the registry in order.
LEMMA MutationStep ==
    ASSUME Typed, Mutex, Mutating, NEW p \in Mutators, MutStep(p)
    PROVE  Typed' /\ Mutex' /\ Mutating'
BY BeginStep, ReadFileStep, ListShardStep, LockStep, UpdateShardStep, UpdateGlobalStep, UpdateFlagStep,
   IndexScenarioStep, CommitStep DEF MutStep

\* A mutation that has ended stays ended.
LEMMA DoneStays ==
    ASSUME Typed, NEW p \in Mutators, MutStep(p), NEW q \in Mutators, mut[q].pc = "done"
    PROVE  mut'[q].pc = "done"
<1>1. mut \in [Mutators -> MutRecord]  BY DEF Typed
<1>2. CASE Begin(p)  BY <1>1, <1>2 DEF Begin
<1>3. CASE ReadFile(p)  BY <1>1, <1>3 DEF ReadFile
<1>4. CASE ListShard(p)  BY <1>1, <1>4 DEF ListShard
<1>5. CASE Lock(p)  BY <1>1, <1>5 DEF Lock
<1>6. CASE UpdateShard(p)  BY <1>1, <1>6 DEF UpdateShard
<1>7. CASE UpdateGlobal(p)  BY <1>1, <1>7 DEF UpdateGlobal
<1>8. CASE UpdateFlag(p)  BY <1>1, <1>8 DEF UpdateFlag
<1>9. CASE IndexScenario(p)  BY <1>1, <1>9 DEF IndexScenario
<1>10. CASE Commit(p)  BY <1>1, <1>10 DEF Commit
<1> QED  BY <1>2, <1>3, <1>4, <1>5, <1>6, <1>7, <1>8, <1>9, <1>10 DEF MutStep

\* Only taking and giving back mutationMu moves generation, once each.
LEMMA Turning ==
    ASSUME NEW p \in Mutators, MutStep(p)
    PROVE  \/ mu' = mu /\ generation' = generation
           \/ Lock(p) \/ Commit(p)
BY DEF MutStep, Begin, ReadFile, ListShard, UpdateShard, UpdateGlobal, UpdateFlag, IndexScenario, store

\* generation is at most twice the number of mutations that got the lock.
LEMMA NumberedStep ==
    ASSUME Typed, Typed', Mutex, Mutex', Numbered, NEW p \in Mutators, MutStep(p)
    PROVE  Numbered'
<1>1. IsFiniteSet(Mutators) /\ None \notin Mutators  BY RegistryAssumption
<1>2. IsFiniteSet(Passed) /\ IsFiniteSet(Passed') /\ Cardinality(Passed) \in Nat /\ Cardinality(Passed') \in Nat
  <2>1. Passed \subseteq Mutators /\ Passed' \subseteq Mutators  BY DEF Passed
  <2> QED  BY <1>1, <2>1, FS_Subset, FS_CardinalityType
<1>3. generation \in Nat /\ generation' \in Nat  BY DEF Typed
<1>4. CASE mu' = mu /\ generation' = generation
  <2>1. \A q \in Mutators : q \in Passed => q \in Passed'  BY <1>4, DoneStays DEF Passed, Mutex
  <2>2. Passed \subseteq Passed'  BY <2>1 DEF Passed
  <2>3. Cardinality(Passed) <= Cardinality(Passed')  BY <1>2, <2>2, FS_Subset
  <2> QED  BY <1>2, <1>3, <1>4, <2>3 DEF Numbered
<1>5. CASE Lock(p)
  <2>1. mu = None /\ mu' = p /\ generation' = generation + 1 /\ mut[p].pc = "lock"  BY <1>5 DEF Lock
  <2>2. mut'[p].pc \in Held  BY <2>1 DEF Mutex
  <2>3. \A q \in Mutators : mut[q].pc \notin Held  BY <1>1, <2>1 DEF Mutex
  <2>4. p \notin Passed /\ p \in Passed'  BY <2>1, <2>2 DEF Passed, Held
  <2>5. \A q \in Passed : q \in Passed'  BY <2>3, DoneStays DEF Passed
  <2>6. Passed \cup {p} \subseteq Passed'  BY <2>4, <2>5
  <2>7. IsFiniteSet(Passed \cup {p}) /\ Cardinality(Passed \cup {p}) = Cardinality(Passed) + 1
    BY <1>2, <2>4, FS_AddElement
  <2>8. Cardinality(Passed) + 1 <= Cardinality(Passed')  BY <1>2, <2>6, <2>7, FS_Subset
  <2>9. mu' # None  BY <1>1, <2>1
  <2> QED  BY <1>2, <1>3, <2>1, <2>8, <2>9 DEF Numbered
<1>6. CASE Commit(p)
  <2>1. /\ mut[p].pc \in {"commit", "refused"} /\ mu' = None /\ generation' = generation + 1
        /\ mut' = [mut EXCEPT ![p].pc = "done"]
    BY <1>6 DEF Commit
  <2>2. mu # None  BY <2>1, Inner DEF Held
  <2>3. mut \in [Mutators -> MutRecord] /\ mut[p] \in MutRecord  BY DEF Typed
  <2>4. mut'[p].pc = "done" /\ \A q \in Mutators : q # p => mut'[q] = mut[q]  BY <2>1, <2>3 DEF MutRecord
  <2>5. Passed \subseteq Passed'  BY <2>4 DEF Passed
  <2>6. Cardinality(Passed) <= Cardinality(Passed')  BY <1>2, <2>5, FS_Subset
  <2> QED  BY <1>2, <1>3, <2>1, <2>2, <2>6 DEF Numbered
<1> QED  BY <1>4, <1>5, <1>6, Turning

-----------------------------------------------------------------------------
(* Matches beside a mutation *)

\* A mutation leaves the calls alone; what it does to the cache is to clear it, and to the
\* contents to replace them under a new generation.
LEMMA Beside ==
    ASSUME NEW p \in Mutators, MutStep(p)
    PROVE  /\ mat' = mat /\ cache' \in {cache, <<>>}
           /\ Commit(p) \/ (committed' = committed /\ window' = window)
<1>1. CASE Begin(p)  BY <1>1 DEF Begin, store
<1>2. CASE ReadFile(p)  BY <1>2 DEF ReadFile, store
<1>3. CASE ListShard(p)  BY <1>3 DEF ListShard, store
<1>4. CASE Lock(p)  BY <1>4 DEF Lock
<1>5. CASE UpdateShard(p)  BY <1>5 DEF UpdateShard
<1>6. CASE UpdateGlobal(p)  BY <1>6 DEF UpdateGlobal
<1>7. CASE UpdateFlag(p)  BY <1>7 DEF UpdateFlag
<1>8. CASE IndexScenario(p)  BY <1>8 DEF IndexScenario
<1>9. CASE Commit(p)  BY <1>9 DEF Commit
<1> QED  BY <1>1, <1>2, <1>3, <1>4, <1>5, <1>6, <1>7, <1>8, <1>9 DEF MutStep

\* The windows of the calls under way grow by the new contents.
LEMMA Widened ==
    ASSUME Calling, NEW p \in Mutators, MutStep(p), NEW m \in Matchers
    PROVE  /\ window[m] \subseteq window'[m]
           /\ mat[m].pc \in Active /\ committed' # committed => committed' \in window'[m]
<1>1. CASE Commit(p)
  <2>1. window' = [k \in Matchers |-> IF mat[k].pc \in {"idle", "done"} THEN window[k]
                                      ELSE window[k] \cup {committed'}]
    BY <1>1 DEF Commit
  <2> QED  BY <2>1 DEF Active
<1>2. CASE committed' = committed /\ window' = window  BY <1>2
<1> QED  BY <1>1, <1>2, Beside

\* The calls keep their types.
LEMMA CallingBeside ==
    ASSUME Calling, NEW p \in Mutators, MutStep(p), Typed'
    PROVE  Calling'
<1>1. mat' = mat  BY Beside
<1>2. window' \in [Matchers -> SUBSET SUBSET Scenario]
  <2>1. CASE Commit(p)
    <3>1. window' = [k \in Matchers |-> IF mat[k].pc \in {"idle", "done"} THEN window[k]
                                        ELSE window[k] \cup {committed'}]
      BY <2>1 DEF Commit
    <3>2. committed' \in SUBSET Scenario  BY DEF Typed
    <3>3. \A k \in Matchers : window[k] \in SUBSET SUBSET Scenario  BY DEF Calling
    <3> QED  BY <3>1, <3>2, <3>3
  <2>2. CASE window' = window  BY <2>2 DEF Calling
  <2> QED  BY <2>1, <2>2, Beside
<1> QED  BY <1>1, <1>2 DEF Calling, MatTyped

\* The cache is left or emptied.
LEMMA CachingBeside ==
    ASSUME Caching, NEW p \in Mutators, MutStep(p)
    PROVE  Caching' /\ ToSet(cache') \subseteq ToSet(cache)
<1>1. <<>> \in Seq(Entry) /\ Len(<<>>) = 0 /\ DOMAIN <<>> = {}  OBVIOUS
<1>2. OneEach(<<>>) /\ ToSet(<<>>) = {}  BY <1>1, RegistryAssumption DEF OneEach, Distinct, ToSet
<1>3. CASE cache' = cache  BY <1>3 DEF Caching, OneEach
<1>4. CASE cache' = <<>>  BY <1>2, <1>4 DEF Caching
<1> QED  BY <1>3, <1>4, Beside

\* The generation moves on, past whatever was remembered, or nothing changes.
LEMMA MovesOn ==
    ASSUME Typed, NEW p \in Mutators, MutStep(p)
    PROVE  \/ generation' = generation /\ committed' = committed
           \/ generation' = generation + 1
<1>1. CASE Lock(p)  BY <1>1 DEF Lock
<1>2. CASE Commit(p)  BY <1>2 DEF Commit
<1>3. CASE ~Lock(p) /\ ~Commit(p)  BY <1>3, Turning, Beside
<1> QED  BY <1>1, <1>2, <1>3

\* What was found before a mutation counts no more after it has begun or ended.
LEMMA FoundBeside ==
    ASSUME Typed, Caching, Calling, Found, NEW p \in Mutators, MutStep(p)
    PROVE  Found'
<1>1. mat' = mat /\ ToSet(cache') \subseteq ToSet(cache)  BY Beside, CachingBeside
<1>2. generation \in Nat  BY DEF Typed
<1>3. \A m \in Matchers : mat[m].gen \in Nat /\ FoundBy(m)  BY DEF Calling, MatTyped, Found
<1>4. \A e \in ToSet(cache) : e.gen \in Nat /\ EntryFound(e)
  <2>1. \A e \in ToSet(cache) : e \in Entry  BY DEF Caching, OneEach, ToSet
  <2> QED  BY <2>1 DEF Entry, Found
<1>5. ASSUME NEW g \in Nat, Remembered(g)
      PROVE  Remembered(g)' /\ (g = generation' => generation' = generation /\ committed' = committed)
  BY <1>2, <1>5, MovesOn DEF Remembered
<1>6. \A e \in ToSet(cache') : EntryFound(e)'  BY <1>1, <1>4, <1>5 DEF EntryFound
<1>7. ASSUME NEW m \in Matchers  PROVE FoundBy(m)'
  <2>1. Remembered(mat[m].gen)  BY <1>3 DEF FoundBy
  <2>2. PICK g \in Nat : g = mat[m].gen  BY <1>3
  <2>3. Remembered(g)' /\ (g = generation' => generation' = generation /\ committed' = committed)
    BY <1>5, <2>1, <2>2
  <2> QED  BY <1>1, <1>3, <2>2, <2>3 DEF FoundBy, Remembered
<1> QED  BY <1>6, <1>7 DEF Found

\* Answers given, and those that are being looked for, keep their moment: windows only grow.
LEMMA AnsweringBeside ==
    ASSUME Typed, Caching, Calling, Found, Answering, NEW p \in Mutators, MutStep(p)
    PROVE  Answering'
<1>1. mat' = mat /\ ToSet(cache') \subseteq ToSet(cache)  BY Beside, CachingBeside
<1>2. generation \in Nat /\ (\/ generation' = generation /\ committed' = committed
                             \/ generation' = generation + 1)
  BY MovesOn DEF Typed
<1> SUFFICES ASSUME NEW m \in Matchers  PROVE AnswerOf(m)'  BY DEF Answering
<1>3. AnswerOf(m) /\ mat[m].i \in Nat  BY DEF Answering, Calling, MatTyped
<1>4. /\ window[m] \subseteq window'[m]
      /\ mat[m].pc \in Active /\ committed' # committed => committed' \in window'[m]
  BY Widened
<1>5. mat'[m].pc \in Active => committed' \in window'[m]
  BY <1>1, <1>3, <1>4 DEF AnswerOf
<1>6. ASSUME mat'[m].pc = "get"
      PROVE  mat'[m].i <= generation' /\ \E c \in window'[m] : AskedFor(m, c)'
  <2>1. mat[m].i <= generation /\ \E c \in window[m] : AskedFor(m, c)  BY <1>1, <1>3, <1>6 DEF AnswerOf
  <2>2. PICK c \in window[m] : AskedFor(m, c)  BY <2>1
  <2>3. c \in window'[m]  BY <1>4, <2>2
  <2>4. AskedFor(m, c)'
    <3>1. mat'[m].i = generation' => c = committed'  BY <1>1, <1>2, <1>3, <2>1, <2>2 DEF AskedFor
    <3> QED  BY <1>1, <2>2, <3>1 DEF AskedFor
  <2> QED  BY <1>1, <1>2, <1>3, <2>1, <2>3, <2>4
<1>7. mat'[m].pc \in Storing => \E c \in window'[m] : mat'[m].best \in c  BY <1>1, <1>3, <1>4 DEF AnswerOf
<1>8. AnswerIsContent(m)'  BY <1>1, <1>3, <1>4 DEF AnswerOf, AnswerIsContent
<1> QED  BY <1>5, <1>6, <1>7, <1>8 DEF AnswerOf

-----------------------------------------------------------------------------
(* Steps of a match *)

\* A step of a match leaves the registry alone, except for the cache.
Aside == UNCHANGED <<shards, global, generation, cacheOff, loaded, mu, mut, disk, edits, committed>>

\* Then all that is said of the registry and its mutations stays true.
LEMMA RegistryAside ==
    ASSUME Typed, Mutex, Numbered, Mutating, Aside
    PROVE  Typed' /\ Mutex' /\ Numbered' /\ Mutating'
<1>1. Typed' /\ Mutex'  BY DEF Aside, Typed, Mutex
<1>2. Numbered'  BY DEF Aside, Numbered, Passed
<1>3. Present' = Present  BY DEF Aside, Present
<1>4. \A p \in Mutators : Prepared(p)' /\ Contents(p)'
  <2> TAKE p \in Mutators
  <2>1. Prepared(p) /\ Contents(p)  BY DEF Mutating
  <2> QED  BY <2>1, OtherMutation DEF Aside
<1>5. Mutating'  BY <1>3, <1>4 DEF Aside, Mutating, ContentsAgree
<1> QED  BY <1>1, <1>2, <1>5

\* The call of m becomes c, and those of others are as before.
Becomes(m, c) == mat' = [mat EXCEPT ![m] = c]

\* One call is replaced.
LEMMA OneCall ==
    ASSUME Calling, NEW m \in Matchers, NEW c, Becomes(m, c)
    PROVE  /\ mat'[m] = c /\ mat' = [k \in Matchers |-> mat'[k]]
           /\ \A k \in Matchers : k # m => mat'[k] = mat[k]
<1>1. mat = [k \in Matchers |-> mat[k]]  BY DEF Calling
<1>2. mat' = [k \in Matchers |-> IF k = m THEN c ELSE mat[k]]  BY <1>1 DEF Becomes
<1> QED  BY <1>2

\* The entry that a call is about to put.
PutBy(m, e) == mat[m].pc = "put" /\ e.gen = mat[m].gen /\ e.scenario = mat[m].best

\* One call takes a step: what holds of the others still does, if an entry that is new is what
\* the call had to put, and an answer it is about to keep is in the contents.
LEMMA OtherCalls ==
    ASSUME Typed, Calling, Found, Answering, Aside, NEW m \in Matchers, NEW c, Becomes(m, c),
           MatTyped(c), window' \in [Matchers -> SUBSET SUBSET Scenario],
           \A k \in Matchers : k # m => window'[k] = window[k],
           \A e \in ToSet(cache') : e \in ToSet(cache) \/ PutBy(m, e),
           c.pc \in Storing => \/ mat[m].pc \in Storing /\ c.best = mat[m].best /\ c.gen = mat[m].gen
                               \/ c.gen = generation /\ c.best \in committed,
           FoundBy(m)', AnswerOf(m)'
    PROVE  Calling' /\ Found' /\ Answering'
<1>1. mat'[m] = c /\ mat' = [k \in Matchers |-> mat'[k]] /\ \A k \in Matchers : k # m => mat'[k] = mat[k]
  BY OneCall
<1>2. Calling'
  <2>1. \A k \in Matchers : MatTyped(mat[k])  BY DEF Calling
  <2>2. \A k \in Matchers : MatTyped(mat'[k])  BY <1>1, <2>1
  <2> QED  BY <1>1, <2>2 DEF Calling, MatTyped
<1>3. generation' = generation /\ committed' = committed  BY DEF Aside
<1>4. Found'
  <2>1. ASSUME NEW k \in Matchers, k # m  PROVE FoundBy(k)'
    <3>1. FoundBy(k) /\ mat'[k] = mat[k]  BY <1>1, <2>1 DEF Found
    <3> QED  BY <1>3, <3>1 DEF FoundBy, Remembered
  <2>2. ASSUME NEW e \in ToSet(cache')  PROVE EntryFound(e)'
    <3>1. EntryFound(e)
      <4>1. CASE e \in ToSet(cache)  BY <4>1 DEF Found
      <4>2. CASE PutBy(m, e)  BY <4>2 DEF PutBy, Found, FoundBy, EntryFound, Storing
      <4> QED  BY <2>2, <4>1, <4>2
    <3> QED  BY <1>3, <3>1 DEF EntryFound, Remembered
  <2> QED  BY <2>1, <2>2 DEF Found
<1>5. ASSUME NEW k \in Matchers, k # m  PROVE AnswerOf(k)'
  <2>1. AnswerOf(k) /\ mat'[k] = mat[k] /\ window'[k] = window[k]  BY <1>1, <1>5 DEF Answering
  <2>2. ASSUME mat'[k].pc = "get"  PROVE \E d \in window'[k] : AskedFor(k, d)'
    <3>1. PICK d \in window[k] : AskedFor(k, d)  BY <2>1, <2>2 DEF AnswerOf
    <3>2. ASSUME NEW e \in ToSet(cache'), e.gen = mat[k].i  PROVE e.scenario \in d
      <4>1. CASE e \in ToSet(cache)  BY <3>1, <3>2, <4>1 DEF AskedFor
      <4>2. CASE PutBy(m, e)  BY <3>1, <3>2, <4>2 DEF AskedFor, PutBy, Storing
      <4> QED  BY <3>2, <4>1, <4>2
    <3>3. ASSUME NEW j \in Matchers, mat'[j].pc \in Storing, mat'[j].gen = mat[k].i  PROVE mat'[j].best \in d
      <4>1. CASE j # m  BY <1>1, <3>1, <3>3, <4>1 DEF AskedFor
      <4>2. CASE j = m
        <5>1. c.pc \in Storing /\ c.gen = mat[k].i  BY <1>1, <3>3, <4>2
        <5>2. CASE mat[m].pc \in Storing /\ c.best = mat[m].best /\ c.gen = mat[m].gen
          BY <1>1, <3>1, <4>2, <5>1, <5>2 DEF AskedFor
        <5>3. CASE c.gen = generation /\ c.best \in committed
          BY <1>1, <3>1, <4>2, <5>1, <5>3 DEF AskedFor
        <5> QED  BY <5>1, <5>2, <5>3
      <4> QED  BY <4>1, <4>2
    <3>4. mat[k].i = generation => d = committed  BY <3>1 DEF AskedFor
    <3>5. AskedFor(k, d)'  BY <1>3, <2>1, <3>2, <3>3, <3>4 DEF AskedFor
    <3> QED  BY <2>1, <3>1, <3>5
  <2>3. mat'[k].pc = "get" => mat'[k].i <= generation'  BY <1>3, <2>1 DEF AnswerOf
  <2>4. AnswerIsContent(k)'  BY <2>1 DEF AnswerOf, AnswerIsContent
  <2>5. mat'[k].pc \in Active => committed' \in window'[k]  BY <1>3, <2>1 DEF AnswerOf
  <2>6. mat'[k].pc \in Storing => \E d \in window'[k] : mat'[k].best \in d  BY <2>1 DEF AnswerOf
  <2> QED  BY <2>2, <2>3, <2>4, <2>5, <2>6 DEF AnswerOf
<1>6. Answering'  BY <1>5 DEF Answering
<1> QED  BY <1>2, <1>4, <1>6

\* Everything a match can take for granted about itself.
LEMMA Own ==
    ASSUME Calling, Found, Answering, NEW m \in Matchers
    PROVE  MatTyped(mat[m]) /\ FoundBy(m) /\ AnswerOf(m) /\ DOMAIN mat[m] = MatFields
BY DEF Calling, Found, Answering, MatTyped

MatchInv == Typed /\ Mutex /\ Mutating /\ Caching /\ Calling /\ Found /\ Answering

\* A step that touches neither the cache nor a window.
LEMMA PlainMatchStep ==
    ASSUME MatchInv, Aside, cache' = cache, window' = window, NEW m \in Matchers, NEW c, Becomes(m, c),
           MatTyped(c),
           c.pc \in Storing => \/ mat[m].pc \in Storing /\ c.best = mat[m].best /\ c.gen = mat[m].gen
                               \/ c.gen = generation /\ c.best \in committed,
           FoundBy(m)', AnswerOf(m)'
    PROVE  Caching' /\ Calling' /\ Found' /\ Answering'
<1>1. Caching'  BY DEF MatchInv, Caching, OneEach
<1>2. window' \in [Matchers -> SUBSET SUBSET Scenario] /\ \A k \in Matchers : k # m => window'[k] = window[k]
  BY DEF MatchInv, Calling
<1>3. \A e \in ToSet(cache') : e \in ToSet(cache) \/ PutBy(m, e)  OBVIOUS
<1>4. Calling' /\ Found' /\ Answering'  BY <1>2, <1>3, OtherCalls DEF MatchInv
<1> QED  BY <1>1, <1>4

\* No answer is given yet.
LEMMA StillSearching ==
    ASSUME MatchInv, Aside, window' = window, NEW m \in Matchers, NEW c, Becomes(m, c), mat[m].pc \in Active,
           c.pc \in (Searching \ {"get"}) \cup {"stable"}
    PROVE  AnswerOf(m)'
<1>1. mat'[m] = c  BY OneCall DEF MatchInv
<1>2. committed \in window[m]  BY Own DEF MatchInv, AnswerOf
<1> QED  BY <1>1, <1>2 DEF AnswerOf, AnswerIsContent, Aside, Searching, Storing

\* A call that ends with an error gives none.
LEMMA Ended ==
    ASSUME MatchInv, Aside, NEW m \in Matchers, NEW c, Becomes(m, c), c.pc = "done", c.out = "error",
           c.gen = mat[m].gen
    PROVE  AnswerOf(m)' /\ FoundBy(m)'
<1>1. mat'[m] = c  BY OneCall DEF MatchInv
<1>2. Remembered(mat[m].gen)  BY Own DEF MatchInv, FoundBy
<1> QED  BY <1>1, <1>2 DEF AnswerOf, AnswerIsContent, FoundBy, Remembered, Aside, Active, Searching, Storing

\* A call begins with nothing found; its window is the contents in force.
LEMMA CallStep ==
    ASSUME MatchInv, NEW m \in Matchers, Call(m)
    PROVE  Aside /\ Caching' /\ Calling' /\ Found' /\ Answering'
<1>1. PICK r \in Requests :
          mat' = [mat EXCEPT ![m] = [IdleMat EXCEPT !.req = r, !.pc = "stable", !.calls = mat[m].calls + 1]]
  BY DEF Call
<1>2. PICK c : c = [IdleMat EXCEPT !.req = r, !.pc = "stable", !.calls = mat[m].calls + 1]  OBVIOUS
<1>3. Aside /\ cache' = cache /\ window' = [window EXCEPT ![m] = {committed}] /\ mat[m].calls < MaxCalls
  BY DEF Call, Aside, store
<1>4. Becomes(m, c)  BY <1>1, <1>2 DEF Becomes
<1>5. /\ DOMAIN IdleMat = MatFields /\ IdleMat.gen = 0 /\ IdleMat.i = 1 /\ IdleMat.best = Nobody
      /\ IdleMat.seen = {} /\ IdleMat.branch = 0
  BY DEF IdleMat, MatFields
<1>6. /\ DOMAIN c = MatFields /\ c.pc = "stable" /\ c.req = r /\ c.calls = mat[m].calls + 1
      /\ c.gen = 0 /\ c.i = 1 /\ c.best = Nobody /\ c.seen = {} /\ c.branch = 0
  BY <1>2, <1>5 DEF MatFields
<1>7. MatTyped(c)
  <2>1. MatTyped(mat[m])  BY Own DEF MatchInv
  <2>2. c.calls \in 0..MaxCalls  BY <1>3, <1>6, <2>1, RegistryAssumption DEF MatTyped
  <2> QED  BY <1>6, <2>2 DEF MatTyped, MatPcs
<1>8. mat'[m] = c  BY <1>4, OneCall DEF MatchInv
<1>9. FoundBy(m)'
  <2>1. generation \in Nat /\ generation' = generation  BY <1>3 DEF MatchInv, Typed, Aside
  <2>2. 0 <= generation' /\ 0 % 2 = 0  BY <2>1
  <2> QED  BY <1>6, <1>8, <2>2 DEF FoundBy, Remembered, Searching, Storing
<1>10. window' \in [Matchers -> SUBSET SUBSET Scenario] /\ window'[m] = {committed}
       /\ \A k \in Matchers : k # m => window'[k] = window[k]
  <2>1. window \in [Matchers -> SUBSET SUBSET Scenario] /\ committed \in SUBSET Scenario
    BY DEF MatchInv, Calling, Typed
  <2> QED  BY <1>3, <2>1
<1>11. AnswerOf(m)'  BY <1>3, <1>6, <1>8, <1>10 DEF AnswerOf, AnswerIsContent, Aside, Storing
<1>12. Caching'  BY <1>3 DEF MatchInv, Caching, OneEach
<1>13. \A e \in ToSet(cache') : e \in ToSet(cache) \/ PutBy(m, e)  BY <1>3
<1>14. Calling' /\ Found' /\ Answering'
  BY <1>3, <1>4, <1>6, <1>7, <1>9, <1>10, <1>11, <1>13, OtherCalls DEF MatchInv, Storing
<1> QED  BY <1>3, <1>12, <1>14

\* A call begins to search under an even generation.
LEMMA StableGenerationStep ==
    ASSUME MatchInv, NEW m \in Matchers, StableGeneration(m)
    PROVE  Aside /\ Caching' /\ Calling' /\ Found' /\ Answering'
<1>1. /\ mat[m].pc = "stable" /\ generation % 2 = 0
      /\ mat' = [mat EXCEPT ![m].gen = generation, ![m].pc = "flag"]
      /\ Aside /\ cache' = cache /\ window' = window
  BY DEF StableGeneration, Aside, store
<1>2. MatTyped(mat[m]) /\ FoundBy(m) /\ DOMAIN mat[m] = MatFields  BY Own DEF MatchInv
<1>3. PICK c : c = [[mat[m] EXCEPT !.gen = generation] EXCEPT !.pc = "flag"]  OBVIOUS
<1>4. Becomes(m, c)  BY <1>1, <1>3 DEF Becomes, MatchInv, Calling
<1>5. /\ DOMAIN c = MatFields /\ c.pc = "flag" /\ c.gen = generation
      /\ \A f \in MatFields \ {"pc", "gen"} : c[f] = mat[m][f]
  BY <1>2, <1>3 DEF MatFields
<1>6. generation \in Nat /\ generation' = generation /\ committed' = committed  BY <1>1 DEF MatchInv, Typed, Aside
<1>7. /\ c.best = mat[m].best /\ c.i = mat[m].i /\ c.seen = mat[m].seen /\ c.branch = mat[m].branch
      /\ c.calls = mat[m].calls /\ c.req = mat[m].req
  BY <1>5 DEF MatFields
<1>8. MatTyped(c)  BY <1>1, <1>2, <1>5, <1>6, <1>7 DEF MatTyped, MatPcs
<1>9. mat'[m] = c  BY <1>4, OneCall DEF MatchInv
<1>10. FoundBy(m)'
  <2>1. c.best = Nobody  BY <1>1, <1>2, <1>7 DEF FoundBy
  <2>2. mat'[m].gen <= generation' /\ mat'[m].gen % 2 = 0  BY <1>1, <1>5, <1>6, <1>9
  <2>3. mat'[m].pc = "flag" /\ mat'[m].best = Nobody  BY <1>5, <1>9, <2>1
  <2> QED  BY <2>2, <2>3 DEF FoundBy, Remembered, Storing
<1>11. AnswerOf(m)'  BY <1>1, <1>4, <1>5, StillSearching DEF Active, MatPcs, Searching
<1> QED  BY <1>1, <1>4, <1>5, <1>8, <1>10, <1>11, PlainMatchStep DEF Storing

\* Reading the flag changes nothing that was found.
LEMMA ReadCacheFlagStep ==
    ASSUME MatchInv, NEW m \in Matchers, ReadCacheFlag(m)
    PROVE  Aside /\ Caching' /\ Calling' /\ Found' /\ Answering'
<1> DEFINE on == CacheCap > 0 /\ ~cacheOff
           pc == IF on THEN "ask" ELSE "shard"
<1>1. /\ mat[m].pc = "flag" /\ mat' = [mat EXCEPT ![m].on = on, ![m].pc = pc]
      /\ Aside /\ cache' = cache /\ window' = window
  BY DEF ReadCacheFlag, Aside, store
<1>2. MatTyped(mat[m]) /\ FoundBy(m) /\ DOMAIN mat[m] = MatFields  BY Own DEF MatchInv
<1>21. pc \in {"ask", "shard"}  OBVIOUS
<1> HIDE DEF on, pc
<1>3. PICK c : c = [[mat[m] EXCEPT !.on = on] EXCEPT !.pc = pc]  OBVIOUS
<1>4. Becomes(m, c)  BY <1>1, <1>3 DEF Becomes, MatchInv, Calling
<1>5. /\ DOMAIN c = MatFields /\ c.pc = pc
      /\ c.best = mat[m].best /\ c.i = mat[m].i /\ c.seen = mat[m].seen /\ c.branch = mat[m].branch
      /\ c.calls = mat[m].calls /\ c.req = mat[m].req /\ c.gen = mat[m].gen
  BY <1>2, <1>3 DEF MatFields
<1>6. generation' = generation /\ committed' = committed  BY <1>1 DEF Aside
<1>8. MatTyped(c)  BY <1>1, <1>2, <1>21, <1>5 DEF MatTyped, MatPcs
<1>9. mat'[m] = c  BY <1>4, OneCall DEF MatchInv
<1>10. FoundBy(m)'  BY <1>1, <1>2, <1>21, <1>5, <1>6, <1>9 DEF FoundBy, Remembered, Storing, Searching
<1>11. AnswerOf(m)'  BY <1>1, <1>21, <1>4, <1>5, StillSearching DEF Active, MatPcs, Searching
<1> QED  BY <1>1, <1>21, <1>4, <1>5, <1>8, <1>10, <1>11, PlainMatchStep DEF Storing

\* The generation a call asks the cache for has the contents now in force, which are in its window.
LEMMA ReadCacheGenerationStep ==
    ASSUME MatchInv, NEW m \in Matchers, ReadCacheGeneration(m)
    PROVE  Aside /\ Caching' /\ Calling' /\ Found' /\ Answering'
<1>1. /\ mat[m].pc = "ask" /\ mat' = [mat EXCEPT ![m].i = generation, ![m].pc = "get"]
      /\ Aside /\ cache' = cache /\ window' = window
  BY DEF ReadCacheGeneration, Aside, store
<1>2. MatTyped(mat[m]) /\ FoundBy(m) /\ DOMAIN mat[m] = MatFields /\ AnswerOf(m)  BY Own DEF MatchInv
<1>3. PICK c : c = [[mat[m] EXCEPT !.i = generation] EXCEPT !.pc = "get"]  OBVIOUS
<1>4. Becomes(m, c)  BY <1>1, <1>3 DEF Becomes, MatchInv, Calling
<1>5. /\ DOMAIN c = MatFields /\ c.pc = "get" /\ c.i = generation
      /\ c.best = mat[m].best /\ c.seen = mat[m].seen /\ c.branch = mat[m].branch
      /\ c.calls = mat[m].calls /\ c.req = mat[m].req /\ c.gen = mat[m].gen
  BY <1>2, <1>3 DEF MatFields
<1>6. generation \in Nat /\ generation' = generation /\ committed' = committed  BY <1>1 DEF MatchInv, Typed, Aside
<1>7. MatTyped(c)  BY <1>1, <1>2, <1>5, <1>6 DEF MatTyped, MatPcs
<1>8. mat'[m] = c /\ \A k \in Matchers : k # m => mat'[k] = mat[k]  BY <1>4, OneCall DEF MatchInv
<1>9. FoundBy(m)'  BY <1>1, <1>2, <1>5, <1>6, <1>8 DEF FoundBy, Remembered, Storing, Searching
<1>10. PICK now : now = committed  OBVIOUS
<1>11. AskedFor(m, now)'
  <2>1. \A e \in ToSet(cache) : e.gen = generation => e.scenario \in committed  BY DEF MatchInv, Found, EntryFound
  <2>2. \A k \in Matchers : mat[k].pc \in Storing /\ mat[k].gen = generation => mat[k].best \in committed
    BY DEF MatchInv, Found, FoundBy
  <2>3. \A k \in Matchers : mat'[k].pc \in Storing /\ mat'[k].gen = generation => mat'[k].best \in now
    BY <1>5, <1>8, <1>10, <2>2 DEF Storing
  <2> QED  BY <1>1, <1>5, <1>6, <1>8, <1>10, <2>1, <2>3 DEF AskedFor
<1>12. AnswerOf(m)'
  <2>1. committed \in window[m]  BY <1>1, <1>2 DEF AnswerOf, Active, MatPcs
  <2>2. \E d \in window'[m] : AskedFor(m, d)'  BY <1>1, <1>10, <1>11, <2>1
  <2> QED  BY <1>1, <1>5, <1>6, <1>8, <2>1, <2>2 DEF AnswerOf, AnswerIsContent, Storing
<1> QED  BY <1>1, <1>4, <1>5, <1>7, <1>9, <1>12, PlainMatchStep DEF Storing

\* A hit was put for the generation that the call asked for.
LEMMA CacheGetStep ==
    ASSUME MatchInv, NEW m \in Matchers, CacheGet(m)
    PROVE  Aside /\ Caching' /\ Calling' /\ Found' /\ Answering'
<1> DEFINE at == {i \in EntryAt(CacheKey(mat[m].req)) : cache[i].gen = mat[m].i}
<1>1. mat[m].pc = "get" /\ Aside /\ window' = window  BY DEF CacheGet, Aside
<1>2. MatTyped(mat[m]) /\ FoundBy(m) /\ DOMAIN mat[m] = MatFields /\ AnswerOf(m)  BY Own DEF MatchInv
<1>3. generation' = generation /\ committed' = committed  BY <1>1 DEF Aside
<1>4. OneEach(cache)  BY DEF MatchInv, Caching
<1>5. CASE at = {}
  <2>1. cache' = cache /\ mat' = [mat EXCEPT ![m].pc = "shard", ![m].i = 1]  BY <1>5 DEF CacheGet
  <2>2. PICK c : c = [[mat[m] EXCEPT !.pc = "shard"] EXCEPT !.i = 1]  OBVIOUS
  <2>3. Becomes(m, c)  BY <2>1, <2>2 DEF Becomes, MatchInv, Calling
  <2>4. /\ DOMAIN c = MatFields /\ c.pc = "shard" /\ c.i = 1
        /\ c.best = mat[m].best /\ c.seen = mat[m].seen /\ c.branch = mat[m].branch
        /\ c.calls = mat[m].calls /\ c.req = mat[m].req /\ c.gen = mat[m].gen
    BY <1>2, <2>2 DEF MatFields
  <2>5. MatTyped(c)  BY <1>1, <1>2, <2>4 DEF MatTyped, MatPcs
  <2>6. mat'[m] = c  BY <2>3, OneCall DEF MatchInv
  <2>7. FoundBy(m)'  BY <1>1, <1>2, <1>3, <2>4, <2>6 DEF FoundBy, Remembered, Storing, Searching
  <2>8. AnswerOf(m)'  BY <1>1, <2>3, <2>4, StillSearching DEF Active, MatPcs, Searching
  <2> QED  BY <1>1, <2>1, <2>3, <2>4, <2>5, <2>7, <2>8, PlainMatchStep DEF Storing
<1>6. CASE at # {}
  <2> DEFINE k == Min(at)
             s == cache[k].scenario
  <2>1. cache' = MovedToFront(k) /\ mat' = [mat EXCEPT ![m].pc = "done", ![m].out = "hit", ![m].i = 1, ![m].best = s]
    BY <1>6 DEF CacheGet
  <2>2. k \in at
    <3>1. cache \in Seq(Entry)  BY <1>4 DEF OneEach
    <3>2. at \in SUBSET Nat  BY <3>1 DEF EntryAt
    <3> HIDE DEF at
    <3> QED  BY <1>6, <3>2, Least
  <2>3. k \in DOMAIN cache /\ cache[k].gen = mat[m].i  BY <2>2 DEF EntryAt
  <2> HIDE DEF k
  <2>4. cache[k] \in ToSet(cache) /\ cache[k] \in Entry  BY <1>4, <2>3 DEF OneEach, ToSet
  <2>5. s \in Scenario  BY <2>4 DEF Entry
  <2>6. PICK d \in window[m] : AskedFor(m, d)  BY <1>1, <1>2 DEF AnswerOf
  <2>7. s \in d  BY <2>3, <2>4, <2>6 DEF AskedFor
  <2> HIDE DEF s
  <2>8. PICK c : c = [[[[mat[m] EXCEPT !.pc = "done"] EXCEPT !.out = "hit"] EXCEPT !.i = 1] EXCEPT !.best = s]  OBVIOUS
  <2>9. Becomes(m, c)  BY <2>1, <2>8 DEF Becomes, MatchInv, Calling
  <2>10. /\ DOMAIN c = MatFields /\ c.pc = "done" /\ c.i = 1 /\ c.best = s
         /\ c.seen = mat[m].seen /\ c.branch = mat[m].branch
         /\ c.calls = mat[m].calls /\ c.req = mat[m].req /\ c.gen = mat[m].gen
    BY <1>2, <2>8 DEF MatFields
  <2>11. MatTyped(c)  BY <1>1, <1>2, <2>5, <2>10 DEF MatTyped, MatPcs
  <2>12. mat'[m] = c  BY <2>9, OneCall DEF MatchInv
  <2>13. FoundBy(m)'  BY <1>2, <1>3, <2>10, <2>12 DEF FoundBy, Remembered, Storing, Searching
  <2>14. AnswerOf(m)'
    BY <1>1, <2>6, <2>7, <2>10, <2>12 DEF AnswerOf, AnswerIsContent, Active, Storing
  <2>15. OneEach(cache') /\ ToSet(cache') = ToSet(cache)  BY <1>4, <2>1, <2>3, CacheMoved
  <2>16. Caching'  BY <2>15 DEF Caching
  <2>17. window' \in [Matchers -> SUBSET SUBSET Scenario] /\ \A j \in Matchers : j # m => window'[j] = window[j]
    BY <1>1 DEF MatchInv, Calling
  <2>18. \A e \in ToSet(cache') : e \in ToSet(cache) \/ PutBy(m, e)  BY <2>15
  <2>19. Calling' /\ Found' /\ Answering'
    BY <1>1, <2>9, <2>10, <2>11, <2>13, <2>14, <2>17, <2>18, OtherCalls DEF MatchInv, Storing
  <2> QED  BY <1>1, <2>16, <2>19
<1> QED  BY <1>5, <1>6

\* Folding candidates that are in the registry into a call.
LEMMA Absorbed ==
    ASSUME MatchInv, NEW m \in Matchers, mat[m].pc \in Searching, NEW q \in Seq(Present), NEW a, NEW b, NEW c,
           c = Absorb(m, q, a, b)
    PROVE  /\ DOMAIN c = MatFields /\ c.pc \in {"done", a, b} /\ (c.pc \notin {a, b} => c.out = "error")
           /\ c.gen = mat[m].gen /\ c.req = mat[m].req /\ c.calls = mat[m].calls /\ c.seen = mat[m].seen
           /\ c.i = 1 /\ c.branch \in Nat /\ c.best \in Scenario \cup {Nobody}
           /\ mat[m].gen = generation => c.best \in committed \cup {Nobody}
<1> DEFINE r == Evaluate(q, mat[m], mat[m].req)
<1>1. MatTyped(mat[m]) /\ FoundBy(m) /\ DOMAIN mat[m] = MatFields  BY Own DEF MatchInv
<1>2. Present \in SUBSET Scenario /\ committed \in SUBSET Scenario  BY PresentType DEF MatchInv, Typed
<1>3. q \in Seq(Scenario)  BY <1>2
<1>4. r.best \in Scenario \cup {Nobody} /\ r.branch \in Nat /\ r.err \in BOOLEAN
  <2>1. Scenario \in SUBSET Scenario /\ mat[m].best \in Scenario \cup {Nobody} /\ mat[m].branch \in Nat
    BY <1>1 DEF MatTyped
  <2> QED  BY <1>3, <2>1, Evaluated
<1>5. ASSUME mat[m].gen = generation  PROVE r.best \in committed \cup {Nobody}
  <2>1. generation % 2 = 0  BY <1>1, <1>5 DEF FoundBy, Remembered
  <2>2. Present = committed  BY <2>1 DEF MatchInv, Mutex, Mutating, ContentsAgree
  <2>3. mat[m].best \in committed \cup {Nobody} /\ mat[m].branch \in Nat  BY <1>1, <1>5 DEF FoundBy, MatTyped
  <2> QED  BY <1>2, <2>2, <2>3, Evaluated
<1> HIDE DEF r
<1>6. PICK pc : pc = IF r.err THEN "done" ELSE IF r.best # Nobody THEN a ELSE b  OBVIOUS
<1>7. PICK out : out = IF r.err THEN "error" ELSE mat[m].out  OBVIOUS
<1>8. c = [mat[m] EXCEPT !.best = r.best, !.caps = r.caps, !.branch = r.branch, !.i = 1, !.out = out, !.pc = pc]
  BY <1>6, <1>7 DEF Absorb, r
<1>9. /\ DOMAIN c = MatFields /\ c.pc = pc /\ c.out = out /\ c.best = r.best /\ c.branch = r.branch /\ c.i = 1
      /\ c.gen = mat[m].gen /\ c.req = mat[m].req /\ c.calls = mat[m].calls /\ c.seen = mat[m].seen
  BY <1>1, <1>8 DEF MatFields
<1>10. pc \in {"done", a, b} /\ (pc \notin {a, b} => out = "error")  BY <1>4, <1>6, <1>7
<1> QED  BY <1>4, <1>5, <1>9, <1>10

\* A call goes on with what it found, or ends with an error.
LEMMA AbsorbStep ==
    ASSUME MatchInv, Aside, cache' = cache, window' = window, NEW m \in Matchers, mat[m].pc \in Searching,
           NEW c, Becomes(m, c), MatTyped(c), c.gen = mat[m].gen,
           c.pc \in Searching \ {"get"} \/ (c.pc = "done" /\ c.out = "error"),
           mat[m].gen = generation => c.best \in committed \cup {Nobody}
    PROVE  Caching' /\ Calling' /\ Found' /\ Answering'
<1>1. mat'[m] = c  BY OneCall DEF MatchInv
<1>2. FoundBy(m)' /\ AnswerOf(m)'
  <2>1. CASE c.pc = "done" /\ c.out = "error"  BY <2>1, Ended
  <2>2. CASE c.pc \in Searching \ {"get"}
    <3>1. mat[m].pc \in Active  BY DEF Active, MatPcs, Searching
    <3>2. AnswerOf(m)'  BY <2>2, <3>1, StillSearching
    <3>3. Remembered(mat[m].gen)  BY Own DEF MatchInv, FoundBy
    <3>4. FoundBy(m)'  BY <1>1, <2>2, <3>3 DEF FoundBy, Remembered, Searching, Storing, Aside
    <3> QED  BY <3>2, <3>4
  <2> QED  BY <2>1, <2>2
<1>3. c.pc \notin Storing  BY DEF Searching, Storing
<1> QED  BY <1>2, <1>3, PlainMatchStep

\* The candidates of the index are in the registry.
LEMMA MatchInShardStep ==
    ASSUME MatchInv, NEW m \in Matchers, MatchInShard(m)
    PROVE  Aside /\ Caching' /\ Calling' /\ Found' /\ Answering'
<1> DEFINE sh == ShardOf[mat[m].req.path]
           q == IndexCandidates(sh, mat[m].req)
<1>1. /\ mat[m].pc = "shard" /\ Aside /\ cache' = cache /\ window' = window
      /\ mat' = [mat EXCEPT ![m] = Absorb(m, q, "global", "fallback")]
  BY DEF MatchInShard, Aside, store
<1>2. MatTyped(mat[m])  BY Own DEF MatchInv
<1>3. mat[m].req \in Requests  BY <1>1, <1>2 DEF MatTyped
<1>4. sh \in 1..Shards /\ mat[m].req.path \in Seq(ToSet(mat[m].req.path))  BY <1>3, RegistryAssumption
<1>5. q \in Seq(ToSet(shards[sh]))  BY <1>4, Candidates DEF MatchInv
<1> HIDE DEF q, sh
<1>6. q \in Seq(Present)
  <2>1. ToSet(shards[sh]) \subseteq Present  BY <1>4 DEF Present
  <2> QED  BY <1>5, <2>1
<1>7. PICK c : c = Absorb(m, q, "global", "fallback")  OBVIOUS
<1>8. mat[m].pc \in Searching  BY <1>1 DEF Searching
<1>9. /\ DOMAIN c = MatFields /\ c.pc \in {"done", "global", "fallback"}
      /\ (c.pc \notin {"global", "fallback"} => c.out = "error")
      /\ c.gen = mat[m].gen /\ c.req = mat[m].req /\ c.calls = mat[m].calls /\ c.seen = mat[m].seen
      /\ c.i = 1 /\ c.branch \in Nat /\ c.best \in Scenario \cup {Nobody}
      /\ mat[m].gen = generation => c.best \in committed \cup {Nobody}
  BY <1>6, <1>7, <1>8, Absorbed
<1>10. MatTyped(c)
  <2>1. 1 \in 1..Shards  BY RegistryAssumption
  <2> QED  BY <1>2, <1>3, <1>9, <2>1 DEF MatTyped, MatPcs
<1>11. Becomes(m, c)  BY <1>1, <1>7 DEF Becomes
<1>12. c.pc \in Searching \ {"get"} \/ (c.pc = "done" /\ c.out = "error")  BY <1>9 DEF Searching
<1> QED  BY <1>1, <1>8, <1>9, <1>10, <1>11, <1>12, AbsorbStep

\* So are those of a shard that the fallback walks through.
LEMMA FallbackShardStep ==
    ASSUME MatchInv, NEW m \in Matchers, FallbackShard(m)
    PROVE  Aside /\ Caching' /\ Calling' /\ Found' /\ Answering'
<1> DEFINE i == mat[m].i
           fresh(s) == /\ s \notin mat[m].seen
                       /\ s.name = DefaultName => \A t \in mat[m].seen : t.name # DefaultName
           S == {s \in ToSet(shards[i]) : fresh(s)}
           q == Keep(shards[i], S)
           next == IF i = Shards THEN "global" ELSE "fallback"
           to == IF i = Shards THEN 1 ELSE i + 1
           seen == mat[m].seen \cup ToSet(shards[i])
<1>1. /\ mat[m].pc = "fallback" /\ Aside /\ cache' = cache /\ window' = window
      /\ mat' = [mat EXCEPT ![m] = [Absorb(m, q, next, next) EXCEPT !.i = to, !.seen = seen]]
  BY DEF FallbackShard, Aside, store
<1>2. MatTyped(mat[m])  BY Own DEF MatchInv
<1>3. mat[m].req \in Requests /\ i \in 1..Shards /\ Shards \in Nat
  BY <1>1, <1>2, RegistryAssumption DEF MatTyped
<1>4. shards[i] \in Seq(Scenario) /\ ToSet(shards[i]) \subseteq Present  BY <1>3 DEF MatchInv, Typed, Present
<1>5. ToSet(shards[i]) \subseteq Scenario /\ shards[i] \in Seq(ToSet(shards[i]))
  <2> HIDE DEF i
  <2> QED  BY <1>4 DEF ToSet
<1>6. q \in Seq(Present)
  <2> HIDE DEF S
  <2>1. q \in Seq(ToSet(shards[i]))  BY <1>5, Kept
  <2> QED  BY <1>4, <2>1
<1>7. seen \in SUBSET Scenario  BY <1>2, <1>5 DEF MatTyped
<1> HIDE DEF q, seen
<1>8. next \in {"global", "fallback"} /\ to \in Nat /\ (next = "fallback" => to \in 1..Shards)  BY <1>3
<1>9. PICK a : a = Absorb(m, q, next, next)  OBVIOUS
<1>10. mat[m].pc \in Searching  BY <1>1 DEF Searching
<1> HIDE DEF next, to
<1>11. /\ DOMAIN a = MatFields /\ a.pc \in {"done", next} /\ (a.pc # next => a.out = "error")
       /\ a.gen = mat[m].gen /\ a.req = mat[m].req /\ a.calls = mat[m].calls
       /\ a.branch \in Nat /\ a.best \in Scenario \cup {Nobody}
       /\ mat[m].gen = generation => a.best \in committed \cup {Nobody}
  BY <1>6, <1>9, <1>10, Absorbed
<1>12. PICK c : c = [a EXCEPT !.i = to, !.seen = seen]  OBVIOUS
<1>13. /\ DOMAIN c = MatFields /\ c.pc = a.pc /\ c.out = a.out /\ c.gen = a.gen /\ c.req = a.req
       /\ c.calls = a.calls /\ c.branch = a.branch /\ c.best = a.best /\ c.i = to /\ c.seen = seen
  BY <1>11, <1>12 DEF MatFields
<1>14. MatTyped(c)  BY <1>2, <1>3, <1>7, <1>8, <1>11, <1>13 DEF MatTyped, MatPcs
<1>15. Becomes(m, c)  BY <1>1, <1>9, <1>12 DEF Becomes
<1>16. c.pc \in Searching \ {"get"} \/ (c.pc = "done" /\ c.out = "error")
  BY <1>8, <1>11, <1>13 DEF Searching
<1> QED  BY <1>1, <1>10, <1>11, <1>13, <1>14, <1>15, <1>16, AbsorbStep

\* The global list is part of the registry.
LEMMA MatchGlobalStep ==
    ASSUME MatchInv, NEW m \in Matchers, MatchGlobal(m)
    PROVE  Aside /\ Caching' /\ Calling' /\ Found' /\ Answering'
<1>1. /\ mat[m].pc = "global" /\ Aside /\ cache' = cache /\ window' = window
      /\ mat' = [mat EXCEPT ![m] = Absorb(m, global, "check", "check")]
  BY DEF MatchGlobal, Aside, store
<1>2. MatTyped(mat[m])  BY Own DEF MatchInv
<1>3. mat[m].req \in Requests  BY <1>1, <1>2 DEF MatTyped
<1>4. global \in Seq(Present)
  <2>1. global \in Seq(Scenario) /\ ToSet(global) \subseteq Present  BY DEF MatchInv, Typed, Present
  <2>2. global \in Seq(ToSet(global))  BY <2>1 DEF ToSet
  <2> QED  BY <2>1, <2>2
<1>5. PICK c : c = Absorb(m, global, "check", "check")  OBVIOUS
<1>6. mat[m].pc \in Searching  BY <1>1 DEF Searching
<1>7. /\ DOMAIN c = MatFields /\ c.pc \in {"done", "check"} /\ (c.pc # "check" => c.out = "error")
      /\ c.gen = mat[m].gen /\ c.req = mat[m].req /\ c.calls = mat[m].calls /\ c.seen = mat[m].seen
      /\ c.i = 1 /\ c.branch \in Nat /\ c.best \in Scenario \cup {Nobody}
      /\ mat[m].gen = generation => c.best \in committed \cup {Nobody}
  BY <1>4, <1>5, <1>6, Absorbed
<1>8. MatTyped(c)  BY <1>2, <1>3, <1>7 DEF MatTyped, MatPcs
<1>9. Becomes(m, c)  BY <1>1, <1>5 DEF Becomes
<1>10. c.pc \in Searching \ {"get"} \/ (c.pc = "done" /\ c.out = "error")  BY <1>7 DEF Searching
<1> QED  BY <1>1, <1>6, <1>7, <1>8, <1>9, <1>10, AbsorbStep

\* An answer that stands was in the contents now in force; otherwise the search begins anew.
LEMMA CheckGenerationStep ==
    ASSUME MatchInv, NEW m \in Matchers, CheckGeneration(m)
    PROVE  Aside /\ Caching' /\ Calling' /\ Found' /\ Answering'
<1> DEFINE c0 == mat[m]
<1>1. /\ mat[m].pc = "check" /\ Aside /\ cache' = cache /\ window' = window
      /\ mat' = [mat EXCEPT ![m] =
               IF generation # c0.gen THEN [c0 EXCEPT !.pc = "stable", !.best = Nobody, !.seen = {}]
               ELSE IF c0.best = Nobody THEN [c0 EXCEPT !.pc = "done", !.out = "found", !.best = DefaultScenario]
               ELSE [c0 EXCEPT !.pc = IF c0.on THEN "store" ELSE "done", !.out = "found"]]
  BY DEF CheckGeneration, Aside, store
<1>2. MatTyped(mat[m]) /\ FoundBy(m) /\ DOMAIN mat[m] = MatFields /\ AnswerOf(m)  BY Own DEF MatchInv
<1>3. generation' = generation /\ committed' = committed  BY <1>1 DEF Aside
<1>4. committed \in window[m]  BY <1>1, <1>2 DEF AnswerOf, Active, MatPcs
<1>5. CASE generation # mat[m].gen
  <2>1. PICK c : c = [mat[m] EXCEPT !.pc = "stable", !.best = Nobody, !.seen = {}]  OBVIOUS
  <2>2. Becomes(m, c)  BY <1>1, <1>5, <2>1 DEF Becomes
  <2>3. /\ DOMAIN c = MatFields /\ c.pc = "stable" /\ c.best = Nobody /\ c.seen = {}
        /\ c.i = mat[m].i /\ c.branch = mat[m].branch
        /\ c.calls = mat[m].calls /\ c.req = mat[m].req /\ c.gen = mat[m].gen
    BY <1>2, <2>1 DEF MatFields
  <2>4. MatTyped(c)  BY <1>1, <1>2, <2>3 DEF MatTyped, MatPcs
  <2>5. mat'[m] = c  BY <2>2, OneCall DEF MatchInv
  <2>6. FoundBy(m)'  BY <1>2, <1>3, <2>3, <2>5 DEF FoundBy, Remembered, Storing, Searching
  <2>7. AnswerOf(m)'  BY <1>1, <2>2, <2>3, StillSearching DEF Active, MatPcs
  <2> QED  BY <1>1, <2>2, <2>3, <2>4, <2>6, <2>7, PlainMatchStep DEF Storing
<1>6. CASE generation = mat[m].gen /\ mat[m].best = Nobody
  <2>1. PICK c : c = [mat[m] EXCEPT !.pc = "done", !.out = "found", !.best = DefaultScenario]  OBVIOUS
  <2>2. Becomes(m, c)  BY <1>1, <1>6, <2>1 DEF Becomes
  <2>3. /\ DOMAIN c = MatFields /\ c.pc = "done" /\ c.best = DefaultScenario /\ c.seen = mat[m].seen
        /\ c.i = mat[m].i /\ c.branch = mat[m].branch
        /\ c.calls = mat[m].calls /\ c.req = mat[m].req /\ c.gen = mat[m].gen
    BY <1>2, <2>1 DEF MatFields
  <2>4. MatTyped(c)  BY <1>1, <1>2, <2>3, DefaultOne DEF MatTyped, MatPcs
  <2>5. mat'[m] = c  BY <2>2, OneCall DEF MatchInv
  <2>6. FoundBy(m)'  BY <1>2, <1>3, <2>3, <2>5 DEF FoundBy, Remembered, Storing, Searching
  <2>7. AnswerOf(m)'  BY <2>3, <2>5 DEF AnswerOf, AnswerIsContent, Active, Storing
  <2> QED  BY <1>1, <2>2, <2>3, <2>4, <2>6, <2>7, PlainMatchStep DEF Storing
<1>7. CASE generation = mat[m].gen /\ mat[m].best # Nobody
  <2>1. PICK pc : pc = IF mat[m].on THEN "store" ELSE "done"  OBVIOUS
  <2>2. pc \in {"store", "done"}  BY <2>1
  <2>3. PICK c : c = [mat[m] EXCEPT !.pc = pc, !.out = "found"]  OBVIOUS
  <2>4. Becomes(m, c)  BY <1>1, <1>7, <2>1, <2>3 DEF Becomes
  <2>5. /\ DOMAIN c = MatFields /\ c.pc = pc /\ c.best = mat[m].best /\ c.seen = mat[m].seen
        /\ c.i = mat[m].i /\ c.branch = mat[m].branch
        /\ c.calls = mat[m].calls /\ c.req = mat[m].req /\ c.gen = mat[m].gen
    BY <1>2, <2>3 DEF MatFields
  <2>6. MatTyped(c)  BY <1>1, <1>2, <2>2, <2>5 DEF MatTyped, MatPcs
  <2>7. mat'[m] = c  BY <2>4, OneCall DEF MatchInv
  <2>8. mat[m].best \in committed /\ c.gen = generation
    <3>1. mat[m].best \in committed \cup {Nobody}  BY <1>1, <1>2, <1>7 DEF FoundBy, Searching
    <3> QED  BY <1>7, <2>5, <3>1
  <2>9. FoundBy(m)'
    <3>1. Remembered(mat[m].gen)  BY <1>2 DEF FoundBy
    <3> QED  BY <1>3, <1>7, <2>2, <2>5, <2>7, <2>8, <3>1 DEF FoundBy, Remembered, Storing, Searching
  <2>10. AnswerOf(m)'
    <3>1. committed' \in window'[m] /\ mat'[m].best \in committed'
      <4>1. committed' \in window'[m]  BY <1>1, <1>3, <1>4
      <4>2. mat'[m].best = mat[m].best  BY <2>5, <2>7
      <4> QED  BY <1>3, <2>8, <4>1, <4>2
    <3>2. mat'[m].pc # "get"  BY <2>2, <2>5, <2>7
    <3> QED  BY <3>1, <3>2 DEF AnswerOf, AnswerIsContent
  <2> QED  BY <1>1, <2>4, <2>5, <2>6, <2>8, <2>9, <2>10, PlainMatchStep
<1> QED  BY <1>5, <1>6, <1>7

\* The answer is to be kept, or not.
LEMMA StoreCheckStep ==
    ASSUME MatchInv, NEW m \in Matchers, StoreCheck(m)
    PROVE  Aside /\ Caching' /\ Calling' /\ Found' /\ Answering'
<1>1. PICK pc : pc = IF generation = mat[m].gen THEN "put" ELSE "done"  OBVIOUS
<1>2. /\ mat[m].pc = "store" /\ Aside /\ cache' = cache /\ window' = window
      /\ mat' = [mat EXCEPT ![m].pc = pc]
  BY <1>1 DEF StoreCheck, Aside, store
<1>3. pc \in {"put", "done"}  BY <1>1
<1>4. MatTyped(mat[m]) /\ FoundBy(m) /\ DOMAIN mat[m] = MatFields /\ AnswerOf(m)  BY Own DEF MatchInv
<1>5. PICK c : c = [mat[m] EXCEPT !.pc = pc]  OBVIOUS
<1>6. Becomes(m, c)  BY <1>2, <1>5 DEF Becomes, MatchInv, Calling
<1>7. /\ DOMAIN c = MatFields /\ c.pc = pc /\ c.best = mat[m].best /\ c.seen = mat[m].seen
      /\ c.i = mat[m].i /\ c.branch = mat[m].branch /\ c.out = mat[m].out
      /\ c.calls = mat[m].calls /\ c.req = mat[m].req /\ c.gen = mat[m].gen
  BY <1>4, <1>5 DEF MatFields
<1>8. MatTyped(c)  BY <1>2, <1>3, <1>4, <1>7 DEF MatTyped, MatPcs
<1>9. mat'[m] = c  BY <1>6, OneCall DEF MatchInv
<1>10. generation' = generation /\ committed' = committed  BY <1>2 DEF Aside
<1>11. FoundBy(m)'
  BY <1>2, <1>3, <1>4, <1>7, <1>9, <1>10 DEF FoundBy, Remembered, Storing, Searching
<1>12. AnswerOf(m)'
  <2>1. PICK d \in window[m] : mat[m].best \in d  BY <1>2, <1>4 DEF AnswerOf, Storing
  <2>2. committed \in window[m]  BY <1>2, <1>4 DEF AnswerOf, Active, MatPcs
  <2>3. mat'[m].pc # "get"  BY <1>3, <1>7, <1>9
  <2> QED  BY <1>2, <1>7, <1>9, <1>10, <2>1, <2>2, <2>3 DEF AnswerOf, AnswerIsContent
<1> QED  BY <1>2, <1>6, <1>7, <1>8, <1>11, <1>12, PlainMatchStep DEF Storing

\* The entry that is put carries the generation of the search, so that it counts only for the
\* contents that were searched.
LEMMA StorePutStep ==
    ASSUME MatchInv, NEW m \in Matchers, StorePut(m)
    PROVE  Aside /\ Caching' /\ Calling' /\ Found' /\ Answering'
<1>1. PICK e : e = [key |-> CacheKey(mat[m].req), scenario |-> mat[m].best, gen |-> mat[m].gen]  OBVIOUS
<1>2. /\ mat[m].pc = "put" /\ Aside /\ cache' = PutGeneration(e) /\ window' = window
      /\ mat' = [mat EXCEPT ![m].pc = "done"]
  BY <1>1 DEF StorePut, Aside
<1>3. MatTyped(mat[m]) /\ FoundBy(m) /\ DOMAIN mat[m] = MatFields /\ AnswerOf(m)  BY Own DEF MatchInv
<1>4. e \in Entry /\ e.gen = mat[m].gen /\ e.scenario = mat[m].best
  <2>1. mat[m].req \in Requests  BY <1>2, <1>3 DEF MatTyped
  <2>2. mat[m].best \in Scenario  BY <1>2, <1>3 DEF MatTyped, FoundBy, Storing
  <2>3. mat[m].gen \in Nat  BY <1>3 DEF MatTyped
  <2>4. CacheKey(mat[m].req) \in {CacheKey(r) : r \in Requests}  BY <2>1
  <2> QED  BY <1>1, <2>2, <2>3, <2>4 DEF Entry
<1>5. OneEach(cache) BY DEF MatchInv, Caching
<1>6. OneEach(cache') /\ ToSet(cache') \subseteq ToSet(cache) \cup {e}  BY <1>2, <1>4, <1>5, CachePut
<1>7. PICK c : c = [mat[m] EXCEPT !.pc = "done"]  OBVIOUS
<1>8. Becomes(m, c)  BY <1>2, <1>7 DEF Becomes, MatchInv, Calling
<1>9. /\ DOMAIN c = MatFields /\ c.pc = "done" /\ c.best = mat[m].best /\ c.seen = mat[m].seen
      /\ c.i = mat[m].i /\ c.branch = mat[m].branch /\ c.out = mat[m].out
      /\ c.calls = mat[m].calls /\ c.req = mat[m].req /\ c.gen = mat[m].gen
  BY <1>3, <1>7 DEF MatFields
<1>10. MatTyped(c)  BY <1>2, <1>3, <1>9 DEF MatTyped, MatPcs
<1>11. mat'[m] = c  BY <1>8, OneCall DEF MatchInv
<1>12. generation' = generation /\ committed' = committed  BY <1>2 DEF Aside
<1>13. FoundBy(m)'  BY <1>3, <1>9, <1>11, <1>12 DEF FoundBy, Remembered, Storing, Searching
<1>14. AnswerOf(m)'
  <2>1. PICK d \in window[m] : mat[m].best \in d  BY <1>2, <1>3 DEF AnswerOf, Storing
  <2> QED  BY <1>2, <1>9, <1>11, <2>1 DEF AnswerOf, AnswerIsContent, Active, Storing
<1>15. \A x \in ToSet(cache') : x \in ToSet(cache) \/ PutBy(m, x)  BY <1>2, <1>4, <1>6 DEF PutBy
<1>16. window' \in [Matchers -> SUBSET SUBSET Scenario] /\ \A j \in Matchers : j # m => window'[j] = window[j]
  BY <1>2 DEF MatchInv, Calling
<1>17. Caching'  BY <1>6 DEF Caching
<1>18. Calling' /\ Found' /\ Answering'
  BY <1>2, <1>8, <1>9, <1>10, <1>13, <1>14, <1>15, <1>16, OtherCalls DEF MatchInv, Storing
<1> QED  BY <1>2, <1>17, <1>18

\* A call whose context ends gives no answer.
LEMMA MatchCancelledStep ==
    ASSUME MatchInv, NEW m \in Matchers, MatchCancelled(m)
    PROVE  Aside /\ Caching' /\ Calling' /\ Found' /\ Answering'
<1>1. /\ mat[m].pc # "idle" /\ Aside /\ cache' = cache /\ window' = window
      /\ mat' = [mat EXCEPT ![m].pc = "done", ![m].out = "error"]
  BY DEF MatchCancelled, Aside, store
<1>2. MatTyped(mat[m]) /\ DOMAIN mat[m] = MatFields  BY Own DEF MatchInv
<1>3. PICK c : c = [[mat[m] EXCEPT !.pc = "done"] EXCEPT !.out = "error"]  OBVIOUS
<1>4. Becomes(m, c)  BY <1>1, <1>3 DEF Becomes, MatchInv, Calling
<1>5. /\ DOMAIN c = MatFields /\ c.pc = "done" /\ c.out = "error" /\ c.best = mat[m].best
      /\ c.seen = mat[m].seen /\ c.i = mat[m].i /\ c.branch = mat[m].branch
      /\ c.calls = mat[m].calls /\ c.req = mat[m].req /\ c.gen = mat[m].gen
  BY <1>2, <1>3 DEF MatFields
<1>6. MatTyped(c)  BY <1>1, <1>2, <1>5 DEF MatTyped, MatPcs
<1>7. AnswerOf(m)' /\ FoundBy(m)'  BY <1>1, <1>4, <1>5, Ended
<1> QED  BY <1>1, <1>4, <1>5, <1>6, <1>7, PlainMatchStep DEF Storing

-----------------------------------------------------------------------------
(* The theorems *)

\* The registry starts with the default scenario in every shard, and nobody at work.
LEMMA Initially == Init => IndInv
<1> SUFFICES ASSUME Init PROVE IndInv  OBVIOUS
<1>1. PICK d : d = DefaultScenario  OBVIOUS
<1>2. d \in Scenario  BY <1>1, DefaultOne
<1>3. PICK one \in Seq(Scenario) : one = <<d>> /\ ToSet(one) = {d}
  <2>1. <<d>> \in Seq(Scenario)  BY <1>2
  <2>2. ToSet(<<d>>) = {d}  BY DEF ToSet
  <2> QED  BY <2>1, <2>2
<1>4. PICK none \in Seq(Scenario) : none = <<>> /\ ToSet(none) = {} /\ Distinct(none)
  <2>1. <<>> \in Seq(Scenario) /\ DOMAIN <<>> = {}  OBVIOUS
  <2>2. ToSet(<<>>) = {} /\ Distinct(<<>>)  BY <2>1 DEF ToSet, Distinct
  <2> QED  BY <2>1, <2>2
<1>5. /\ shards = [i \in 1..Shards |-> one] /\ global = none /\ committed = {d} /\ generation = 0
      /\ mu = None /\ mut = [p \in Mutators |-> IdleMut] /\ mat = [m \in Matchers |-> IdleMat]
      /\ cache = <<>> /\ window = [m \in Matchers |-> {}] /\ cacheOff = FALSE /\ loaded = FALSE
      /\ disk \in Files /\ edits = 0
  BY <1>1, <1>3, <1>4 DEF Init
<1>6. Present = {d}
  <2>1. 1 \in 1..Shards  BY RegistryAssumption
  <2>2. (UNION {ToSet(shards[i]) : i \in 1..Shards}) = {d}  BY <1>3, <1>5, <2>1
  <2> QED  BY <1>4, <1>5, <2>2 DEF Present
<1>7. IdleMut \in MutRecord /\ IdleMut.pc = "idle" /\ IdleMut.i = 1 /\ IdleMut.hit = FALSE
  BY DEF IdleMut, MutRecord, MutPcs
<1>8. \A p \in Mutators : mut[p] = IdleMut  BY <1>5
<1>9. Typed
  <2>1. shards \in [1..Shards -> Seq(Scenario)] /\ mut \in [Mutators -> MutRecord]  BY <1>3, <1>5, <1>7
  <2>2. edits \in 0..MaxEdits  BY <1>5, RegistryAssumption
  <2>3. committed \in SUBSET Scenario  BY <1>2, <1>5
  <2>4. global \in Seq(Scenario)  BY <1>4, <1>5
  <2> QED  BY <1>5, <2>1, <2>2, <2>3, <2>4 DEF Typed
<1>10. Mutex
  <2>1. \A p \in Mutators : mu # p /\ mut[p].pc \notin Held  BY <1>5, <1>7, <1>8, RegistryAssumption DEF Held
  <2>2. generation % 2 = 0  BY <1>5
  <2> QED  BY <1>5, <2>1, <2>2 DEF Mutex
<1>11. Numbered
  <2>1. IsFiniteSet(Passed)
    <3>1. Passed \subseteq Mutators  BY DEF Passed
    <3> QED  BY <3>1, FS_Subset, RegistryAssumption
  <2>2. Cardinality(Passed) \in Nat  BY <2>1, FS_CardinalityType
  <2> QED  BY <1>5, <2>2 DEF Numbered
<1>12. Mutating
  <2>1. UniqueNames(committed)  BY <1>5 DEF UniqueNames
  <2>2. ContentsAgree  BY <1>5, <1>6 DEF ContentsAgree
  <2>3. Distinct(global)  BY <1>4, <1>5
  <2>4. ASSUME NEW p \in Mutators  PROVE Prepared(p) /\ Contents(p)
    BY <1>7, <1>8 DEF Prepared, Contents, Held
  <2> QED  BY <2>1, <2>2, <2>3, <2>4 DEF Mutating
<1>13. Caching /\ ToSet(cache) = {}
  <2>1. <<>> \in Seq(Entry) /\ Len(<<>>) = 0 /\ DOMAIN <<>> = {}  OBVIOUS
  <2>2. OneEach(<<>>) /\ ToSet(<<>>) = {}  BY <2>1, RegistryAssumption DEF OneEach, Distinct, ToSet
  <2> QED  BY <1>5, <2>2 DEF Caching
<1>14. /\ DOMAIN IdleMat = MatFields /\ IdleMat.gen = 0 /\ IdleMat.i = 1 /\ IdleMat.best = Nobody
       /\ IdleMat.seen = {} /\ IdleMat.branch = 0 /\ IdleMat.calls = 0 /\ IdleMat.pc = "idle"
  BY DEF IdleMat, MatFields
<1>15. \A m \in Matchers : mat[m] = IdleMat  BY <1>5
<1>16. Calling
  <2>1. 0 \in 0..MaxCalls  BY RegistryAssumption
  <2>2. MatTyped(IdleMat)  BY <1>14, <2>1 DEF MatTyped, MatPcs
  <2>3. mat = [m \in Matchers |-> mat[m]]  BY <1>5
  <2>4. window \in [Matchers -> SUBSET SUBSET Scenario]  BY <1>5
  <2> QED  BY <1>15, <2>2, <2>3, <2>4 DEF Calling
<1>17. Found
  <2>1. Remembered(0)  BY <1>5 DEF Remembered
  <2> QED  BY <1>13, <1>14, <1>15, <2>1 DEF Found, FoundBy, Searching, Storing
<1>18. Answering
  BY <1>14, <1>15 DEF Answering, AnswerOf, AnswerIsContent, Active, Storing
<1> QED  BY <1>9, <1>10, <1>11, <1>12, <1>13, <1>16, <1>17, <1>18 DEF IndInv

\* Nothing of the inductive invariant but Typed depends on the file.
LEMMA FileAside ==
    ASSUME IndInv, UNCHANGED <<store, mu, mut, mat, committed, window>>, Typed'
    PROVE  IndInv'
<1>1. /\ shards' = shards /\ global' = global /\ generation' = generation /\ cacheOff' = cacheOff
      /\ cache' = cache /\ loaded' = loaded /\ mu' = mu /\ mut' = mut /\ mat' = mat
      /\ committed' = committed /\ window' = window
  BY DEF store
<1>2. Mutex' /\ Numbered'  BY <1>1 DEF IndInv, Mutex, Numbered, Passed
<1>3. Mutating'
  <2>1. Present' = Present  BY <1>1 DEF Present
  <2>2. \A p \in Mutators : Prepared(p)' /\ Contents(p)'
    <3> TAKE p \in Mutators
    <3>1. Prepared(p) /\ Contents(p)  BY DEF IndInv, Mutating
    <3> QED  BY <1>1, <3>1, OtherMutation
  <2> QED  BY <1>1, <2>1, <2>2 DEF IndInv, Mutating, ContentsAgree
<1>4. Caching' /\ Calling'  BY <1>1 DEF IndInv, Caching, OneEach, Calling, MatTyped
<1>5. Found'  BY <1>1 DEF IndInv, Found, FoundBy, EntryFound, Remembered
<1>6. Answering'
  BY <1>1 DEF IndInv, Answering, AnswerOf, AnswerIsContent, AskedFor
<1> QED  BY <1>2, <1>3, <1>4, <1>5, <1>6 DEF IndInv

\* Every step preserves the inductive invariant.
LEMMA Inductive == IndInv /\ [Next]_vars => IndInv'
<1> SUFFICES ASSUME IndInv, [Next]_vars  PROVE IndInv'  OBVIOUS
<1>1. Typed /\ Mutex /\ Numbered /\ Mutating /\ Caching /\ Calling /\ Found /\ Answering /\ MatchInv
  BY DEF IndInv, MatchInv
<1>2. CASE EditFile
  <2>1. Typed'
    <3>1. edits' \in 0..MaxEdits  BY <1>1, <1>2, RegistryAssumption DEF EditFile, Typed
    <3> QED  BY <1>1, <1>2, <3>1 DEF EditFile, Typed, store
  <2> QED  BY <1>2, <2>1, FileAside DEF EditFile
<1>3. CASE UNCHANGED vars
  <2>1. Typed'  BY <1>1, <1>3 DEF vars, store, Typed
  <2> QED  BY <1>3, <2>1, FileAside DEF vars
<1>4. ASSUME NEW p \in Mutators, MutStep(p)  PROVE IndInv'
  <2>1. Typed' /\ Mutex' /\ Mutating'  BY <1>1, <1>4, MutationStep
  <2>2. Numbered'  BY <1>1, <1>4, <2>1, NumberedStep
  <2>3. Caching' /\ Calling'  BY <1>1, <1>4, <2>1, CachingBeside, CallingBeside
  <2>4. Found' /\ Answering'  BY <1>1, <1>4, FoundBeside, AnsweringBeside
  <2> QED  BY <2>1, <2>2, <2>3, <2>4 DEF IndInv
<1>5. ASSUME NEW m \in Matchers, Call(m) \/ MatchStep(m) \/ MatchCancelled(m)  PROVE IndInv'
  <2>1. Aside /\ Caching' /\ Calling' /\ Found' /\ Answering'
    BY <1>1, <1>5, CallStep, StableGenerationStep, ReadCacheFlagStep, ReadCacheGenerationStep, CacheGetStep,
       MatchInShardStep, FallbackShardStep, MatchGlobalStep, CheckGenerationStep, StoreCheckStep, StorePutStep,
       MatchCancelledStep DEF MatchStep
  <2>2. Typed' /\ Mutex' /\ Numbered' /\ Mutating'  BY <1>1, <2>1, RegistryAside
  <2> QED  BY <2>1, <2>2 DEF IndInv
<1> QED  BY <1>2, <1>3, <1>4, <1>5 DEF Next

\* The inductive invariant holds at every moment.
THEOREM Invariance == Spec => []IndInv
BY Initially, Inductive, PTL DEF Spec

\* The invariant implies the types: generation is at most twice the number of mutations, and
\* the keys of the cache are distinct.
LEMMA Types == IndInv => TypeOK
<1> SUFFICES ASSUME IndInv  PROVE TypeOK  OBVIOUS
<1>1. generation \in 0..2 * Cardinality(Mutators)
  <2>1. generation \in Nat  BY DEF IndInv, Typed
  <2>2. Passed \subseteq Mutators  BY DEF Passed
  <2>3. IsFiniteSet(Passed) /\ Cardinality(Passed) \in Nat /\ Cardinality(Mutators) \in Nat
    BY <2>2, FS_Subset, FS_CardinalityType, RegistryAssumption
  <2>4. Cardinality(Passed) <= Cardinality(Mutators)  BY <2>2, FS_Subset, RegistryAssumption
  <2>5. PICK k \in {0, 1} : generation + k <= 2 * Cardinality(Passed)  BY DEF IndInv, Numbered
  <2> QED  BY <2>1, <2>3, <2>4, <2>5
<1>2. IsInjective([i \in DOMAIN cache |-> cache[i].key])
  <2>1. \A i, j \in DOMAIN cache : cache[i].key = cache[j].key => i = j
    <3> TAKE i, j \in DOMAIN cache
    <3> HAVE cache[i].key = cache[j].key
    <3>1. cache[i] \in ToSet(cache) /\ cache[j] \in ToSet(cache)  BY DEF ToSet
    <3>2. cache[i] = cache[j]  BY <3>1 DEF IndInv, Caching, OneEach
    <3> QED  BY <3>2 DEF IndInv, Caching, OneEach, Distinct
  <2> QED  BY <2>1 DEF IsInjective
<1>3. Len(cache) <= CacheCap  BY DEF IndInv, Caching, OneEach
<1>4. \A m \in Matchers : mat[m].calls \in 0..MaxCalls /\ mat[m].branch \in Nat
  BY DEF IndInv, Calling, MatTyped
<1> QED  BY <1>1, <1>2, <1>3, <1>4 DEF IndInv, Typed, Mutex, TypeOK

\* The state keeps its types: mutationMu is free exactly when generation is even, generation
\* counts the mutations and the cache holds at most CacheCap entries of different keys.
THEOREM TypeCorrectness == Spec => []TypeOK
BY Invariance, Types, PTL

\* Whenever no mutation is under way, the shards and the global list hold what the plain
\* registry would hold: no copy of a removed or replaced scenario is left in any shard, and
\* none of those declared is missing.
THEOREM ContentsTheorem == Spec => []ContentsAgree
<1>1. IndInv => ContentsAgree  BY DEF IndInv, Mutating
<1> QED  BY <1>1, Invariance, PTL

\* A scenario that Match returns, from the lists or from the cache, was in the registry at a
\* moment of that call, or it is the default: a list read half way through a mutation and an
\* entry put late never make an answer.
THEOREM AnswersTheorem == Spec => []AnswersAreContents
<1>1. IndInv => AnswersAreContents  BY DEF IndInv, Answering, AnswerOf, AnswersAreContents
<1> QED  BY <1>1, Invariance, PTL

-----------------------------------------------------------------------------
(* Which scenario is found: a second invariant, for a regular registry *)

\* The scenarios in the shards.
Sharded(sh) == UNION {ToSet(sh[i]) : i \in 1..Shards}

\* What validation leaves: a name, and no method of the routes without endpoints.
Proper(s) == s.name # None /\ \A m \in DOMAIN s.routes : s.routes[m] # <<>>
Sound(S) == UniqueOrders(S) /\ \A s \in S : Proper(s)

\* Only the built-in default is in a shard that does not index it ...
Keyed == \A i \in 1..Shards : \A s \in ToSet(shards[i]) : s = DefaultScenario \/ IndexKeys(s, i) # {}
\* ... and then it is the last of all.
DefaultIsLast(S) == DefaultScenario \in Sharded(shards) => \A s \in S : s = DefaultScenario \/ s.priority > DefaultScenario.priority

\* The scenarios of S are in every shard that is to index them.
Full(S) == \A i \in 1..Shards : \A s \in S : IndexKeys(s, i) # {} => s \in ToSet(shards[i])

\* The cache is off if one of S asks for it.
Covers(S) == AnyDisablesCache(S) => cacheOff

Ready(S) == Full(S) /\ DefaultIsLast(S) /\ Covers(S)

\* What holds of the lists and of the flag at each step of a mutation.
Arranged(p) ==
    /\ mut[p].pc \in {"list", "lock"} \cup Held /\ Replaces(p) => Sound(ToSet(mut[p].next))
    /\ mut[p].pc \in Held \ {"refused"} /\ mut[p].op.kind = "add" => Proper(mut[p].op.s)
    /\ mut[p].pc = "refused" => Ready(committed)
    /\ mut[p].pc \in {"shard", "global"} /\ ~Replaces(p) =>
          /\ Full(Others(committed, NameOf(mut[p].op))) /\ DefaultIsLast(committed) /\ Covers(committed)
          /\ mut[p].hit = FALSE => Full(committed)
    /\ mut[p].pc \in {"flag", "index", "commit"} => Full(Present) /\ DefaultIsLast(Present)
    /\ mut[p].op.kind = "load" /\ mut[p].pc \in Held => Covers(ToSet(mut[p].next))
    /\ mut[p].pc = "index" /\ mut[p].op.kind = "add" => Covers(Present)
    /\ mut[p].pc = "commit" => Covers(Present)
    /\ mut[p].pc = "index" /\ mut[p].op.kind = "load" => DefaultScenario \notin Sharded(shards)

Arranging ==
    /\ Keyed /\ Sound(committed) /\ IsFiniteSet(committed) /\ (mu = None => Ready(committed))
    /\ \A p \in Mutators : Arranged(p)

\* b is the first of S that matches r, and no evaluation fails.
Winner(b, S, r) ==
    /\ \A s \in S : MatchesScenario(s, r).res # "error"
    /\ IF b = Nobody THEN \A s \in S : MatchesScenario(s, r).res = "no"
       ELSE /\ b \in S /\ MatchesScenario(b, r).res = "yes"
            /\ \A s \in S \ {b} : MatchesScenario(s, r).res = "yes" => ScenarioOutranks(b, s)

\* What a call has found since it began, if generation is still the same.
SoFar(c) ==
    /\ c.pc = "fallback" =>
          /\ c.seen = UNION {ToSet(shards[j]) : j \in 1..c.i - 1}
          /\ Winner(c.best, c.seen, c.req)
    /\ c.pc = "global" => Winner(c.best, Sharded(shards), c.req)
    /\ c.pc \in {"check"} \cup Storing => Winner(c.best, committed, c.req)
    /\ c.pc \in (Active \ {"stable", "flag"}) /\ c.on => ~AnyDisablesCache(committed)

SearchedBy(m) ==
    /\ mat[m].pc \in {"stable", "flag", "ask", "get", "shard"} => mat[m].best = Nobody /\ mat[m].seen = {}
    /\ mat[m].pc \in Storing => mat[m].on
    /\ mat[m].pc \in Active \ {"stable"} /\ mat[m].gen = generation => SoFar(mat[m])

\* An entry for the present generation answers for its key.
Serves(e, key, S) == e # Nobody /\ \A r \in Requests : CacheKey(r) = key => Winner(e, S, r)
Fresh(e) == e.gen = generation => Serves(e.scenario, e.key, committed)

\* The contents c that a call has asked the cache for.
Offered(m, c) ==
    /\ mat[m].i = generation => c = committed
    /\ \A e \in ToSet(cache) : e.gen = mat[m].i => Serves(e.scenario, e.key, c)
    /\ \A k \in Matchers : mat[k].pc \in Storing /\ mat[k].gen = mat[m].i => Serves(mat[k].best, CacheKey(mat[k].req), c)

RightAnswer(m) ==
    /\ mat[m].pc = "get" => \E c \in window[m] : Offered(m, c)
    /\ mat[m].pc \in Storing \/ (mat[m].pc = "done" /\ mat[m].out \in {"found", "hit"}) =>
          \E c \in window[m] : mat[m].best = PlainAnswer(c, mat[m].req)

Matching ==
    /\ \A e \in ToSet(cache) : Fresh(e)
    /\ \A m \in Matchers : SearchedBy(m) /\ RightAnswer(m)

MatchInvariant == Arranging /\ Matching

-----------------------------------------------------------------------------
(* Verdicts *)

\* An evaluation fails, or matches, or does not.
LEMMA Verdicts ==
    ASSUME NEW s, NEW r
    PROVE  MatchesScenario(s, r).res \in {"yes", "no", "error"}
<1> DEFINE eps     == EndpointsFor(s, r)
           hits    == {i \in DOMAIN eps : EndpointMatches(eps[i], r.path)}
           located == MethodMatches(s, r) /\ (eps = <<>> \/ hits # {})
           ruled   == located /\ RulesMatch(s.rule, r)
           body    == BodyPatternVerdict(s.rule, r)
           passed  == /\ ruled /\ body = "yes"
                      /\ Accepts(s.rule.client, r.client) /\ Accepts(s.rule.cidr, r.client)
           branch  == SelectBranch(s, r)
<1>1. MatchesScenario(s, r).res =
        CASE ruled /\ body = "error" -> "error"
          [] passed /\ (s.branches = <<>> \/ branch > 0) -> "yes"
          [] OTHER -> "no"
  BY DEF MatchesScenario
<1> HIDE DEF ruled, body, passed, branch
<1>2. CASE ruled /\ body = "error"
  <2>1. ~passed  BY <1>2 DEF passed
  <2> QED  BY <1>1, <1>2, <2>1
<1>3. CASE ~(ruled /\ body = "error")  BY <1>1, <1>3
<1> QED  BY <1>2, <1>3

\* What an evaluation that does not say no has in common: method and endpoint fit.
LEMMA Located ==
    ASSUME NEW s, NEW r, MatchesScenario(s, r).res # "no"
    PROVE  /\ MethodMatches(s, r)
           /\ \/ EndpointsFor(s, r) = <<>>
              \/ \E i \in DOMAIN EndpointsFor(s, r) : EndpointMatches(EndpointsFor(s, r)[i], r.path)
<1> DEFINE eps     == EndpointsFor(s, r)
           hits    == {i \in DOMAIN eps : EndpointMatches(eps[i], r.path)}
           located == MethodMatches(s, r) /\ (eps = <<>> \/ hits # {})
           ruled   == located /\ RulesMatch(s.rule, r)
           body    == BodyPatternVerdict(s.rule, r)
           passed  == /\ ruled /\ body = "yes"
                      /\ Accepts(s.rule.client, r.client) /\ Accepts(s.rule.cidr, r.client)
           branch  == SelectBranch(s, r)
<1>1. MatchesScenario(s, r).res =
        CASE ruled /\ body = "error" -> "error"
          [] passed /\ (s.branches = <<>> \/ branch > 0) -> "yes"
          [] OTHER -> "no"
  BY DEF MatchesScenario
<1>2. passed => ruled  OBVIOUS
<1>3. ruled => located  OBVIOUS
<1>4. located => MethodMatches(s, r) /\ (eps = <<>> \/ \E i \in DOMAIN eps : EndpointMatches(eps[i], r.path))
  OBVIOUS
<1> HIDE DEF ruled, body, passed, branch
<1>5. ruled  BY <1>1, <1>2
<1> HIDE DEF located, eps
<1>6. located  BY <1>3, <1>5
<1> QED  BY <1>4, <1>6 DEF eps

\* The built-in default matches every request.
LEMMA DefaultMatches ==
    ASSUME NEW r
    PROVE  MatchesScenario(DefaultScenario, r).res = "yes"
<1>1. PICK s : s = DefaultScenario  OBVIOUS
<1>2. s.routes = <<>> /\ s.methods = {} /\ s.paths = <<>> /\ s.rule = NoRule /\ s.branches = <<>>
  BY <1>1 DEF DefaultScenario
<1>3. s.rule.headers = {} /\ s.rule.httpMethod = {} /\ s.rule.httpHeaders = {} /\ s.rule.httpURL = {}
      /\ s.rule.body = {} /\ s.rule.client = {} /\ s.rule.cidr = {}
  BY <1>2 DEF NoRule
<1>4. DOMAIN <<>> = {}  OBVIOUS
<1>5. ~HasRoutes(s)  BY <1>2, <1>4 DEF HasRoutes
<1>6. MethodMatches(s, r) /\ EndpointsFor(s, r) = <<>>  BY <1>2, <1>5 DEF MethodMatches, EndpointsFor
<1>7. RulesMatch(s.rule, r)  BY <1>3 DEF RulesMatch, Accepts
<1>8. BodyPatternVerdict(s.rule, r) = "yes"  BY <1>3 DEF BodyPatternVerdict
<1>9. Accepts(s.rule.client, r.client) /\ Accepts(s.rule.cidr, r.client)  BY <1>3 DEF Accepts
<1>10. MatchesScenario(s, r).res = "yes"
  <2> DEFINE eps     == EndpointsFor(s, r)
             hits    == {i \in DOMAIN eps : EndpointMatches(eps[i], r.path)}
             located == MethodMatches(s, r) /\ (eps = <<>> \/ hits # {})
             ruled   == located /\ RulesMatch(s.rule, r)
             body    == BodyPatternVerdict(s.rule, r)
             passed  == /\ ruled /\ body = "yes"
                        /\ Accepts(s.rule.client, r.client) /\ Accepts(s.rule.cidr, r.client)
             branch  == SelectBranch(s, r)
  <2>1. MatchesScenario(s, r).res =
          CASE ruled /\ body = "error" -> "error"
            [] passed /\ (s.branches = <<>> \/ branch > 0) -> "yes"
            [] OTHER -> "no"
    BY DEF MatchesScenario
  <2>2. passed /\ body = "yes"  BY <1>6, <1>7, <1>8, <1>9
  <2> HIDE DEF ruled, body, passed, branch
  <2> QED  BY <1>2, <2>1, <2>2
<1> QED  BY <1>1, <1>10

\* A scenario that leaves the cache on decides by what is in the key.
LEMMA KeyDecides ==
    ASSUME NEW s, ~DisablesMatchCache(s), NEW r, NEW t, CacheKey(r) = CacheKey(t)
    PROVE  MatchesScenario(s, r).res = MatchesScenario(s, t).res
<1>1. s.rule.headers = {} /\ s.rule.httpHeaders = {} /\ s.rule.client = {} /\ s.rule.cidr = {}
      /\ s.rule.body = {} /\ s.branches = <<>>
  BY DEF DisablesMatchCache
<1>2. r.method = t.method /\ r.path = t.path /\ r.request.method = t.request.method
      /\ r.request.uri = t.request.uri
  BY DEF CacheKey
<1>3. EndpointsFor(s, r) = EndpointsFor(s, t) /\ (MethodMatches(s, r) <=> MethodMatches(s, t))
  BY <1>2 DEF EndpointsFor, MethodMatches
<1>4. RulesMatch(s.rule, r) <=> RulesMatch(s.rule, t)  BY <1>1, <1>2 DEF RulesMatch, Accepts
<1>5. \A q : BodyPatternVerdict(s.rule, q) = "yes"  BY <1>1 DEF BodyPatternVerdict
<1>6. \A v : Accepts(s.rule.client, v) /\ Accepts(s.rule.cidr, v)  BY <1>1 DEF Accepts
<1> DEFINE eps(q)     == EndpointsFor(s, q)
           hits(q)    == {i \in DOMAIN eps(q) : EndpointMatches(eps(q)[i], q.path)}
           located(q) == MethodMatches(s, q) /\ (eps(q) = <<>> \/ hits(q) # {})
           ruled(q)   == located(q) /\ RulesMatch(s.rule, q)
           body(q)    == BodyPatternVerdict(s.rule, q)
           passed(q)  == /\ ruled(q) /\ body(q) = "yes"
                         /\ Accepts(s.rule.client, q.client) /\ Accepts(s.rule.cidr, q.client)
           branch(q)  == SelectBranch(s, q)
<1>7. ASSUME NEW q
      PROVE  MatchesScenario(s, q).res =
               CASE ruled(q) /\ body(q) = "error" -> "error"
                 [] passed(q) /\ (s.branches = <<>> \/ branch(q) > 0) -> "yes"
                 [] OTHER -> "no"
  BY DEF MatchesScenario
<1>8. hits(r) = hits(t)  BY <1>2, <1>3
<1>9. located(r) <=> located(t)
  <2> HIDE DEF hits
  <2> QED  BY <1>3, <1>8
<1> HIDE DEF located
<1>10. ruled(r) <=> ruled(t)  BY <1>4, <1>9
<1>11. \A q : body(q) = "yes" /\ (passed(q) <=> ruled(q))  BY <1>5, <1>6
<1> HIDE DEF ruled, body, passed, branch
<1>12. \A q : MatchesScenario(s, q).res = IF ruled(q) THEN "yes" ELSE "no"
  <2> TAKE q
  <2>1. body(q) = "yes" /\ (passed(q) <=> ruled(q))  BY <1>11
  <2> QED  BY <1>1, <1>7, <2>1
<1> QED  BY <1>10, <1>12

-----------------------------------------------------------------------------
(* The first match *)

\* A scenario that validation let through is not the one that stands for none.
LEMMA SomeBody ==
    ASSUME NEW s, Proper(s)
    PROVE  s # Nobody
<1>1. Nobody.name = None  BY DEF Nobody, DefaultScenario
<1> QED  BY <1>1 DEF Proper

\* Of two scenarios only one outranks the other.
LEMMA RankIsStrict ==
    ASSUME NEW s \in Scenario, NEW t \in Scenario
    PROVE  ~(ScenarioOutranks(s, t) /\ ScenarioOutranks(t, s))
<1>1. s.priority \in Int /\ t.priority \in Int /\ s.order \in Nat /\ t.order \in Nat  BY Scenarios
<1> QED  BY <1>1 DEF ScenarioOutranks

\* Of two scenarios with different orders one outranks the other.
LEMMA RankIsTotal ==
    ASSUME NEW s \in Scenario, NEW t \in Scenario, s.order # t.order
    PROVE  ScenarioOutranks(s, t) \/ ScenarioOutranks(t, s)
<1>1. s.priority \in Int /\ t.priority \in Int /\ s.order \in Nat /\ t.order \in Nat  BY Scenarios
<1> QED  BY <1>1 DEF ScenarioOutranks

\* Outranking is transitive.
LEMMA RankIsTransitive ==
    ASSUME NEW s \in Scenario, NEW t \in Scenario, NEW u \in Scenario,
           ScenarioOutranks(s, t), ScenarioOutranks(t, u)
    PROVE  ScenarioOutranks(s, u)
<1>1. s.priority \in Int /\ t.priority \in Int /\ u.priority \in Int
      /\ s.order \in Nat /\ t.order \in Nat /\ u.order \in Nat
  BY Scenarios
<1> QED  BY <1>1 DEF ScenarioOutranks

\* The winner is what the plain registry answers.
LEMMA WinnerIsFirst ==
    ASSUME NEW S \in SUBSET Scenario, NEW r, NEW b, Winner(b, S, r)
    PROVE  /\ FirstMatch(S, r) = b
           /\ PlainAnswer(S, r) = IF b = Nobody THEN DefaultScenario ELSE b
<1> DEFINE hits == {s \in S : MatchesScenario(s, r).res # "no"}
           top(s) == \A t \in hits \ {s} : ScenarioOutranks(s, t)
<1>1. FirstMatch(S, r) = IF hits = {} THEN Nobody ELSE CHOOSE s \in hits : top(s)  BY DEF FirstMatch
<1>2. CASE b = Nobody
  <2>1. hits = {}  BY <1>2 DEF Winner
  <2> QED  BY <1>1, <1>2, <2>1 DEF PlainAnswer
<1>3. CASE b # Nobody
  <2>1. b \in hits  BY <1>3 DEF Winner
  <2>2. \A s \in hits : MatchesScenario(s, r).res = "yes"
    <3> TAKE s \in hits
    <3>1. s \in S /\ MatchesScenario(s, r).res # "no"  OBVIOUS
    <3>2. MatchesScenario(s, r).res # "error"  BY <3>1 DEF Winner
    <3> QED  BY <3>1, <3>2, Verdicts
  <2>3. top(b)
    <3>1. \A t \in hits \ {b} : t \in S \ {b}  OBVIOUS
    <3> QED  BY <1>3, <2>2, <3>1 DEF Winner
  <2>4. \A s \in hits : top(s) => s = b
    <3> SUFFICES ASSUME NEW s \in hits, top(s), s # b  PROVE FALSE  OBVIOUS
    <3>1. ScenarioOutranks(s, b) /\ ScenarioOutranks(b, s)  BY <2>1, <2>3
    <3>2. s \in Scenario /\ b \in Scenario  BY <2>1
    <3> QED  BY <3>1, <3>2, RankIsStrict
  <2> HIDE DEF hits, top
  <2>5. (CHOOSE s \in hits : top(s)) = b  BY <2>1, <2>3, <2>4
  <2>6. FirstMatch(S, r) = b  BY <1>1, <2>1, <2>5
  <2> QED  BY <1>3, <2>6 DEF PlainAnswer
<1> QED  BY <1>2, <1>3

\* Whatever an evaluation leaves on the way, it keeps the better of the best and the next.
LEMMA WinnerNext ==
    ASSUME NEW S \in SUBSET Scenario, NEW r, NEW b, Winner(b, S, r), NEW x \in Scenario, x # Nobody,
           Nobody \notin S,
           UniqueOrders(S \cup {x}), MatchesScenario(x, r).res # "error"
    PROVE  Winner(IF /\ MatchesScenario(x, r).res = "yes"
                     /\ b = Nobody \/ ScenarioOutranks(x, b) THEN x ELSE b, S \cup {x}, r)
<1>1. \A s \in S \cup {x} : MatchesScenario(s, r).res # "error"  BY DEF Winner
<1>2. CASE MatchesScenario(x, r).res # "yes"
  <2>1. MatchesScenario(x, r).res = "no"  BY <1>2, Verdicts
  <2> QED  BY <1>1, <1>2, <2>1 DEF Winner
<1>3. CASE MatchesScenario(x, r).res = "yes" /\ b = Nobody
  <2>1. \A s \in S : MatchesScenario(s, r).res = "no"  BY <1>3 DEF Winner
  <2> QED  BY <1>1, <1>3, <2>1 DEF Winner
<1>4. CASE MatchesScenario(x, r).res = "yes" /\ b # Nobody /\ ScenarioOutranks(x, b)
  <2>1. b \in S /\ \A s \in S \ {b} : MatchesScenario(s, r).res = "yes" => ScenarioOutranks(b, s)
    BY <1>4 DEF Winner
  <2>2. \A s \in S : MatchesScenario(s, r).res = "yes" => ScenarioOutranks(x, s)
    <3> SUFFICES ASSUME NEW s \in S, MatchesScenario(s, r).res = "yes"  PROVE ScenarioOutranks(x, s)
      OBVIOUS
    <3>1. CASE s = b  BY <1>4, <3>1
    <3>2. CASE s # b
      <4>1. ScenarioOutranks(b, s) /\ b \in Scenario /\ s \in Scenario  BY <2>1, <3>2
      <4> QED  BY <1>4, <4>1, RankIsTransitive
    <3> QED  BY <3>1, <3>2
  <2> QED  BY <1>1, <1>4, <2>2 DEF Winner
<1>5. CASE MatchesScenario(x, r).res = "yes" /\ b # Nobody /\ ~ScenarioOutranks(x, b)
  <2>1. b \in S /\ MatchesScenario(b, r).res = "yes"
        /\ \A s \in S \ {b} : MatchesScenario(s, r).res = "yes" => ScenarioOutranks(b, s)
    BY <1>5 DEF Winner
  <2>2. x # b => ScenarioOutranks(b, x)
    <3> SUFFICES ASSUME x # b  PROVE ScenarioOutranks(b, x)  OBVIOUS
    <3>1. b \in Scenario /\ x.order # b.order  BY <2>1 DEF UniqueOrders
    <3> QED  BY <1>5, <3>1, RankIsTotal
  <2> QED  BY <1>1, <1>5, <2>1, <2>2 DEF Winner
<1> QED  BY <1>2, <1>3, <1>4, <1>5

-----------------------------------------------------------------------------
(* Evaluating candidates *)

\* The best so far, from one candidate to the next.
Chain(g, q, V, b, req) ==
    /\ g \in [0..Len(q) -> V] /\ g[0] = b
    /\ \A i \in 1..Len(q) :
          g[i] = IF /\ MatchesScenario(q[i], req).res = "yes"
                    /\ g[i - 1] = Nobody \/ ScenarioOutranks(q[i], g[i - 1]) THEN q[i] ELSE g[i - 1]

ChainEnds(q, V, b, req, e) == \E g : Chain(g, q, V, b, req) /\ e = g[Len(q)]

\* Evaluation ends with the last of the chain, unless a candidate fails.
LEMMA Chained ==
    ASSUME NEW S, NEW q \in Seq(S), NEW c, c.best \in S \cup {Nobody}, NEW req
    PROVE  /\ Evaluate(q, c, req).err = \E i \in DOMAIN q : MatchesScenario(q[i], req).res = "error"
           /\ Evaluate(q, c, req).err = FALSE =>
                ChainEnds(q, S \cup {Nobody}, c.best, req, Evaluate(q, c, req).best)
<1> DEFINE n == Len(q)
           verdict == [i \in DOMAIN q |-> MatchesScenario(q[i], req)]
           failed  == {i \in DOMAIN q : verdict[i].res = "error"}
           V == S \cup {Nobody}
           better(i, b) == verdict[i].res = "yes" /\ (b = Nobody \/ ScenarioOutranks(q[i], b))
           Value(g, i) == IF i = 0 THEN c.best ELSE IF better(i, g[i - 1]) THEN q[i] ELSE g[i - 1]
           best == CHOOSE g : g = [i \in 0..n |-> Value(g, i)]
           F == [i \in 1..n |-> [v \in V |-> IF better(i, v) THEN q[i] ELSE v]]
           r == Evaluate(q, c, req)
<1>1. r.err = (failed # {}) /\ r.best = IF failed # {} THEN Nobody ELSE best[n]
  BY DEF Evaluate
<1>2. n \in Nat /\ DOMAIN q = 1..n /\ \A i \in 1..n : q[i] \in S  OBVIOUS
<1>3. failed # {} <=> \E i \in DOMAIN q : MatchesScenario(q[i], req).res = "error"  OBVIOUS
<1>4. \A i \in 1..n : verdict[i] = MatchesScenario(q[i], req)  BY <1>2
<1> HIDE DEF r, verdict, failed
<1> HIDE DEF better
<1>6. F \in [1..n -> [V -> V]]
  <2>1. ASSUME NEW i \in 1..n, NEW v \in V  PROVE (IF better(i, v) THEN q[i] ELSE v) \in V
    BY <1>2
  <2> HIDE DEF V
  <2> QED  BY <2>1
<1>7. PICK g \in [0..n -> V] : g[0] = c.best /\ \A i \in 1..n : g[i] = F[i][g[i - 1]]
  <2>1. PICK e \in V : e = c.best  OBVIOUS
  <2> HIDE DEF F, n, V
  <2>2. F \in Steps(n, V)  BY <1>2, <1>6 DEF Steps
  <2>3. \E g : Follows(g, n, V, e, F)  BY <1>2, <2>1, <2>2, Recursion
  <2> QED  BY <2>1, <2>3 DEF Follows
<1> HIDE DEF V
<1>8. g = [i \in 0..n |-> Value(g, i)]
  <2>1. ASSUME NEW i \in 0..n  PROVE g[i] = Value(g, i)
    <3>1. CASE i = 0  BY <1>7, <3>1
    <3>2. CASE i # 0
      <4>1. i \in 1..n /\ i - 1 \in 0..n  BY <1>2, <3>2
      <4>2. g[i - 1] \in V  BY <4>1
      <4>3. F[i][g[i - 1]] = Value(g, i)  BY <3>2, <4>1, <4>2
      <4> QED  BY <1>7, <4>1, <4>3
    <3> QED  BY <3>1, <3>2
  <2> HIDE DEF Value
  <2> QED  BY <1>7, <2>1
<1>9. best = [i \in 0..n |-> Value(best, i)]
  <2> HIDE DEF Value
  <2> QED  BY <1>8
<1> HIDE DEF best, F
<1>10. \A i \in 0..n : best[i] = Value(best, i)
  <2> HIDE DEF Value
  <2> QED  BY <1>9
<1> DEFINE G == {k \in 0..n : best[k] \in V}
<1>11. 0 \in G
  <2>1. 0 \in 0..n /\ best[0] = c.best  BY <1>2, <1>10
  <2> QED  BY <2>1 DEF V
<1>12. ASSUME NEW k \in Nat, k < n  PROVE best[k + 1] = IF better(k + 1, best[k]) THEN q[k + 1] ELSE best[k]
  <2>1. k + 1 \in 0..n /\ (k + 1) - 1 = k /\ k + 1 # 0  BY <1>2, <1>12
  <2> QED  BY <1>10, <2>1
<1>13. ASSUME NEW k \in Nat, k < n, k \in G  PROVE k + 1 \in G
  <2>1. k + 1 \in 0..n /\ q[k + 1] \in V  BY <1>2, <1>13 DEF V
  <2> QED  BY <1>12, <1>13, <2>1
<1>14. \A k \in 0..n : best[k] \in V
  <2> TAKE k \in 0..n
  <2>1. k \in Nat /\ \A j \in Nat : j < k => j < n  BY <1>2
  <2> HIDE DEF G
  <2>2. \A j \in Nat : j < k /\ j \in G => j + 1 \in G  BY <1>13, <2>1
  <2>3. k \in G  BY <1>11, <2>1, <2>2, UpTo
  <2> QED  BY <2>3 DEF G
<1>15. Chain(best, q, V, c.best, req)
  <2>1. best \in [0..n -> V] /\ best[0] = c.best
    <3>1. best = [i \in 0..n |-> best[i]]
      <4> HIDE DEF Value
      <4> QED  BY <1>9
    <3>2. best[0] = c.best  BY <1>2, <1>10
    <3> QED  BY <1>14, <3>1, <3>2
  <2>2. ASSUME NEW i \in 1..n
        PROVE  best[i] = IF /\ MatchesScenario(q[i], req).res = "yes"
                            /\ best[i - 1] = Nobody \/ ScenarioOutranks(q[i], best[i - 1])
                         THEN q[i] ELSE best[i - 1]
    <3>1. PICK k \in Nat : k = i - 1 /\ i = k + 1 /\ k < n  BY <1>2
    <3>2. best[i] = IF better(i, best[k]) THEN q[i] ELSE best[k]  BY <1>12, <3>1
    <3> QED  BY <1>4, <3>1, <3>2 DEF better
  <2> QED  BY <2>1, <2>2 DEF Chain
<1>16. r.err = FALSE => r.best = best[n]  BY <1>1
<1> HIDE DEF G
<1>17. r.err = FALSE => ChainEnds(q, V, c.best, req, r.best)  BY <1>15, <1>16 DEF ChainEnds
<1> QED  BY <1>1, <1>3, <1>17 DEF r, V

\* The first k elements of a list.
Upto(q, k) == {q[j] : j \in 1..k}

\* If no candidate fails the evaluation ends with the winner.
LEMMA EvaluatedWinner ==
    ASSUME NEW S \in SUBSET Scenario, NEW T \in SUBSET Scenario, NEW q \in Seq(T), NEW c, NEW req,
           Winner(c.best, S, req), UniqueOrders(S \cup T), Nobody \notin S \cup T,
           Evaluate(q, c, req).err = FALSE
    PROVE  Winner(Evaluate(q, c, req).best, S \cup ToSet(q), req)
<1> DEFINE n == Len(q)
           U == S \cup T
<1>1. n \in Nat /\ DOMAIN q = 1..n /\ \A i \in 1..n : q[i] \in T  OBVIOUS
<1>2. c.best \in U \cup {Nobody} /\ q \in Seq(U)
  <2>1. c.best \in U \cup {Nobody}  BY DEF Winner
  <2>2. q \in Seq(U)  OBVIOUS
  <2> QED  BY <2>1, <2>2
<1> HIDE DEF U
<1>3. /\ \A i \in DOMAIN q : MatchesScenario(q[i], req).res # "error"
      /\ ChainEnds(q, U \cup {Nobody}, c.best, req, Evaluate(q, c, req).best)
  <2>1. Evaluate(q, c, req).err = \E i \in DOMAIN q : MatchesScenario(q[i], req).res = "error"
    BY <1>2, Chained
  <2>2. Evaluate(q, c, req).err = FALSE =>
          ChainEnds(q, U \cup {Nobody}, c.best, req, Evaluate(q, c, req).best)
    BY <1>2, Chained
  <2> QED  BY <2>1, <2>2
<1>4. PICK g : Chain(g, q, U \cup {Nobody}, c.best, req) /\ Evaluate(q, c, req).best = g[Len(q)]
  BY <1>3 DEF ChainEnds
<1>5. Upto(q, 0) = {} /\ Upto(q, n) = ToSet(q)  BY <1>1 DEF Upto, ToSet
<1>6. \A k \in Nat : k < n => Upto(q, k + 1) = Upto(q, k) \cup {q[k + 1]}
  <2> TAKE k \in Nat
  <2>1. \A j \in 1..k + 1 : j \in 1..k \/ j = k + 1  OBVIOUS
  <2>2. \A j \in 1..k : j \in 1..k + 1  OBVIOUS
  <2>3. k + 1 \in 1..k + 1  OBVIOUS
  <2> QED  BY <2>1, <2>2, <2>3 DEF Upto
<1>7. \A k \in Nat : k <= n => Upto(q, k) \subseteq T  BY <1>1 DEF Upto
<1>8. 0 \in {k \in 0..n : Winner(g[k], S \cup Upto(q, k), req)}
  <2>1. g[0] = c.best  BY <1>4 DEF Chain
  <2>2. S \cup Upto(q, 0) = S  BY <1>5
  <2>3. Winner(g[0], S \cup Upto(q, 0), req)  BY <2>1, <2>2
  <2> QED  BY <1>1, <2>3
<1>9. ASSUME NEW k \in Nat, k < n, Winner(g[k], S \cup Upto(q, k), req)
      PROVE  Winner(g[k + 1], S \cup Upto(q, k + 1), req)
  <2>1. k + 1 \in 1..n /\ (k + 1) - 1 = k  BY <1>1, <1>9
  <2>2. PICK x : x = q[k + 1]  OBVIOUS
  <2>3. g[k + 1] = IF /\ MatchesScenario(x, req).res = "yes"
                      /\ g[k] = Nobody \/ ScenarioOutranks(x, g[k]) THEN x ELSE g[k]
    BY <1>4, <2>1, <2>2 DEF Chain
  <2>4. PICK W : W = S \cup Upto(q, k)  OBVIOUS
  <2>5. x \in T /\ x \in Scenario /\ x # Nobody /\ MatchesScenario(x, req).res # "error"
    <3>1. x \in T  BY <1>1, <2>1, <2>2
    <3>2. MatchesScenario(x, req).res # "error"  BY <1>1, <1>3, <2>1, <2>2
    <3> QED  BY <3>1, <3>2
  <2>6. W \in SUBSET Scenario /\ Nobody \notin W /\ UniqueOrders(W \cup {x})
    <3>1. Upto(q, k) \subseteq T  BY <1>7, <1>9
    <3>2. W \cup {x} \subseteq S \cup T  BY <2>4, <2>5, <3>1
    <3>3. UniqueOrders(W \cup {x})  BY <3>2 DEF UniqueOrders
    <3> QED  BY <3>2, <3>3
  <2>7. Winner(g[k], W, req)  BY <1>9, <2>4
  <2>8. Winner(IF /\ MatchesScenario(x, req).res = "yes"
                  /\ g[k] = Nobody \/ ScenarioOutranks(x, g[k]) THEN x ELSE g[k], W \cup {x}, req)
    BY <2>5, <2>6, <2>7, WinnerNext
  <2>9. S \cup Upto(q, k + 1) = W \cup {x}  BY <1>6, <1>9, <2>2, <2>4
  <2> QED  BY <2>3, <2>8, <2>9
<1> DEFINE H == {k \in 0..n : Winner(g[k], S \cup Upto(q, k), req)}
<1>10. ASSUME NEW k \in Nat, k < n, k \in H  PROVE k + 1 \in H
  <2>1. k + 1 \in 0..n  BY <1>1, <1>10
  <2>2. Winner(g[k + 1], S \cup Upto(q, k + 1), req)  BY <1>9, <1>10
  <2> QED  BY <2>1, <2>2
<1>11. n \in H
  <2>1. 0 \in H  BY <1>8
  <2> HIDE DEF H
  <2> QED  BY <1>1, <1>10, <2>1, UpTo
<1>12. Winner(g[n], S \cup Upto(q, n), req)  BY <1>11
<1> QED  BY <1>4, <1>5, <1>12

-----------------------------------------------------------------------------
(* The index *)

\* A literal endpoint matches its own path only.
LEMMA LiteralMatches ==
    ASSUME NEW ep, ~IsPattern(ep), ep.segs \in DOMAIN ShardOf, NEW r \in Requests, EndpointMatches(ep, r.path)
    PROVE  ep.segs = r.path
<1>1. r.path \in DOMAIN ShardOf  BY RegistryAssumption
<1>2. ep.segs \in Seq(ToSet(ep.segs)) /\ r.path \in Seq(ToSet(r.path))  BY <1>1, RegistryAssumption
<1>3. PICK a, b : a = ep.segs /\ b = r.path  OBVIOUS
<1>4. ep.lang = {} /\ \A i \in DOMAIN a : a[i] \notin CaptureNames  BY <1>3 DEF IsPattern
<1>5. Len(a) = Len(b) /\ \A i \in DOMAIN b : a[i] \in CaptureNames \cup {b[i]}
  BY <1>3, <1>4 DEF EndpointMatches
<1>6. DOMAIN a = 1..Len(a) /\ DOMAIN b = 1..Len(b)  BY <1>2, <1>3
<1>7. \A i \in DOMAIN a : a[i] = b[i]  BY <1>4, <1>5, <1>6
<1> QED  BY <1>2, <1>3, <1>5, <1>6, <1>7

\* The first of two lists after each other.
LEMMA Concatenated ==
    ASSUME NEW S, NEW a \in Seq(S), NEW b \in Seq(S)
    PROVE  /\ Len(a \o b) = Len(a) + Len(b) /\ Len(b) \in Nat /\ DOMAIN (a \o b) = 1..Len(a \o b)
           /\ \A i \in 1..Len(a) : (a \o b)[i] = a[i]
OBVIOUS

\* The first and the third of the keys that are looked up.
LEMMA LookedUp ==
    ASSUME NEW r \in Requests
    PROVE  /\ \E n \in Nat : n >= 4 /\ DOMAIN SearchKeys(r) = 1..n /\ Len(SearchKeys(r)) = n
           /\ SearchKeys(r)[1] = <<r.method, r.path>> /\ SearchKeys(r)[3] = <<"*", r.path>>
<1>1. r.path \in Seq(ToSet(r.path))  BY RegistryAssumption
<1> DEFINE a == <<<<r.method, r.path>>, <<r.method, AnyPath>>, <<"*", r.path>>, <<"*", AnyPath>>>>
           m == Len(r.path)
           b == [i \in 1..m - 1 |-> <<r.method, SubSeq(r.path, 1, m - i)>>]
           U == {a[1], a[2], a[3], a[4]} \cup {b[i] : i \in 1..m - 1}
<1>2. m \in Nat  BY <1>1
<1>3. SearchKeys(r) = a \o b  BY DEF SearchKeys
<1>4. a \in Seq(U) /\ Len(a) = 4 /\ a[1] = <<r.method, r.path>> /\ a[3] = <<"*", r.path>>
  <2>1. a[1] \in U /\ a[2] \in U /\ a[3] \in U /\ a[4] \in U  OBVIOUS
  <2>2. a[1] = <<r.method, r.path>> /\ a[3] = <<"*", r.path>>  OBVIOUS
  <2> HIDE DEF U
  <2>3. a \in Seq(U) /\ Len(a) = 4  BY <2>1
  <2> QED  BY <2>2, <2>3
<1>5. b \in Seq(U)
  <2>1. DOMAIN b = 1..m - 1 /\ b = [i \in 1..m - 1 |-> b[i]]  OBVIOUS
  <2>2. \A i \in 1..m - 1 : b[i] \in U
    <3> HIDE DEF b, a
    <3> QED  OBVIOUS
  <2> DEFINE n == IF m = 0 THEN 0 ELSE m - 1
  <2>3. 1..m - 1 = 1..n /\ n \in Nat  BY <1>2
  <2> HIDE DEF U, b, m, n
  <2>4. b \in [1..n -> U]  BY <2>1, <2>2, <2>3
  <2> QED  BY <2>3, <2>4
<1> HIDE DEF a, b, U
<1>6. /\ Len(a \o b) = Len(a) + Len(b) /\ Len(b) \in Nat /\ DOMAIN (a \o b) = 1..Len(a \o b)
      /\ (a \o b)[1] = a[1] /\ (a \o b)[3] = a[3]
  <2>1. a \in Seq(U) /\ b \in Seq(U) /\ Len(a) = 4  BY <1>4, <1>5
  <2>2. /\ Len(a \o b) = Len(a) + Len(b) /\ Len(b) \in Nat /\ DOMAIN (a \o b) = 1..Len(a \o b)
        /\ \A i \in 1..Len(a) : (a \o b)[i] = a[i]
    BY <2>1, Concatenated
  <2>3. 1 \in 1..Len(a) /\ 3 \in 1..Len(a)  BY <2>1
  <2> QED  BY <2>2, <2>3
<1> QED  BY <1>3, <1>4, <1>6

\* The index of the shard that the path of a request is hashed to leads to every scenario that
\* does not say no, unless it is in the global list.
LEMMA IndexLeads ==
    ASSUME Regular, NEW r \in Requests, NEW s \in Scenario, Proper(s), ~IsGlobal(s),
           MatchesScenario(s, r).res # "no"
    PROVE  /\ ShardOf[r.path] \in 1..Shards
           /\ \E j \in {1, 3} : SearchKeys(r)[j] \in IndexKeys(s, ShardOf[r.path])
<1>1. r.path \in DOMAIN ShardOf /\ ShardOf[r.path] \in 1..Shards /\ r.path \in Seq(ToSet(r.path))
  BY RegistryAssumption
<1>2. PICK d \in Declared, n \in Nat : s = [d EXCEPT !.order = n]  BY DEF Scenario
<1>3. s.routes = d.routes /\ s.paths = d.paths  BY <1>2, Ordered
<1>4. IsScenario(d) /\ Hashed(d)  BY DeclaredOnes
<1>5. /\ MethodMatches(s, r)
      /\ \/ EndpointsFor(s, r) = <<>>
         \/ \E i \in DOMAIN EndpointsFor(s, r) : EndpointMatches(EndpointsFor(s, r)[i], r.path)
  BY Located
<1>6. \A m \in DOMAIN s.routes : ToSet(s.routes[m]) \subseteq ToSet(s.paths)  BY <1>2, <1>3 DEF Regular
<1>7. SearchKeys(r)[1] = <<r.method, r.path>> /\ SearchKeys(r)[3] = <<"*", r.path>>  BY LookedUp
<1>8. PICK sh : sh = ShardOf[r.path]  OBVIOUS
<1>9. CASE ExactRoutes(s)
  <2>1. HasRoutes(s) /\ \A m \in DOMAIN s.routes : \A ep \in ToSet(s.routes[m]) : ~IsPattern(ep)
    BY <1>9 DEF ExactRoutes
  <2>2. PICK m : m = r.method  OBVIOUS
  <2>3. m \in DOMAIN s.routes /\ EndpointsFor(s, r) = s.routes[m]
    BY <1>5, <2>1, <2>2 DEF MethodMatches, EndpointsFor
  <2>4. s.routes[m] # <<>>  BY <2>3 DEF Proper
  <2>5. PICK i \in DOMAIN s.routes[m] : EndpointMatches(s.routes[m][i], r.path)  BY <1>5, <2>3, <2>4
  <2>6. PICK ep : ep = s.routes[m][i]  OBVIOUS
  <2>7. ep \in ToSet(s.routes[m])  BY <2>5, <2>6 DEF ToSet
  <2>8. ~IsPattern(ep)  BY <2>1, <2>3, <2>7
  <2>9. ep \in UNION {ToSet(d.routes[k]) : k \in DOMAIN d.routes}  BY <1>3, <2>3, <2>7
  <2>10. ep.segs \in DOMAIN ShardOf  BY <1>4, <2>8, <2>9 DEF Hashed
  <2>11. ep.segs = r.path  BY <2>5, <2>6, <2>8, <2>10, LiteralMatches
  <2> DEFINE keys(k) == {<<k, e.segs>> : e \in {e \in ToSet(s.routes[k]) : ShardOf[e.segs] = sh}}
  <2>12. <<m, ep.segs>> \in keys(m)  BY <1>8, <2>7, <2>11
  <2>13. IndexKeys(s, sh) = UNION {keys(k) : k \in DOMAIN s.routes}  BY <1>9 DEF IndexKeys
  <2> HIDE DEF keys
  <2>14. <<m, ep.segs>> \in IndexKeys(s, sh)  BY <2>3, <2>12, <2>13
  <2>15. SearchKeys(r)[1] \in IndexKeys(s, sh)  BY <1>7, <2>2, <2>11, <2>14
  <2> QED  BY <1>1, <1>8, <2>15
<1>10. CASE ~ExactRoutes(s)
  <2>1. ShardSafe(s)  BY <1>10 DEF IsGlobal
  <2>2. s.paths \in Seq(ToSet(s.paths)) /\ Len(s.paths) = 1 /\ ~IsPattern(s.paths[1])
    BY <1>3, <1>4, <2>1 DEF ShardSafe, IsScenario
  <2>3. DOMAIN s.paths = {1} /\ ToSet(s.paths) = {s.paths[1]} /\ s.paths # <<>>
    <3>1. DOMAIN s.paths = 1..1  BY <2>2
    <3>2. \A i \in 1..1 : i = 1  OBVIOUS
    <3> QED  BY <2>2, <3>1, <3>2 DEF ToSet
  <2>4. ~HasRoutes(s)
    <3> SUFFICES ASSUME HasRoutes(s)  PROVE FALSE  OBVIOUS
    <3>1. PICK m \in DOMAIN s.routes : \E ep \in ToSet(s.routes[m]) : IsPattern(ep)
      BY <1>10 DEF ExactRoutes
    <3>2. PICK ep \in ToSet(s.routes[m]) : IsPattern(ep)  BY <3>1
    <3>3. ep \in ToSet(s.paths)  BY <1>6, <3>1, <3>2
    <3> QED  BY <2>2, <2>3, <3>2, <3>3
  <2>5. EndpointsFor(s, r) = s.paths /\ (s.methods = {} \/ r.method \in s.methods)
    BY <1>5, <2>4 DEF MethodMatches, EndpointsFor
  <2>6. PICK ep : ep = s.paths[1]  OBVIOUS
  <2>7. EndpointMatches(ep, r.path)  BY <1>5, <2>3, <2>5, <2>6
  <2>8. ep.segs \in DOMAIN ShardOf
    <3>1. ep \in ToSet(d.paths) \cup UNION {ToSet(d.routes[k]) : k \in DOMAIN d.routes}
      BY <1>3, <2>3, <2>6
    <3> QED  BY <1>4, <2>2, <2>6, <3>1 DEF Hashed
  <2>9. ep.segs = r.path  BY <2>2, <2>6, <2>7, <2>8, LiteralMatches
  <2>10. ExtractPathPrefix(r.path) = r.path
    <3>1. {i \in DOMAIN r.path : r.path[i] \in DOMAIN CutSegment} = {}  BY DEF Regular
    <3> QED  BY <3>1 DEF ExtractPathPrefix
  <2> DEFINE ms == IF s.methods = {} THEN {"*"} ELSE s.methods
  <2>11. IndexKeys(s, sh) = {<<m, ExtractPathPrefix(s.paths[1].segs)>> : m \in ms}
    BY <1>8, <1>10, <2>1, <2>6, <2>9 DEF IndexKeys
  <2>12. IndexKeys(s, sh) = {<<m, r.path>> : m \in ms}  BY <2>6, <2>9, <2>10, <2>11
  <2>13. CASE s.methods = {}
    <3>1. <<"*", r.path>> \in IndexKeys(s, sh)  BY <2>12, <2>13
    <3>2. SearchKeys(r)[3] \in IndexKeys(s, sh)  BY <1>7, <3>1
    <3> QED  BY <1>1, <1>8, <3>2
  <2>14. CASE s.methods # {}
    <3>1. <<r.method, r.path>> \in IndexKeys(s, sh)  BY <2>5, <2>12, <2>14
    <3>2. SearchKeys(r)[1] \in IndexKeys(s, sh)  BY <1>7, <3>1
    <3> QED  BY <1>1, <1>8, <3>2
  <2> QED  BY <2>13, <2>14
<1> QED  BY <1>9, <1>10

\* A scenario of the shard that one of the keys leads to is a candidate.
LEMMA AllCandidates ==
    ASSUME Typed, NEW sh \in 1..Shards, NEW r \in Requests, NEW s \in ToSet(shards[sh]),
           \E j \in {1, 3} : SearchKeys(r)[j] \in IndexKeys(s, sh)
    PROVE  s \in ToSet(IndexCandidates(sh, r))
<1> DEFINE keys == SearchKeys(r)
           T == ToSet(shards[sh])
           at(x) == {j \in DOMAIN keys : keys[j] \in IndexKeys(x, sh)}
           first(x) == Min(at(x) \cup {Len(keys) + 1})
           lists == [k \in DOMAIN keys |-> Keep(shards[sh], {x \in T : k = first(x)})]
<1>1. shards[sh] \in Seq(T)
  <2>1. shards[sh] \in Seq(Scenario)  BY DEF Typed
  <2> QED  BY <2>1 DEF ToSet
<1>2. PICK n \in Nat : n >= 4 /\ DOMAIN keys = 1..n /\ Len(keys) = n  BY LookedUp
<1>3. IndexCandidates(sh, r) = FlattenSeq(lists)  BY DEF IndexCandidates
<1> HIDE DEF keys
<1>4. at(s) # {} /\ at(s) \subseteq 1..n
  <2>1. PICK j \in {1, 3} : keys[j] \in IndexKeys(s, sh)  BY DEF keys
  <2>2. j \in 1..n  BY <1>2
  <2>3. j \in at(s)  BY <1>2, <2>1, <2>2
  <2> QED  BY <1>2, <2>3
<1>5. first(s) \in 1..n
  <2>1. PICK A : A = at(s) \cup {Len(keys) + 1}  OBVIOUS
  <2>2. PICK j : j \in at(s)  BY <1>4
  <2>3. A \in SUBSET Nat /\ A # {} /\ j \in A /\ j \in 1..n  BY <1>2, <1>4, <2>1, <2>2
  <2> HIDE DEF at
  <2>4. Min(A) \in A /\ Min(A) <= j  BY <2>3, Least
  <2>5. Min(A) \in 1..n \/ Min(A) = n + 1  BY <1>2, <1>4, <2>1, <2>4
  <2>6. Min(A) \in 1..n  BY <2>3, <2>4, <2>5
  <2> QED  BY <2>1, <2>6
<1> HIDE DEF first
<1>6. PICK k \in 1..n : k = first(s)  BY <1>5
<1>7. \A i \in 1..n : /\ lists[i] = Keep(shards[sh], {x \in T : i = first(x)})
                      /\ lists[i] \in Seq(T) /\ ToSet(lists[i]) = T \cap {x \in T : i = first(x)}
  <2> TAKE i \in 1..n
  <2>1. lists[i] = Keep(shards[sh], {x \in T : i = first(x)})  BY <1>2
  <2>2. PICK X : X = {x \in T : i = first(x)}  OBVIOUS
  <2>3. Keep(shards[sh], X) \in Seq(T) /\ ToSet(Keep(shards[sh], X)) = ToSet(shards[sh]) \cap X
    <3> HIDE DEF T
    <3> QED  BY <1>1, Kept
  <2> HIDE DEF lists
  <2> QED  BY <2>1, <2>2, <2>3
<1>8. s \in ToSet(lists[k])
  <2> HIDE DEF lists
  <2> QED  BY <1>6, <1>7
<1>9. DOMAIN lists = 1..n /\ lists = [i \in 1..n |-> lists[i]]  BY <1>2
<1> HIDE DEF lists, T
<1>10. lists \in Seq(Seq(T))
  <2>1. lists \in [1..n -> Seq(T)]  BY <1>7, <1>9
  <2> QED  BY <2>1
<1>11. \A j \in DOMAIN lists : ToSet(lists[j]) \subseteq ToSet(FlattenSeq(lists))  BY <1>10, Flattened
<1> QED  BY <1>3, <1>6, <1>8, <1>9, <1>11

-----------------------------------------------------------------------------
(* Searching between mutations *)

Steady ==
    /\ Typed /\ Present = committed /\ UniqueNames(committed) /\ Sound(committed)
    /\ Keyed /\ Ready(committed)

\* What is in the lists, between mutations.
LEMMA SteadyLists ==
    ASSUME Steady
    PROVE  /\ committed \in SUBSET Scenario /\ UniqueOrders(committed) /\ Nobody \notin committed
           /\ \A s \in committed : Proper(s)
           /\ Sharded(shards) \in SUBSET committed /\ ToSet(global) \in SUBSET committed
           /\ committed = Sharded(shards) \cup ToSet(global)
           /\ \A i \in 1..Shards : shards[i] \in Seq(ToSet(shards[i])) /\ ToSet(shards[i]) \subseteq Sharded(shards)
           /\ global \in Seq(ToSet(global))
<1>1. committed \in SUBSET Scenario  BY DEF Steady, Typed
<1>2. UniqueOrders(committed) /\ \A s \in committed : Proper(s)  BY DEF Steady, Sound
<1>3. Nobody \notin committed  BY <1>2, SomeBody
<1>4. committed = Sharded(shards) \cup ToSet(global)  BY DEF Steady, Present, Sharded
<1>5. \A i \in 1..Shards : shards[i] \in Seq(Scenario)  BY DEF Steady, Typed
<1>6. global \in Seq(Scenario)  BY DEF Steady, Typed
<1>7. \A i \in 1..Shards : shards[i] \in Seq(ToSet(shards[i])) /\ ToSet(shards[i]) \subseteq Sharded(shards)
  <2> TAKE i \in 1..Shards
  <2>1. shards[i] \in Seq(Scenario)  BY <1>5
  <2>2. shards[i] \in Seq(ToSet(shards[i]))  BY <2>1 DEF ToSet
  <2>3. ToSet(shards[i]) \subseteq Sharded(shards)  BY DEF Sharded
  <2> QED  BY <2>2, <2>3
<1>8. global \in Seq(ToSet(global))  BY <1>6 DEF ToSet
<1> QED  BY <1>1, <1>2, <1>3, <1>4, <1>7, <1>8

\* A scenario in the shards that does not say no is a candidate of the request's own shard, or
\* the built-in default.
LEMMA Reached ==
    ASSUME Regular, Steady, NEW r \in Requests, NEW s \in Sharded(shards), s # DefaultScenario,
           MatchesScenario(s, r).res # "no"
    PROVE  s \in ToSet(IndexCandidates(ShardOf[r.path], r))
<1>1. s \in committed /\ s \in Scenario /\ Proper(s)  BY SteadyLists
<1>2. PICK i \in 1..Shards : s \in ToSet(shards[i])  BY DEF Sharded
<1>3. IndexKeys(s, i) # {}  BY <1>2 DEF Steady, Keyed
<1>4. ~IsGlobal(s)
  <2> SUFFICES ASSUME IsGlobal(s)  PROVE FALSE  OBVIOUS
  <2>1. IndexKeys(s, i) = {}  BY DEF IsGlobal, IndexKeys
  <2> QED  BY <1>3, <2>1
<1>5. PICK sh : sh = ShardOf[r.path]  OBVIOUS
<1>6. sh \in 1..Shards /\ \E j \in {1, 3} : SearchKeys(r)[j] \in IndexKeys(s, sh)
  BY <1>1, <1>4, <1>5, IndexLeads
<1>7. IndexKeys(s, sh) # {}  BY <1>6
<1>8. s \in ToSet(shards[sh])  BY <1>1, <1>6, <1>7 DEF Steady, Ready, Full
<1>9. s \in ToSet(IndexCandidates(sh, r))  BY <1>6, <1>8, AllCandidates DEF Steady
<1> QED  BY <1>5, <1>9

\* What the index finds is the winner of all shards.
LEMMA ShardDecides ==
    ASSUME Regular, Steady, NEW r \in Requests, NEW c, c.best = Nobody, NEW b,
           b = Evaluate(IndexCandidates(ShardOf[r.path], r), c, r).best, b # Nobody,
           Evaluate(IndexCandidates(ShardOf[r.path], r), c, r).err = FALSE
    PROVE  Winner(b, Sharded(shards), r)
<1>1. PICK sh : sh = ShardOf[r.path]  OBVIOUS
<1>2. PICK q : q = IndexCandidates(sh, r)  OBVIOUS
<1>3. PICK T : T = ToSet(shards[sh])  OBVIOUS
<1>4. sh \in 1..Shards /\ r.path \in Seq(ToSet(r.path))  BY <1>1, RegistryAssumption
<1>5. q \in Seq(T)  BY <1>2, <1>3, <1>4, Candidates DEF Steady
<1>6. /\ T \subseteq Sharded(shards) /\ Sharded(shards) \subseteq committed /\ committed \in SUBSET Scenario
      /\ UniqueOrders(committed) /\ Nobody \notin committed
  BY <1>3, <1>4, SteadyLists
<1>7. PICK E : E = {}  OBVIOUS
<1>8. Winner(c.best, E, r)  BY <1>7 DEF Winner
<1>9. UniqueOrders(E \cup T) /\ Nobody \notin E \cup T /\ T \in SUBSET Scenario /\ E \in SUBSET Scenario
  BY <1>6, <1>7 DEF UniqueOrders
<1>10. Evaluate(q, c, r).err = FALSE /\ b = Evaluate(q, c, r).best  BY <1>1, <1>2
<1>11. Winner(Evaluate(q, c, r).best, E \cup ToSet(q), r)  BY <1>5, <1>8, <1>9, <1>10, EvaluatedWinner
<1>12. Winner(b, ToSet(q), r)
  <2>1. E \cup ToSet(q) = ToSet(q)  BY <1>7
  <2> QED  BY <1>10, <1>11, <2>1
<1>13. ToSet(q) \subseteq Sharded(shards)
  <2>1. ToSet(q) \subseteq T  BY <1>5 DEF ToSet
  <2> QED  BY <1>6, <2>1
<1>14. \A s \in Sharded(shards) : s = DefaultScenario \/ s \in ToSet(q) \/ MatchesScenario(s, r).res = "no"
  BY <1>1, <1>2, Reached
<1>15. MatchesScenario(DefaultScenario, r).res = "yes"  BY DefaultMatches
<1>16. \A s \in Sharded(shards) : MatchesScenario(s, r).res # "error"
  BY <1>12, <1>14, <1>15 DEF Winner
<1>17. b \in ToSet(q) /\ b \in Sharded(shards) /\ MatchesScenario(b, r).res = "yes"
  BY <1>12, <1>13 DEF Winner
<1>18. ASSUME NEW s \in Sharded(shards) \ {b}, MatchesScenario(s, r).res = "yes"
       PROVE  ScenarioOutranks(b, s)
  <2>1. CASE s \in ToSet(q)  BY <1>12, <1>18, <2>1 DEF Winner
  <2>2. CASE s = DefaultScenario
    <3>1. b \in committed /\ DefaultScenario \in Sharded(shards) /\ b # DefaultScenario
      BY <1>6, <1>17, <1>18, <2>2
    <3>2. b.priority > DefaultScenario.priority  BY <3>1 DEF Steady, Ready, DefaultIsLast
    <3> QED  BY <2>2, <3>2 DEF ScenarioOutranks
  <2> QED  BY <1>14, <1>18, <2>1, <2>2
<1> QED  BY <1>16, <1>17, <1>18 DEF Winner

\* The scenarios of the next shard that the search over all shards evaluates.
FreshIn(i, seen) ==
    Keep(shards[i], {s \in ToSet(shards[i]) :
                        /\ s \notin seen
                        /\ s.name = DefaultName => \A t \in seen : t.name # DefaultName})

\* The search over all shards keeps the winner of those it has seen.
LEMMA FallbackDecides ==
    ASSUME Steady, NEW r \in Requests, NEW i \in 1..Shards, NEW c, c.seen \subseteq Sharded(shards),
           Winner(c.best, c.seen, r), Evaluate(FreshIn(i, c.seen), c, r).err = FALSE
    PROVE  Winner(Evaluate(FreshIn(i, c.seen), c, r).best, c.seen \cup ToSet(shards[i]), r)
<1>1. PICK q : q = FreshIn(i, c.seen)  OBVIOUS
<1>2. PICK T : T = ToSet(shards[i])  OBVIOUS
<1>3. PICK S : S = c.seen  OBVIOUS
<1>4. /\ T \subseteq committed /\ S \subseteq committed /\ committed \in SUBSET Scenario
      /\ UniqueOrders(committed) /\ Nobody \notin committed /\ shards[i] \in Seq(T)
  BY <1>2, <1>3, SteadyLists
<1> DEFINE X == {s \in T : s \notin S /\ (s.name = DefaultName => \A t \in S : t.name # DefaultName)}
<1>5. q = Keep(shards[i], X)  BY <1>1, <1>2, <1>3 DEF FreshIn
<1>6. q \in Seq(T) /\ ToSet(q) = T \cap X
  <2> HIDE DEF X
  <2> QED  BY <1>2, <1>4, <1>5, Kept
<1>7. S \cup ToSet(q) = S \cup T
  <2>1. \A s \in T : s \in X \/ s \in S
    <3> SUFFICES ASSUME NEW s \in T, s \notin X, s \notin S  PROVE FALSE  OBVIOUS
    <3>1. s.name = DefaultName  OBVIOUS
    <3>2. PICK t \in S : t.name = DefaultName  OBVIOUS
    <3>3. s = t  BY <1>4, <3>1, <3>2 DEF Steady, UniqueNames
    <3> QED  BY <3>2, <3>3
  <2> HIDE DEF X
  <2> QED  BY <1>6, <2>1
<1> HIDE DEF X
<1>8. UniqueOrders(S \cup T) /\ Nobody \notin S \cup T /\ T \in SUBSET Scenario /\ S \in SUBSET Scenario
  BY <1>4 DEF UniqueOrders
<1>9. Winner(c.best, S, r) /\ Evaluate(q, c, r).err = FALSE  BY <1>1, <1>3
<1>10. Winner(Evaluate(q, c, r).best, S \cup ToSet(q), r)  BY <1>6, <1>8, <1>9, EvaluatedWinner
<1> QED  BY <1>1, <1>2, <1>3, <1>7, <1>10

\* With the global list the winner of the shards gives the winner of all.
LEMMA GlobalDecides ==
    ASSUME Steady, NEW r \in Requests, NEW c, Winner(c.best, Sharded(shards), r),
           Evaluate(global, c, r).err = FALSE
    PROVE  Winner(Evaluate(global, c, r).best, committed, r)
<1>1. PICK q : q = global  OBVIOUS
<1>2. PICK T : T = ToSet(global)  OBVIOUS
<1>3. PICK S : S = Sharded(shards)  OBVIOUS
<1>4. /\ T \subseteq committed /\ S \subseteq committed /\ committed \in SUBSET Scenario
      /\ UniqueOrders(committed) /\ Nobody \notin committed /\ q \in Seq(T)
      /\ committed = S \cup T /\ ToSet(q) = T
  BY <1>1, <1>2, <1>3, SteadyLists
<1>5. UniqueOrders(S \cup T) /\ Nobody \notin S \cup T /\ T \in SUBSET Scenario /\ S \in SUBSET Scenario
  BY <1>4 DEF UniqueOrders
<1>6. Winner(c.best, S, r) /\ Evaluate(q, c, r).err = FALSE  BY <1>1, <1>3
<1>7. Winner(Evaluate(q, c, r).best, S \cup ToSet(q), r)  BY <1>4, <1>5, <1>6, EvaluatedWinner
<1> QED  BY <1>1, <1>4, <1>7

\* A winner among scenarios that leave the cache on is the winner for the whole key.
LEMMA WinnerServes ==
    ASSUME NEW S, NEW b, b # Nobody, NEW r \in Requests, Winner(b, S, r), ~AnyDisablesCache(S)
    PROVE  Serves(b, CacheKey(r), S)
<1> SUFFICES ASSUME NEW t \in Requests, CacheKey(t) = CacheKey(r)  PROVE Winner(b, S, t)
  BY DEF Serves
<1>1. \A s \in S : MatchesScenario(s, t).res = MatchesScenario(s, r).res
  <2> TAKE s \in S
  <2>1. ~DisablesMatchCache(s)  BY DEF AnyDisablesCache
  <2> QED  BY <2>1, KeyDecides
<1> QED  BY <1>1 DEF Winner

-----------------------------------------------------------------------------
(* Mutations keep the lists arranged *)

\* The order that Add gives is no other scenario's.
LEMMA FreshOrder ==
    ASSUME NEW S \in SUBSET Scenario, IsFiniteSet(S), UniqueOrders(S), NEW name, NEW s \in Others(S, name)
    PROVE  s.order # ScenarioOrderForAdd(S, name)
<1> DEFINE old == FirstNamed(S, name)
           next == {t.order + 1 : t \in S}
<1>0. s \in S /\ s.name # name /\ \A t \in S : t.order \in Nat  BY Scenarios DEF Others
<1>1. CASE old # {}
  <2>1. \A t \in old : t \in S /\ t.name = name  BY DEF FirstNamed
  <2>2. PICK c : c = CHOOSE t \in old : TRUE  OBVIOUS
  <2>3. c \in old /\ ScenarioOrderForAdd(S, name) = c.order  BY <1>1, <2>2 DEF ScenarioOrderForAdd
  <2> HIDE DEF old
  <2>4. c \in S /\ c.name = name  BY <2>1, <2>3
  <2> QED  BY <1>0, <2>3, <2>4 DEF UniqueOrders
<1>2. CASE old = {}
  <2> DEFINE N == {0} \cup next
             o == [t \in S |-> t.order + 1]
  <2>1. ScenarioOrderForAdd(S, name) = Max(N)  BY <1>2 DEF ScenarioOrderForAdd, NextScenarioOrder
  <2>2. IsFiniteSet(next)
    <3>1. o \in [S -> next] /\ \A x \in next : \E t \in S : o[t] = x  OBVIOUS
    <3> HIDE DEF o, next
    <3>2. o \in Surjection(S, next)  BY <3>1 DEF Surjection
    <3> QED  BY <3>2, FS_Surjection
  <2>3. N \in SUBSET Nat /\ N # {} /\ s.order + 1 \in N  BY <1>0
  <2>4. IsFiniteSet(N)
    <3>1. N = next \cup {0}  OBVIOUS
    <3>2. PICK z : z = 0  OBVIOUS
    <3> HIDE DEF next, N
    <3>3. IsFiniteSet(next \cup {z})  BY <2>2, FS_AddElement
    <3> QED  BY <3>1, <3>2, <3>3
  <2> HIDE DEF N
  <2>5. Max(N) \in N /\ \A n \in N : n <= Max(N)  BY <2>3, <2>4, GreatestOfFinite
  <2>6. PICK k \in Nat : k = s.order  BY <1>0
  <2>7. Max(N) \in Nat /\ k + 1 <= Max(N)  BY <2>3, <2>5, <2>6
  <2> QED  BY <2>1, <2>6, <2>7
<1> QED  BY <1>1, <1>2

\* A scenario that passed validation is proper, whatever its order.
LEMMA ValidProper ==
    ASSUME NEW s \in Declared, NEW n \in Nat, Proper(s) \/ ValidateAndCompile(s)
    PROVE  Proper(s) /\ Proper([s EXCEPT !.order = n])
<1>1. Proper(s)  BY DEF Proper, ValidateAndCompile, RoutesValid, RouteMapValid
<1> DEFINE t == [s EXCEPT !.order = n]
<1>2. t.routes = s.routes /\ t.name = s.name  BY Ordered
<1> HIDE DEF t
<1>3. Proper(t)  BY <1>1, <1>2 DEF Proper
<1> QED  BY <1>1, <1>3 DEF t

\* The built-in default is proper and in no index.
LEMMA DefaultProper == Proper(DefaultScenario) /\ \A i : IndexKeys(DefaultScenario, i) = {}
<1>1. /\ DefaultScenario.routes = <<>> /\ DefaultScenario.paths = <<>> /\ DefaultScenario.name = DefaultName
  BY DEF DefaultScenario
<1>2. DOMAIN <<>> = {} /\ Len(<<>>) = 0  OBVIOUS
<1>3. ~ExactRoutes(DefaultScenario) /\ ~ShardSafe(DefaultScenario)
  BY <1>1, <1>2 DEF ExactRoutes, HasRoutes, ShardSafe
<1>4. Proper(DefaultScenario)  BY <1>1, <1>2 DEF Proper, DefaultName, None
<1> QED  BY <1>3, <1>4 DEF IndexKeys

\* What a valid file holds is sound.
LEMMA FileSound ==
    ASSUME NEW f \in Files, FileValid(f)
    PROVE  Sound(LoadedContents(f))
<1> DEFINE named == \E i \in DOMAIN f : f[i].name = DefaultName
           all == IF named THEN f ELSE Append(f, DefaultScenario)
           one(i) == [all[i] EXCEPT !.order = i - 1]
<1>1. f \in Seq(Declared)
  <2>1. f \in Seq(ToSet(f))  BY RegistryAssumption
  <2>2. ToSet(f) \subseteq Declared  BY DEF Declared
  <2> QED  BY <2>1, <2>2
<1>2. DefaultScenario \in Declared  BY DEF Declared
<1>3. all \in Seq(Declared)  BY <1>1, <1>2
<1>4. LoadedContents(f) = {one(i) : i \in DOMAIN all}  BY DEF LoadedContents
<1>5. \A i \in DOMAIN all : (i \in DOMAIN f /\ all[i] = f[i]) \/ all[i] = DefaultScenario  BY <1>1, <1>2
<1>6. PICK n \in Nat : DOMAIN all = 1..n /\ \A i \in 1..n : all[i] \in Declared  BY <1>3
<1> HIDE DEF all
<1>7. ASSUME NEW i \in DOMAIN all  PROVE Proper(one(i))
  <2>1. all[i] \in Declared /\ i - 1 \in Nat  BY <1>6
  <2>2. Proper(all[i]) \/ ValidateAndCompile(all[i])  BY <1>5, DefaultProper DEF FileValid
  <2> QED  BY <2>1, <2>2, ValidProper
<1> HIDE DEF one
<1>8. UniqueOrders(LoadedContents(f))  BY Loaded
<1> QED  BY <1>4, <1>7, <1>8 DEF Sound

\* Fewer scenarios are less to provide for.
LEMMA Fewer ==
    ASSUME NEW S, NEW T \in SUBSET S
    PROVE  /\ Full(S) => Full(T)
           /\ DefaultIsLast(S) => DefaultIsLast(T)
           /\ Covers(S) => Covers(T)
           /\ Sound(S) => Sound(T)
BY DEF Full, DefaultIsLast, Covers, AnyDisablesCache, Sound, UniqueOrders

\* A mutation that waits, or whose part of the state stays, finds the lists as they were.
LEMMA ArrangedBeside ==
    ASSUME NEW q \in Mutators, Arranged(q), mut'[q] = mut[q],
           mut[q].pc \in Held => UNCHANGED <<shards, global, committed, cacheOff>>
    PROVE  Arranged(q)'
<1>1. Replaces(q)' = Replaces(q)  BY DEF Replaces
<1>2. CASE mut[q].pc \in Held
  <2>1. UNCHANGED <<shards, global, committed, cacheOff>>  BY <1>2
  <2>2. Present' = Present  BY <2>1 DEF Present
  <2>3. \A S : Full(S)' = Full(S) /\ DefaultIsLast(S)' = DefaultIsLast(S) /\ Covers(S)' = Covers(S)
    BY <2>1 DEF Full, DefaultIsLast, Covers
  <2>4. /\ Full(Present)' = Full(Present) /\ DefaultIsLast(Present)' = DefaultIsLast(Present)
        /\ Covers(Present)' = Covers(Present)
    BY <2>1, <2>2 DEF Full, DefaultIsLast, Covers
  <2>5. Ready(committed)' = Ready(committed)  BY <2>1 DEF Ready, Full, DefaultIsLast, Covers
  <2>6. LET S == Others(committed, NameOf(mut[q].op)) IN Full(S)' = Full(S)  BY <2>1 DEF Full
  <2>7. Full(committed)' = Full(committed) /\ DefaultIsLast(committed)' = DefaultIsLast(committed)
        /\ Covers(committed)' = Covers(committed)
    BY <2>1 DEF Full, DefaultIsLast, Covers
  <2>8. LET S == ToSet(mut[q].next) IN Covers(S)' = Covers(S)  BY <2>1 DEF Covers
  <2>9. (DefaultScenario \notin Sharded(shards))' = (DefaultScenario \notin Sharded(shards))  BY <2>1
  <2> QED  BY <1>1, <2>4, <2>5, <2>6, <2>7, <2>8, <2>9 DEF Arranged
<1>3. CASE mut[q].pc \notin Held
  BY <1>1, <1>3 DEF Arranged, Held
<1> QED  BY <1>2, <1>3

\* One mutation takes a step, and the others find the lists as they were.
LEMMA ArrangingStep ==
    ASSUME Mutex, Arranging, NEW p \in Mutators, \A q \in Mutators : q # p => mut'[q] = mut[q],
           UNCHANGED <<shards, global, committed, cacheOff>> \/ mu \in {None, p},
           Keyed', Sound(committed)', IsFiniteSet(committed)', (mu = None => Ready(committed))', Arranged(p)'
    PROVE  Arranging'
<1>1. ASSUME NEW q \in Mutators, q # p  PROVE Arranged(q)'
  <2>1. mut[q].pc \in Held => mu = q  BY DEF Mutex
  <2>2. mut[q].pc \in Held => UNCHANGED <<shards, global, committed, cacheOff>>
    BY <1>1, <2>1, RegistryAssumption
  <2>3. Arranged(q) /\ mut'[q] = mut[q]  BY <1>1 DEF Arranging
  <2> QED  BY <2>2, <2>3, ArrangedBeside
<1> QED  BY <1>1 DEF Arranging

\* Before mutationMu is taken only the list that was read matters.
LEMMA WaitingArranged ==
    ASSUME Mutex, Arranging, NEW p \in Mutators, \A q \in Mutators : q # p => mut'[q] = mut[q],
           UNCHANGED <<shards, global, committed, cacheOff, mu>>, mut'[p].pc \in {"read", "list", "lock", "done"},
           mut'[p].pc \in {"list", "lock"} /\ mut'[p].op.kind \in {"load", "reload"} => Sound(ToSet(mut'[p].next))
    PROVE  Arranging'
<1>1. Arranged(p)'  BY DEF Arranged, Replaces, Held
<1>2. Keyed' /\ Sound(committed)' /\ IsFiniteSet(committed)'
  BY DEF Arranging, Keyed
<1>3. (mu = None => Ready(committed))'  BY DEF Arranging, Ready, Full, DefaultIsLast, Covers
<1> QED  BY <1>1, <1>2, <1>3, ArrangingStep

\* A call arrives.
LEMMA BeginArranges ==
    ASSUME Typed, Mutex, Arranging, NEW p \in Mutators, Begin(p)
    PROVE  Arranging'
<1> DEFINE to(op) == CASE op.kind = "load" -> "read"
                       [] op.kind = "reload" -> IF loaded THEN "read" ELSE "done"
                       [] OTHER -> "lock"
<1>0. PICK op \in Ops : mut' = [mut EXCEPT ![p].op = op, ![p].pc = to(op)]  BY DEF Begin
<1>1. UNCHANGED <<store, mu, committed>>  BY DEF Begin
<1>2. op.kind \in {"load", "reload", "add", "remove"}  BY RegistryAssumption
<1>3. PICK pc : pc = to(op)  OBVIOUS
<1>4. pc \in {"read", "done", "lock"} /\ (pc = "lock" => op.kind \in {"add", "remove"})  BY <1>2, <1>3
<1> HIDE DEF to
<1>5. mut' = [mut EXCEPT ![p].op = op, ![p].pc = pc]  BY <1>0, <1>3
<1>6. mut \in [Mutators -> MutRecord]  BY DEF Typed
<1>7. \A q \in Mutators : q # p => mut'[q] = mut[q]  BY <1>5, <1>6
<1>8. mut'[p].op = op /\ mut'[p].pc = pc  BY <1>5, <1>6 DEF MutRecord
<1> QED  BY <1>1, <1>4, <1>7, <1>8, WaitingArranged DEF store

\* The file is read; what a valid file holds is sound.
LEMMA ReadFileArranges ==
    ASSUME Typed, Mutex, Arranging, NEW p \in Mutators, ReadFile(p)
    PROVE  Arranging'
<1> DEFINE q == SortedByPriority(LoadedContents(disk))
<1>1. FileValid(disk) => Sound(ToSet(q))
  <2>1. disk \in Files  BY DEF Typed
  <2> HIDE DEF q
  <2>2. ToSet(q) = LoadedContents(disk)  BY <2>1, LoadedList DEF q
  <2> QED  BY <2>1, <2>2, FileSound
<1>2. /\ UNCHANGED <<store, mu, committed>>
      /\ mut' = [mut EXCEPT ![p].next = q,
                   ![p].pc = IF ~FileValid(disk) THEN "done"
                             ELSE IF mut[p].op.kind = "load" THEN "lock" ELSE "list"]
  BY DEF ReadFile
<1> HIDE DEF q
<1>3. PICK pc \in {"done", "lock", "list"} :
          mut' = [mut EXCEPT ![p].next = q, ![p].pc = pc] /\ (pc # "done" => FileValid(disk))
  BY <1>2
<1>4. mut \in [Mutators -> MutRecord]  BY DEF Typed
<1>5. \A k \in Mutators : k # p => mut'[k] = mut[k]  BY <1>3, <1>4
<1>6. mut'[p].next = q /\ mut'[p].pc = pc  BY <1>3, <1>4 DEF MutRecord
<1> QED  BY <1>1, <1>2, <1>3, <1>5, <1>6, WaitingArranged DEF store

\* The topology check leaves the list that was read.
LEMMA ListShardArranges ==
    ASSUME Typed, Mutex, Arranging, NEW p \in Mutators, ListShard(p)
    PROVE  Arranging'
<1>1. mut[p].pc = "list" /\ UNCHANGED <<store, mu, committed>>  BY DEF ListShard
<1> DEFINE part == IF mut[p].i > Shards THEN global ELSE shards[mut[p].i]
           more == mut[p].list \cup ToSet(part)
           i == IF mut[p].i > Shards THEN 1 ELSE mut[p].i + 1
           pc == IF mut[p].i <= Shards THEN "list"
                 ELSE IF TopologyKept(more, ToSet(mut[p].next)) THEN "lock" ELSE "done"
<1>2. mut' = [mut EXCEPT ![p].list = more, ![p].i = i, ![p].pc = pc] /\ pc \in {"done", "lock", "list"}
  BY DEF ListShard
<1> HIDE DEF more, i, pc
<1>3. mut \in [Mutators -> MutRecord]  BY DEF Typed
<1>4. \A k \in Mutators : k # p => mut'[k] = mut[k]  BY <1>2, <1>3
<1>5. mut'[p].next = mut[p].next /\ mut'[p].pc = pc /\ mut'[p].op = mut[p].op  BY <1>2, <1>3 DEF MutRecord
<1>6. Replaces(p) => Sound(ToSet(mut[p].next))  BY <1>1 DEF Arranging, Arranged
<1> QED  BY <1>1, <1>2, <1>4, <1>5, <1>6, WaitingArranged DEF store, Replaces

\* mutationMu is taken: the lists are ready for the contents, and Load sets the flag first.
LEMMA LockArranges ==
    ASSUME Typed, Mutex, Mutating, Arranging, NEW p \in Mutators, Lock(p)
    PROVE  Arranging'
<1> DEFINE op == mut[p].op
<1>1. /\ mut[p].pc = "lock" /\ mu = None /\ mu' = p
      /\ cacheOff' = IF op.kind = "load" THEN AnyDisablesCache(ToSet(mut[p].next)) ELSE cacheOff
      /\ UNCHANGED <<shards, global, committed>>
  BY DEF Lock
<1>2. PICK next : mut' = [mut EXCEPT
                 ![p].pc = IF op.kind = "add" /\ ~ValidateAndCompile(op.s) THEN "refused" ELSE "shard",
                 ![p].next = next]
                 /\ (op.kind # "add" => next = mut[p].next)
  BY DEF Lock
<1>3. PICK pc \in {"refused", "shard"} : /\ mut' = [mut EXCEPT ![p].pc = pc, ![p].next = next]
                                         /\ pc = "refused" => op.kind = "add"
                                         /\ pc = "shard" /\ op.kind = "add" => ValidateAndCompile(op.s)
  BY <1>2
<1>4. mut \in [Mutators -> MutRecord]  BY DEF Typed
<1>5. \A k \in Mutators : k # p => mut'[k] = mut[k]  BY <1>3, <1>4
<1>6. mut'[p].next = next /\ mut'[p].pc = pc /\ mut'[p].op = op  BY <1>3, <1>4 DEF MutRecord
<1>7. /\ op.kind \in {"load", "reload", "add", "remove"}
      /\ Replaces(p) <=> op.kind \notin {"add", "remove"}
      /\ op.kind = "add" => op.s \in Declared
  BY <1>1, Kinds
<1>8. Ready(committed)  BY <1>1 DEF Arranging
<1>9. op.kind # "load" => Ready(committed)'  BY <1>1, <1>8 DEF Ready, Full, DefaultIsLast, Covers
<1>10. Keyed' /\ Sound(committed)' /\ IsFiniteSet(committed)'  BY <1>1 DEF Arranging, Keyed
<1>11. (mu = None => Ready(committed))'  BY <1>1, RegistryAssumption
<1>12. Replaces(p)' = Replaces(p)  BY <1>6 DEF Replaces
<1>13. Replaces(p) => Sound(ToSet(mut[p].next)) /\ next = mut[p].next  BY <1>1, <1>2, <1>7 DEF Arranging, Arranged
<1>14. pc # "refused" /\ op.kind = "add" => Proper(op.s)  BY <1>3, <1>7, ValidProper
<1>15. op.kind = "load" => (cacheOff' = AnyDisablesCache(ToSet(next)))  BY <1>1, <1>2
<1>16. ASSUME ~Replaces(p)
       PROVE  /\ Full(Others(committed, NameOf(mut[p].op)))' /\ DefaultIsLast(committed)' /\ Covers(committed)'
              /\ Full(committed)'
  <2>1. Full(committed)' /\ DefaultIsLast(committed)' /\ Covers(committed)'
    BY <1>7, <1>9, <1>16 DEF Ready
  <2>2. Full(Others(committed, NameOf(mut[p].op)))'  BY <2>1 DEF Full, Others
  <2> QED  BY <2>1, <2>2
<1>17. Arranged(p)'
  <2>1. pc = "refused" => Ready(committed)'  BY <1>3, <1>9
  <2>2. op.kind = "load" => Covers(ToSet(mut[p].next))'  BY <1>6, <1>15 DEF Covers
  <2> HIDE DEF op
  <2> QED  BY <1>3, <1>6, <1>12, <1>13, <1>14, <1>16, <2>1, <2>2 DEF Arranged, Held
<1> QED  BY <1>1, <1>5, <1>10, <1>11, <1>17, ArrangingStep

\* One shard is cleared, replaced or searched for the name.
LEMMA UpdateShardArranges ==
    ASSUME Typed, Mutex, Mutating, Arranging, NEW p \in Mutators, UpdateShard(p)
    PROVE  Arranging'
<1> DEFINE op == mut[p].op
           name == NameOf(op)
           i == mut[p].i
           new == NewPart(op, BuiltShards(mut[p].next)[i], Without(shards[i], name))
           hit == mut[p].hit \/ new # shards[i]
           pc == IF i = Shards THEN "global" ELSE "shard"
           to == IF i = Shards THEN 1 ELSE i + 1
<1>1. /\ mut[p].pc = "shard" /\ shards' = [shards EXCEPT ![i] = new]
      /\ mut' = [mut EXCEPT ![p].i = to, ![p].pc = pc, ![p].hit = hit]
      /\ UNCHANGED <<global, cacheOff, mu, committed>>
  BY DEF UpdateShard
<1>2. /\ op.kind \in {"load", "reload", "add", "remove"}
      /\ Replaces(p) <=> op.kind \notin {"add", "remove"}
  BY <1>1, Kinds
<1>3. i \in 1..Shards /\ Arranged(p) /\ Keyed /\ Sound(committed) /\ IsFiniteSet(committed)
  BY <1>1 DEF Mutating, Prepared, Arranging
<1>4. shards \in ShardLists /\ shards[i] \in Seq(Scenario) /\ mut[p].next \in Seq(Scenario) /\ mut[p].hit \in BOOLEAN
  BY <1>3, PresentType DEF ShardLists, Typed, MutRecord
<1>5. ToSet(Without(shards[i], name)) = Others(ToSet(shards[i]), name)  BY <1>4, Cleared
<1>6. /\ op.kind = "load" => new = <<>>
      /\ op.kind = "reload" => new = BuiltShards(mut[p].next)[i]
      /\ ~Replaces(p) => new = Without(shards[i], name)
  BY <1>2 DEF NewPart
<1> HIDE DEF new, name
<1>7. shards'[i] = new /\ \A j \in 1..Shards : j # i => shards'[j] = shards[j]
  BY <1>1, <1>3, <1>4 DEF ShardLists
<1>8. \A s \in ToSet(new) : s = DefaultScenario \/ IndexKeys(s, i) # {}
  <2>1. CASE op.kind = "load"  BY <1>6, <2>1 DEF ToSet
  <2>2. CASE op.kind = "reload"
    <3> DEFINE S == {s \in ToSet(mut[p].next) : IndexKeys(s, i) # {}}
    <3>1. new = Keep(mut[p].next, S)  BY <1>3, <1>6, <2>2 DEF BuiltShards
    <3>2. \A s \in S : IndexKeys(s, i) # {}  OBVIOUS
    <3> HIDE DEF S
    <3>3. ToSet(new) = ToSet(mut[p].next) \cap S  BY <1>4, <3>1, Kept
    <3> QED  BY <3>2, <3>3
  <2>3. CASE ~Replaces(p)
    <3>1. ToSet(new) \subseteq ToSet(shards[i])  BY <1>5, <1>6, <2>3 DEF Others
    <3> QED  BY <1>3, <3>1 DEF Keyed
  <2> HIDE DEF op
  <2> QED  BY <1>2, <2>1, <2>2, <2>3
<1>9. Keyed'  BY <1>3, <1>7, <1>8 DEF Keyed
<1>10. pc \in {"global", "shard"}  OBVIOUS
<1>11. /\ \A k \in Mutators : k # p => mut'[k] = mut[k]
       /\ mut'[p].op = op /\ mut'[p].next = mut[p].next /\ mut'[p].hit = hit /\ mut'[p].pc = pc
  <2>1. mut \in [Mutators -> MutRecord] /\ mut[p] \in MutRecord  BY DEF Typed
  <2>2. mut[p].op = op  OBVIOUS
  <2> DEFINE r == [[[mut[p] EXCEPT !.i = to] EXCEPT !.pc = pc] EXCEPT !.hit = hit]
  <2> HIDE DEF to, pc, hit, op
  <2>3. r.op = op /\ r.pc = pc /\ r.next = mut[p].next /\ r.hit = hit  BY <2>1, <2>2 DEF MutRecord
  <2>4. mut' = [mut EXCEPT ![p] = r]  BY <1>1, <2>1
  <2> HIDE DEF r
  <2> QED  BY <2>1, <2>3, <2>4
<1>12. mu = p /\ mu' # None  BY <1>1, Inner DEF Held
<1>13. ASSUME ~Replaces(p)
       PROVE  /\ Full(Others(committed, name))' /\ DefaultIsLast(committed)' /\ Covers(committed)'
              /\ hit = FALSE => Full(committed)'
  <2>1. /\ Full(Others(committed, name)) /\ DefaultIsLast(committed) /\ Covers(committed)
        /\ mut[p].hit = FALSE => Full(committed)
    BY <1>1, <1>3, <1>13 DEF Arranged, name
  <2>2. \A s \in Others(committed, name) : s.name # name  BY DEF Others
  <2>3. \A j \in 1..Shards : ToSet(shards'[j]) \subseteq ToSet(shards[j])
    BY <1>5, <1>6, <1>7, <1>13 DEF Others
  <2>4. \A j \in 1..Shards : \A s \in ToSet(shards[j]) : s.name # name => s \in ToSet(shards'[j])
    BY <1>5, <1>6, <1>7, <1>13 DEF Others
  <2>5. Full(Others(committed, name))'
    <3>1. name' = name  BY <1>11 DEF name
    <3> QED  BY <1>1, <2>1, <2>2, <2>4, <3>1 DEF Full
  <2>6. Sharded(shards') \subseteq Sharded(shards)  BY <2>3 DEF Sharded
  <2>7. DefaultIsLast(committed)' /\ Covers(committed)'  BY <1>1, <2>1, <2>6 DEF DefaultIsLast, Covers
  <2>8. ASSUME hit = FALSE  PROVE Full(committed)'
    <3>1. new = shards[i] /\ mut[p].hit = FALSE  BY <1>4, <2>8
    <3>2. shards' = shards  BY <1>1, <1>3, <1>4, <3>1 DEF ShardLists
    <3> QED  BY <1>1, <2>1, <3>1, <3>2 DEF Full
  <2> QED  BY <2>5, <2>7, <2>8
<1>14. Arranged(p)'
  <2>1. Replaces(p)' = Replaces(p) /\ name' = NameOf(mut[p].op)'  BY <1>11 DEF Replaces, name
  <2>2. Replaces(p) => Sound(ToSet(mut[p].next))  BY <1>1, <1>3 DEF Arranged, Held
  <2>3. op.kind = "add" => Proper(op.s)  BY <1>1, <1>3 DEF Arranged, Held
  <2>4. op.kind = "load" => Covers(ToSet(mut[p].next))'
    <3>1. op.kind = "load" => Covers(ToSet(mut[p].next))  BY <1>1, <1>3 DEF Arranged, Held
    <3> QED  BY <1>1, <1>11, <3>1 DEF Covers
  <2> HIDE DEF op, hit, pc
  <2>5. mut'[p].pc \in {"global", "shard"}  BY <1>10, <1>11
  <2>6. ~(Replaces(p)') => /\ Full(Others(committed, NameOf(mut[p].op)))' /\ DefaultIsLast(committed)' /\ Covers(committed)'
                           /\ mut'[p].hit = FALSE => Full(committed)'
    BY <1>11, <1>13, <2>1 DEF name
  <2>7. /\ Replaces(p)' => Sound(ToSet(mut'[p].next))
        /\ mut'[p].op.kind = "add" => Proper(mut'[p].op.s)
        /\ mut'[p].op.kind = "load" => Covers(ToSet(mut[p].next))'
    BY <1>11, <2>1, <2>2, <2>3, <2>4
  <2> QED  BY <2>5, <2>6, <2>7 DEF Arranged
<1> QED  BY <1>1, <1>3, <1>9, <1>11, <1>12, <1>14, ArrangingStep

\* The lists that replaceValidated installs are full, and the default is in no shard.
LEMMA BuiltFull ==
    ASSUME NEW q \in Seq(Scenario), \A j \in 1..Shards : shards[j] = BuiltShards(q)[j]
    PROVE  Full(ToSet(q)) /\ DefaultScenario \notin Sharded(shards)
<1> DEFINE of(j) == {s \in ToSet(q) : IndexKeys(s, j) # {}}
<1>1. \A j \in 1..Shards : shards[j] = Keep(q, of(j))  BY DEF BuiltShards
<1>2. \A S : ToSet(Keep(q, S)) = ToSet(q) \cap S  BY Kept
<1>3. \A j \in 1..Shards : \A s : s \in ToSet(shards[j]) <=> s \in ToSet(q) /\ IndexKeys(s, j) # {}
  <2> TAKE j \in 1..Shards
  <2>1. \A s : s \in of(j) <=> s \in ToSet(q) /\ IndexKeys(s, j) # {}  OBVIOUS
  <2> HIDE DEF of
  <2>2. ToSet(shards[j]) = ToSet(q) \cap of(j)  BY <1>1, <1>2
  <2> QED  BY <2>1, <2>2
<1>4. Full(ToSet(q))  BY <1>3 DEF Full
<1>5. DefaultScenario \notin Sharded(shards)  BY <1>3, DefaultProper DEF Sharded
<1> QED  BY <1>4, <1>5

\* The global list follows; the shards are ready for what is there.
LEMMA UpdateGlobalArranges ==
    ASSUME Typed, Mutex, Mutating, Arranging, NEW p \in Mutators, UpdateGlobal(p)
    PROVE  Arranging'
<1> DEFINE op == mut[p].op
           name == NameOf(op)
           next == mut[p].next
           new == NewPart(op, BuiltGlobal(next), WithoutFirst(global, name))
           removed == mut[p].hit \/ new # global
           pc == IF op.kind # "load" /\ (op.kind = "reload" \/ removed) THEN "flag"
                 ELSE IF op.kind = "remove" THEN "refused" ELSE "index"
<1>1. /\ mut[p].pc = "global" /\ mut' = [mut EXCEPT ![p].pc = pc]
      /\ UNCHANGED <<shards, cacheOff, mu, committed>>
  BY DEF UpdateGlobal
<1>2. /\ op.kind \in {"load", "reload", "add", "remove"}
      /\ Replaces(p) <=> op.kind \notin {"add", "remove"}
  BY <1>1, Kinds
<1>3. /\ Arranged(p) /\ Keyed /\ Sound(committed) /\ IsFiniteSet(committed)
      /\ ShardsDone(p, Shards + 1) /\ mut[p].i = 1 /\ next \in Seq(Scenario) /\ mut[p].hit \in BOOLEAN
  BY <1>1 DEF Mutating, Prepared, Contents, Arranging, Typed, MutRecord
<1>4. /\ pc \in {"index", "flag", "refused"}
      /\ op.kind = "load" => pc = "index"
      /\ op.kind = "reload" => pc = "flag"
      /\ op.kind = "add" => pc \in {"index", "flag"}
      /\ op.kind = "remove" => pc \in {"flag", "refused"}
      /\ ~Replaces(p) /\ pc = "refused" => mut[p].hit = FALSE
  <2>1. ~removed => mut[p].hit = FALSE  BY <1>3
  <2> HIDE DEF removed, op
  <2> QED  BY <1>2, <2>1
<1> HIDE DEF pc, name
<1>5. /\ \A k \in Mutators : k # p => mut'[k] = mut[k]
      /\ mut'[p].op = op /\ mut'[p].next = next /\ mut'[p].pc = pc /\ mut'[p].i = 1
  <2>1. mut \in [Mutators -> MutRecord] /\ mut[p] \in MutRecord  BY DEF Typed
  <2>2. mut[p].op = op /\ mut[p].next = next  OBVIOUS
  <2> DEFINE r == [mut[p] EXCEPT !.pc = pc]
  <2> HIDE DEF op, next
  <2>3. r.op = op /\ r.pc = pc /\ r.next = next /\ r.i = 1  BY <1>3, <2>1, <2>2 DEF MutRecord
  <2>4. mut' = [mut EXCEPT ![p] = r]  BY <1>1, <2>1
  <2> HIDE DEF r
  <2> QED  BY <2>1, <2>3, <2>4
<1>6. Replaces(p)' = Replaces(p)  BY <1>5 DEF Replaces
<1>7. Contents(p)'  BY UpdateGlobalStep DEF Mutating
<1>8. mu = p /\ mu' # None  BY <1>1, Inner DEF Held
<1>9. Keyed' /\ Sound(committed)' /\ IsFiniteSet(committed)'  BY <1>1, <1>3 DEF Keyed
<1>10. \A S : (Full(S) => Full(S)') /\ (DefaultIsLast(S) => DefaultIsLast(S)') /\ (Covers(S) => Covers(S)')
  BY <1>1 DEF Full, DefaultIsLast, Covers
<1>11. \A j \in 1..Shards : j \in 1..(Shards + 1) - 1  BY RegistryAssumption
<1>12. CASE op.kind = "load"
  <2>1. \A j \in 1..Shards : shards[j] = <<>>  BY <1>3, <1>11, <1>12 DEF ShardsDone
  <2>2. DefaultScenario \notin Sharded(shards)
    <3>1. ToSet(<<>>) = {}  BY DEF ToSet
    <3> QED  BY <2>1, <3>1 DEF Sharded
  <2>3. mut'[p].pc = "index" /\ Replaces(p)' /\ mut'[p].op.kind = "load"
    BY <1>2, <1>4, <1>5, <1>6, <1>12
  <2>4. Present' = {}
    <3>1. {mut'[p].next[j] : j \in 1..mut'[p].i - 1} = {}  BY <1>5
    <3> QED  BY <1>7, <2>3, <3>1 DEF Contents
  <2>5. (Full(Present) /\ DefaultIsLast(Present))'  BY <2>4 DEF Full, DefaultIsLast
  <2>6. Sound(ToSet(next)) /\ Covers(ToSet(next))  BY <1>1, <1>2, <1>3, <1>12 DEF Arranged, Held
  <2>7. Covers(ToSet(mut[p].next))'  BY <1>1, <1>5, <2>6 DEF Covers
  <2>8. (DefaultScenario \notin Sharded(shards))'  BY <1>1, <2>2
  <2>9. Arranged(p)'  BY <1>5, <2>3, <2>5, <2>6, <2>7, <2>8 DEF Arranged
  <2> QED  BY <1>1, <1>5, <1>8, <1>9, <2>9, ArrangingStep
<1>13. CASE op.kind = "reload"
  <2>1. \A j \in 1..Shards : shards[j] = BuiltShards(next)[j]  BY <1>3, <1>11, <1>13 DEF ShardsDone
  <2>2. Full(ToSet(next)) /\ DefaultScenario \notin Sharded(shards)
    <3> HIDE DEF next
    <3> QED  BY <1>3, <2>1, BuiltFull
  <2>3. mut'[p].pc = "flag" /\ Replaces(p)' /\ mut'[p].op.kind = "reload"  BY <1>2, <1>4, <1>5, <1>6, <1>13
  <2>4. Present' = ToSet(next)  BY <1>5, <1>7, <2>3 DEF Contents
  <2>5. (Full(Present) /\ DefaultIsLast(Present))'  BY <1>1, <2>2, <2>4 DEF Full, DefaultIsLast
  <2>6. Sound(ToSet(next))  BY <1>1, <1>2, <1>3, <1>13 DEF Arranged, Held
  <2>7. Arranged(p)'  BY <1>5, <2>3, <2>5, <2>6 DEF Arranged
  <2> QED  BY <1>1, <1>5, <1>8, <1>9, <2>7, ArrangingStep
<1>14. CASE ~Replaces(p)
  <2>1. /\ Full(Others(committed, name)) /\ DefaultIsLast(committed) /\ Covers(committed)
        /\ mut[p].hit = FALSE => Full(committed)
    BY <1>1, <1>3, <1>14 DEF Arranged, name
  <2>2. ~(Replaces(p)') /\ mut'[p].op.kind \in {"add", "remove"}  BY <1>2, <1>5, <1>6, <1>14
  <2>3. Others(committed, name) \in SUBSET committed  BY DEF Others
  <2>4. DefaultIsLast(Others(committed, name)) /\ Covers(Others(committed, name))  BY <2>1, <2>3, Fewer
  <2>5. mut'[p].pc \in {"flag", "index"} => Present' = Others(committed, name)
    <3>1. NameOf(mut[p].op)' = name /\ committed' = committed  BY <1>1, <1>5 DEF name
    <3> QED  BY <1>7, <2>2, <3>1 DEF Contents
  <2>6. mut'[p].pc \in {"flag", "index"} => (Full(Present) /\ DefaultIsLast(Present) /\ Covers(Present))'
    <3> SUFFICES ASSUME mut'[p].pc \in {"flag", "index"}
                 PROVE  (Full(Present) /\ DefaultIsLast(Present) /\ Covers(Present))'
      OBVIOUS
    <3>1. PICK S : S = Others(committed, name)  OBVIOUS
    <3>2. Full(S) /\ DefaultIsLast(S) /\ Covers(S) /\ Present' = S  BY <2>1, <2>4, <2>5, <3>1
    <3> QED  BY <1>1, <3>2 DEF Full, DefaultIsLast, Covers
  <2>7. mut'[p].pc = "refused" => Ready(committed)'
    <3> SUFFICES ASSUME pc = "refused"  PROVE Ready(committed)'  BY <1>5
    <3>1. Full(committed) /\ DefaultIsLast(committed) /\ Covers(committed)  BY <1>4, <1>14, <2>1
    <3> QED  BY <1>1, <3>1 DEF Ready, Full, DefaultIsLast, Covers
  <2>8. mut'[p].op.kind = "add" => Proper(mut'[p].op.s)  BY <1>1, <1>3, <1>5 DEF Arranged, Held
  <2>9. mut'[p].pc \in {"index", "flag", "refused"}  BY <1>4, <1>5
  <2>10. Arranged(p)'  BY <2>2, <2>6, <2>7, <2>8, <2>9 DEF Arranged
  <2> QED  BY <1>1, <1>5, <1>8, <1>9, <2>10, ArrangingStep
<1> QED  BY <1>2, <1>12, <1>13, <1>14

\* The flag is set for what is there.
LEMMA UpdateFlagArranges ==
    ASSUME Typed, Mutex, Mutating, Arranging, NEW p \in Mutators, UpdateFlag(p)
    PROVE  Arranging'
<1> DEFINE op == mut[p].op
           pc == IF op.kind = "add" THEN "index" ELSE "commit"
<1>1. /\ mut[p].pc = "flag" /\ mut' = [mut EXCEPT ![p].pc = pc]
      /\ cacheOff' = AnyDisablesCache(IF op.kind = "reload" THEN ToSet(mut[p].next) ELSE Present)
      /\ UNCHANGED <<shards, global, mu, committed>>
  BY DEF UpdateFlag, Present
<1>2. /\ op.kind \in {"load", "reload", "add", "remove"}
      /\ Replaces(p) <=> op.kind \notin {"add", "remove"}
  BY <1>1, Kinds
<1>3. /\ Arranged(p) /\ Keyed /\ Sound(committed) /\ IsFiniteSet(committed) /\ Contents(p)
  BY DEF Mutating, Arranging
<1>4. pc \in {"index", "commit"} /\ (pc = "index" => op.kind = "add")  OBVIOUS
<1>5. /\ \A k \in Mutators : k # p => mut'[k] = mut[k]
      /\ mut'[p].op = op /\ mut'[p].next = mut[p].next /\ mut'[p].pc = pc
  <2>1. mut \in [Mutators -> MutRecord] /\ mut[p] \in MutRecord  BY DEF Typed
  <2>2. mut[p].op = op  OBVIOUS
  <2> DEFINE r == [mut[p] EXCEPT !.pc = pc]
  <2> HIDE DEF op, pc
  <2>3. r.op = op /\ r.pc = pc /\ r.next = mut[p].next  BY <2>1, <2>2 DEF MutRecord
  <2>4. mut' = [mut EXCEPT ![p] = r]  BY <1>1, <2>1
  <2> HIDE DEF r
  <2> QED  BY <2>1, <2>3, <2>4
<1>6. Replaces(p)' = Replaces(p)  BY <1>5 DEF Replaces
<1>7. Replaces(p) => Present = ToSet(mut[p].next) /\ Sound(ToSet(mut[p].next))
  BY <1>1, <1>3 DEF Contents, Arranged, Held
<1>8. cacheOff' = AnyDisablesCache(Present) /\ Present' = Present  BY <1>1, <1>2, <1>7 DEF Present
<1>9. Covers(Present)'  BY <1>8 DEF Covers
<1>10. (Full(Present) /\ DefaultIsLast(Present))'
  <2>1. Full(Present) /\ DefaultIsLast(Present)  BY <1>1, <1>3 DEF Arranged
  <2> QED  BY <1>1, <1>8, <2>1 DEF Full, DefaultIsLast
<1>11. mu = p /\ mu' # None  BY <1>1, Inner DEF Held
<1>12. Keyed' /\ Sound(committed)' /\ IsFiniteSet(committed)'  BY <1>1, <1>3 DEF Keyed
<1>13. Arranged(p)'
  <2>1. op.kind = "add" => Proper(op.s)  BY <1>1, <1>3 DEF Arranged, Held
  <2>2. op.kind = "load" => Covers(ToSet(mut[p].next))'  BY <1>2, <1>5, <1>7, <1>8 DEF Covers
  <2>3. mut'[p].pc \in {"index", "commit"} /\ (mut'[p].pc = "index" => mut'[p].op.kind = "add")
    BY <1>4, <1>5
  <2> HIDE DEF pc, op
  <2> QED  BY <1>5, <1>6, <1>7, <1>9, <1>10, <2>1, <2>2, <2>3 DEF Arranged
<1> QED  BY <1>1, <1>5, <1>11, <1>12, <1>13, ArrangingStep

\* The next scenario goes to the shards that index it; the built-in default is not in a shard
\* any more, or stays the last.
LEMMA IndexScenarioArranges ==
    ASSUME Regular, Typed, Mutex, Mutating, Arranging, NEW p \in Mutators, IndexScenario(p)
    PROVE  Arranging'
<1> DEFINE op == mut[p].op
           next == mut[p].next
           i == mut[p].i
           s == next[i]
           last == i = Len(next)
           to == IF last THEN 1 ELSE i + 1
           pc == IF last THEN "commit" ELSE "index"
<1>1. /\ mut[p].pc = "index" /\ shards' = IndexedShards(shards, s) /\ global' = IndexedGlobal(global, s)
      /\ mut' = [mut EXCEPT ![p].i = to, ![p].pc = pc]
      /\ cacheOff' = (cacheOff \/ (op.kind = "add" /\ DisablesMatchCache(s)))
      /\ UNCHANGED <<mu, committed>>
  BY DEF IndexScenario
<1>2. /\ op \in Ops /\ op.kind \in {"load", "reload", "add", "remove"}
      /\ Replaces(p) <=> op.kind \notin {"add", "remove"}
      /\ op.kind = "add" => op.s \in Declared
  BY <1>1, Kinds
<1>3. /\ Arranged(p) /\ Keyed /\ Sound(committed) /\ IsFiniteSet(committed) /\ Contents(p) /\ Prepared(p)
  BY DEF Mutating, Arranging
<1>4. i \in 1..Len(next) /\ op.kind \in {"load", "add"} /\ next \in Seq(Scenario)
  BY <1>1, <1>3 DEF Prepared, Typed, MutRecord
<1>5. s \in Scenario /\ s \in ToSet(next)  BY <1>4 DEF ToSet
<1>6. shards \in ShardLists /\ global \in Seq(Scenario) /\ Present = In(shards, global)  BY PresentType
<1>7. ASSUME op.kind = "load"
      PROVE  Placed(s) /\ Present \subseteq ToSet(next)
  <2>1. Replaces(p)  BY <1>7 DEF Replaces
  <2>2. Placed(s)  BY <1>1, <1>3, <1>5, <2>1 DEF Prepared, Held
  <2>3. Present = {next[j] : j \in 1..i - 1}  BY <1>1, <1>3, <2>1 DEF Contents
  <2>4. \A j \in 1..i - 1 : j \in DOMAIN next  BY <1>4
  <2> QED  BY <2>2, <2>3, <2>4 DEF ToSet
<1>8. ASSUME op.kind = "add"
      PROVE  /\ Placed(s) /\ last /\ Present = Others(committed, s.name)
             /\ s.name = DefaultName \/ s.priority > DefaultScenario.priority
  <2> DEFINE n == ScenarioOrderForAdd(committed, op.s.name)
             t == [op.s EXCEPT !.order = n]
  <2>1. next = <<t>> /\ Placed(t)  BY <1>1, <1>3, <1>8 DEF Prepared, Held
  <2>2. t.name = op.s.name /\ t.priority = op.s.priority
    <3>1. DOMAIN op.s = Fields  BY <1>2, <1>8, DeclaredOnes
    <3> QED  BY <3>1 DEF Fields
  <2> HIDE DEF t
  <2>3. i = 1 /\ last /\ s = t  BY <1>4, <2>1
  <2>4. ~Replaces(p) /\ NameOf(op) = op.s.name  BY <1>2, <1>8 DEF NameOf
  <2>5. Present = Others(committed, NameOf(op))  BY <1>1, <1>3, <2>4 DEF Contents
  <2>6. op.s.name = DefaultName \/ op.s.priority > DefaultScenario.priority  BY <1>2, <1>8 DEF Regular
  <2> QED  BY <2>1, <2>2, <2>3, <2>4, <2>5, <2>6
<1> HIDE DEF s
<1>9. Placed(s)  BY <1>4, <1>7, <1>8
<1>10. Present' = Present \cup {s}
  <2>1. In(shards', global') = In(shards, global) \cup {s}  BY <1>1, <1>5, <1>6, <1>9, Indexed
  <2> QED  BY <1>6, <2>1 DEF Present, In
<1>11. \A j \in 1..Shards : /\ ToSet(shards[j]) \subseteq ToSet(shards'[j])
                            /\ IndexKeys(s, j) # {} => s \in ToSet(shards'[j])
                            /\ \A t \in ToSet(shards'[j]) : t \in ToSet(shards[j]) \/ (t = s /\ IndexKeys(s, j) # {})
  <2> TAKE j \in 1..Shards
  <2>1. shards'[j] = IF IndexKeys(s, j) = {} THEN shards[j] ELSE Append(shards[j], s)
    BY <1>1 DEF IndexedShards
  <2>2. shards[j] \in Seq(Scenario)  BY <1>6 DEF ShardLists
  <2>3. ToSet(Append(shards[j], s)) = ToSet(shards[j]) \cup {s}  BY <1>5, <2>2, Appended
  <2> QED  BY <2>1, <2>3
<1>12. Keyed'  BY <1>3, <1>11 DEF Keyed
<1>13. Full(Present)'
  <2>1. Full(Present)  BY <1>1, <1>3 DEF Arranged
  <2> QED  BY <1>10, <1>11, <2>1 DEF Full
<1>14. DefaultScenario \in Sharded(shards') => DefaultScenario \in Sharded(shards)
  <2> SUFFICES ASSUME NEW j \in 1..Shards, DefaultScenario \in ToSet(shards'[j])
               PROVE  DefaultScenario \in ToSet(shards[j])
    BY DEF Sharded
  <2> QED  BY <1>11, DefaultProper
<1>15. DefaultIsLast(Present)'
  <2> SUFFICES ASSUME DefaultScenario \in Sharded(shards)
               PROVE  \A t \in Present \cup {s} : t = DefaultScenario \/ t.priority > DefaultScenario.priority
    BY <1>10, <1>14 DEF DefaultIsLast
  <2>1. op.kind = "add"  BY <1>1, <1>3, <1>4 DEF Arranged
  <2>2. DefaultScenario \in Present  BY DEF Present, Sharded
  <2>3. s.name # DefaultName  BY <1>8, <2>1, <2>2, Default DEF Others
  <2>4. \A t \in Present : t = DefaultScenario \/ t.priority > DefaultScenario.priority
    BY <1>1, <1>3 DEF Arranged, DefaultIsLast
  <2> QED  BY <1>8, <2>1, <2>3, <2>4
<1>16. Covers(ToSet(next)) /\ op.kind = "load" => Covers(Present)'
  <2> SUFFICES ASSUME Covers(ToSet(next)), op.kind = "load"  PROVE Covers(Present)'  OBVIOUS
  <2>1. Present' \subseteq ToSet(next)  BY <1>5, <1>7, <1>10
  <2>2. AnyDisablesCache(Present') => AnyDisablesCache(ToSet(next))  BY <2>1 DEF AnyDisablesCache
  <2> QED  BY <1>1, <2>2 DEF Covers
<1>17. Covers(Present) /\ op.kind = "add" => Covers(Present)'
  <2> SUFFICES ASSUME Covers(Present), op.kind = "add"  PROVE Covers(Present)'  OBVIOUS
  <2>1. AnyDisablesCache(Present') => AnyDisablesCache(Present) \/ DisablesMatchCache(s)
    BY <1>10 DEF AnyDisablesCache
  <2> QED  BY <1>1, <2>1 DEF Covers
<1>18. Covers(Present)'
  <2>1. op.kind = "load" => Covers(ToSet(next))  BY <1>1, <1>3 DEF Arranged, Held
  <2>2. op.kind = "add" => Covers(Present)  BY <1>1, <1>3 DEF Arranged
  <2> QED  BY <1>4, <1>16, <1>17, <2>1, <2>2
<1>19. /\ \A k \in Mutators : k # p => mut'[k] = mut[k]
       /\ mut'[p].op = op /\ mut'[p].next = next /\ mut'[p].pc = pc
  <2>1. mut \in [Mutators -> MutRecord] /\ mut[p] \in MutRecord  BY DEF Typed
  <2>2. mut[p].op = op /\ mut[p].next = next  OBVIOUS
  <2> DEFINE r == [[mut[p] EXCEPT !.i = to] EXCEPT !.pc = pc]
  <2> HIDE DEF pc, op, to, next
  <2>4. r.op = op /\ r.pc = pc /\ r.next = next  BY <2>1, <2>2 DEF MutRecord
  <2>5. mut' = [mut EXCEPT ![p] = r]  BY <1>1, <2>1
  <2> HIDE DEF r
  <2> QED  BY <2>1, <2>4, <2>5
<1>20. pc \in {"index", "commit"} /\ (pc = "index" => op.kind = "load")  BY <1>4, <1>8
<1>21. mu = p /\ mu' # None  BY <1>1, Inner DEF Held
<1>22. Sound(committed)' /\ IsFiniteSet(committed)'  BY <1>1, <1>3
<1>23. Arranged(p)'
  <2>1. Replaces(p)' = Replaces(p)  BY <1>19 DEF Replaces
  <2>2. Replaces(p) => Sound(ToSet(next))  BY <1>1, <1>3 DEF Arranged, Held
  <2>3. op.kind = "add" => Proper(op.s)  BY <1>1, <1>3 DEF Arranged, Held
  <2>4. op.kind = "load" => Covers(ToSet(mut[p].next))' /\ DefaultScenario \notin Sharded(shards')
    <3> SUFFICES ASSUME op.kind = "load"
                 PROVE  Covers(ToSet(mut[p].next))' /\ DefaultScenario \notin Sharded(shards')
      OBVIOUS
    <3>1. Covers(ToSet(next)) /\ DefaultScenario \notin Sharded(shards)  BY <1>1, <1>3 DEF Arranged, Held
    <3> QED  BY <1>1, <1>14, <1>19, <3>1 DEF Covers
  <2> HIDE DEF pc, op, next
  <2> QED  BY <1>13, <1>15, <1>18, <1>19, <1>20, <2>1, <2>2, <2>3, <2>4 DEF Arranged
<1> QED  BY <1>12, <1>19, <1>21, <1>22, <1>23, ArrangingStep

\* A mutation ends: the lists are ready for the new contents.
LEMMA CommitArranges ==
    ASSUME Typed, Mutex, Mutating, Arranging, NEW p \in Mutators, Commit(p)
    PROVE  Arranging'
<1> DEFINE op == mut[p].op
<1>1. /\ mut[p].pc \in {"commit", "refused"} /\ mut' = [mut EXCEPT ![p].pc = "done"] /\ mu' = None
      /\ committed' = IF mut[p].pc = "refused" THEN committed ELSE PlainEffect(p)
      /\ UNCHANGED <<shards, global, cacheOff>>
  BY DEF Commit
<1>2. committed' = Present  BY CommitStep
<1>3. /\ Arranged(p) /\ Keyed /\ Sound(committed) /\ IsFiniteSet(committed) /\ Contents(p) /\ Prepared(p)
      /\ UniqueNames(committed)
  BY DEF Mutating, Arranging
<1>4. mut \in [Mutators -> MutRecord]  BY DEF Typed
<1>5. mut'[p].pc = "done" /\ \A k \in Mutators : k # p => mut'[k] = mut[k]  BY <1>1, <1>4 DEF MutRecord
<1>6. Arranged(p)'  BY <1>5 DEF Arranged, Held
<1>7. Ready(committed)'
  <2>1. Full(Present) /\ DefaultIsLast(Present) /\ Covers(Present)
    BY <1>1, <1>3 DEF Arranged, Ready, Contents
  <2> QED  BY <1>1, <1>2, <2>1 DEF Ready, Full, DefaultIsLast, Covers
<1>8. IsFiniteSet(committed')  BY <1>2, PresentType
<1>9. Sound(committed')
  <2>1. CASE mut[p].pc = "refused"  BY <1>1, <1>3, <2>1
  <2>2. CASE mut[p].pc = "commit"
    <3>1. committed' = PlainEffect(p)  BY <1>1, <2>2
    <3>2. /\ op.kind \in {"load", "reload", "add", "remove"}
          /\ Replaces(p) <=> op.kind \notin {"add", "remove"}
          /\ op.kind = "add" => op.s \in Declared
      BY <2>2, Kinds
    <3>3. \A name : RemovedContents(committed, name) = Others(committed, name)  BY <1>3, RemovedOnes
    <3>4. \A name : Sound(Others(committed, name))
      <4> TAKE name
      <4>1. Others(committed, name) \in SUBSET committed  BY DEF Others
      <4> QED  BY <1>3, <4>1, Fewer
    <3>5. CASE Replaces(p)
      <4>1. PlainEffect(p) = ToSet(mut[p].next)  BY <3>5 DEF PlainEffect, Replaces
      <4> QED  BY <1>3, <2>2, <3>1, <3>5, <4>1 DEF Arranged, Held
    <3>6. CASE op.kind = "add"
      <4> DEFINE n == ScenarioOrderForAdd(committed, op.s.name)
                 t == [op.s EXCEPT !.order = n]
                 S == Others(committed, op.s.name)
      <4>1. op.s \in Declared /\ Proper(op.s)  BY <1>3, <2>2, <3>2, <3>6 DEF Arranged, Held
      <4>2. committed \in SUBSET Scenario  BY DEF Typed
      <4>3. n \in Nat  BY <1>3, <4>2, OrderType
      <4>4. t.order = n /\ Proper(t)
        <5> HIDE DEF n, op
        <5> QED  BY <4>1, <4>3, Ordered, ValidProper
      <4>5. \A x \in S : x.order # n
        <5>1. UniqueOrders(committed)  BY <1>3 DEF Sound
        <5> QED  BY <1>3, <4>2, <5>1, FreshOrder
      <4>6. PlainEffect(p) = S \cup {t}  BY <3>3, <3>6 DEF PlainEffect, AddedContents
      <4>7. Sound(S)  BY <3>4
      <4> HIDE DEF t, S, n
      <4> QED  BY <3>1, <4>4, <4>5, <4>6, <4>7 DEF Sound, UniqueOrders
    <3>7. CASE op.kind = "remove"
      <4>1. PlainEffect(p) = Others(committed, op.name)  BY <3>3, <3>7 DEF PlainEffect
      <4> QED  BY <3>1, <3>4, <4>1
    <3> QED  BY <3>2, <3>5, <3>6, <3>7
  <2> QED  BY <1>1, <2>1, <2>2
<1>10. Keyed'  BY <1>1, <1>3 DEF Keyed
<1>11. mu = p  BY <1>1, Inner DEF Held
<1> QED  BY <1>5, <1>6, <1>7, <1>8, <1>9, <1>10, <1>11, ArrangingStep

\* A step of a mutation keeps the lists arranged.
LEMMA MutationArranges ==
    ASSUME Regular, Typed, Mutex, Mutating, Arranging, NEW p \in Mutators, MutStep(p)
    PROVE  Arranging'
BY BeginArranges, ReadFileArranges, ListShardArranges, LockArranges, UpdateShardArranges, UpdateGlobalArranges,
   UpdateFlagArranges, IndexScenarioArranges, CommitArranges DEF MutStep

-----------------------------------------------------------------------------
(* What matches have found, beside a mutation *)

\* Nothing of the lists changes while generation is even.
LEMMA StillWhileEven ==
    ASSUME Typed, Mutex, NEW p \in Mutators, MutStep(p), generation % 2 = 0, generation' = generation
    PROVE  shards' = shards
<1>1. mut[p].pc \notin Held
  <2>1. mu = None  BY DEF Mutex
  <2> QED  BY <2>1, RegistryAssumption DEF Mutex
<1>2. CASE Begin(p) \/ ReadFile(p) \/ ListShard(p)  BY <1>2 DEF Begin, ReadFile, ListShard, store
<1>3. CASE Lock(p)  BY <1>3 DEF Lock
<1>4. CASE UpdateShard(p) \/ UpdateGlobal(p) \/ UpdateFlag(p) \/ IndexScenario(p) \/ Commit(p)
  BY <1>1, <1>4 DEF UpdateShard, UpdateGlobal, UpdateFlag, IndexScenario, Commit, Held
<1> QED  BY <1>2, <1>3, <1>4 DEF MutStep

\* What was found before a mutation counts no more after it has begun or ended, and an answer
\* keeps its moment.
LEMMA MatchingBeside ==
    ASSUME MatchInv, Matching, NEW p \in Mutators, MutStep(p)
    PROVE  Matching'
<1>1. mat' = mat /\ ToSet(cache') \subseteq ToSet(cache)  BY Beside, CachingBeside DEF MatchInv
<1>2. generation \in Nat /\ (\/ generation' = generation /\ committed' = committed
                             \/ generation' = generation + 1)
  BY MovesOn DEF MatchInv, Typed
<1>3. ASSUME NEW g \in Nat, g <= generation
      PROVE  g = generation' => generation' = generation /\ committed' = committed
  BY <1>2, <1>3
<1>4. \A e \in ToSet(cache) : e.gen \in Nat /\ e.gen <= generation /\ Fresh(e)
  <2>1. \A e \in ToSet(cache) : e \in Entry  BY DEF MatchInv, Caching, OneEach, ToSet
  <2> QED  BY <2>1 DEF Entry, MatchInv, Found, EntryFound, Remembered, Matching
<1>5. \A e \in ToSet(cache') : Fresh(e)'  BY <1>1, <1>3, <1>4 DEF Fresh
<1>6. ASSUME NEW m \in Matchers  PROVE SearchedBy(m)'
  <2>1. SearchedBy(m) /\ mat[m].gen \in Nat /\ mat[m].gen <= generation /\ mat[m].gen % 2 = 0
    BY DEF Matching, MatchInv, Calling, MatTyped, Found, FoundBy, Remembered
  <2>2. ASSUME mat[m].gen = generation'
        PROVE  generation' = generation /\ committed' = committed /\ shards' = shards
    <3>1. generation' = generation /\ committed' = committed  BY <1>3, <2>1, <2>2
    <3>2. generation % 2 = 0  BY <2>1, <2>2, <3>1
    <3> QED  BY <3>1, <3>2, StillWhileEven DEF MatchInv
  <2>3. ASSUME mat[m].pc \in Active \ {"stable"}, mat[m].gen = generation'  PROVE SoFar(mat[m])'
    <3>1. SoFar(mat[m])  BY <2>1, <2>2, <2>3 DEF SearchedBy
    <3> QED  BY <1>1, <2>2, <2>3, <3>1 DEF SoFar
  <2> QED  BY <1>1, <2>1, <2>3 DEF SearchedBy
<1>7. ASSUME NEW m \in Matchers  PROVE RightAnswer(m)'
  <2>1. RightAnswer(m) /\ mat[m].i \in Nat /\ AnswerOf(m)
    BY DEF Matching, MatchInv, Calling, MatTyped, Answering
  <2>2. window[m] \subseteq window'[m]  BY Widened DEF MatchInv
  <2>3. ASSUME mat[m].pc = "get"  PROVE \E c \in window'[m] : Offered(m, c)'
    <3>1. PICK c \in window[m] : Offered(m, c)  BY <2>1, <2>3 DEF RightAnswer
    <3>2. mat[m].i <= generation  BY <2>1, <2>3 DEF AnswerOf
    <3>3. mat'[m].i = generation' => c = committed'  BY <1>1, <1>3, <2>1, <3>1, <3>2 DEF Offered
    <3>4. Offered(m, c)'  BY <1>1, <3>1, <3>3 DEF Offered
    <3> QED  BY <2>2, <3>1, <3>4
  <2> QED  BY <1>1, <2>1, <2>2, <2>3 DEF RightAnswer
<1> QED  BY <1>5, <1>6, <1>7 DEF Matching

-----------------------------------------------------------------------------
(* What matches find *)

\* A step of a match leaves the lists arranged.
LEMMA ArrangingAside ==
    ASSUME Arranging, UNCHANGED <<shards, global, cacheOff, mu, mut, committed>>
    PROVE  Arranging'
<1>1. \A p \in Mutators : Arranged(p)'
  <2> TAKE p \in Mutators
  <2>1. Arranged(p)  BY DEF Arranging
  <2> QED  BY <2>1, ArrangedBeside
<1>2. Keyed' /\ Sound(committed)' /\ IsFiniteSet(committed)'  BY DEF Arranging, Keyed
<1>3. (mu = None => Ready(committed))'  BY DEF Arranging, Ready, Full, DefaultIsLast, Covers
<1> QED  BY <1>1, <1>2, <1>3 DEF Arranging

\* While the generation of a call lasts, no mutation is under way.
LEMMA SteadyFor ==
    ASSUME MatchInv, Arranging, NEW m \in Matchers, mat[m].gen = generation
    PROVE  Steady
<1>1. generation % 2 = 0  BY DEF MatchInv, Found, FoundBy, Remembered
<1>2. mu = None  BY <1>1 DEF MatchInv, Mutex
<1>3. Present = committed /\ UniqueNames(committed) /\ Typed  BY <1>2 DEF MatchInv, Mutating, ContentsAgree
<1> QED  BY <1>2, <1>3 DEF Arranging, Steady

\* What a call is about to keep serves its key, if the generation lasts.
LEMMA StoredServes ==
    ASSUME MatchInv, Matching, NEW m \in Matchers, mat[m].pc \in Storing, mat[m].gen = generation
    PROVE  Serves(mat[m].best, CacheKey(mat[m].req), committed)
<1>1. MatTyped(mat[m]) /\ FoundBy(m) /\ SearchedBy(m)  BY Own DEF MatchInv, Matching
<1>2. SoFar(mat[m]) /\ mat[m].on  BY <1>1 DEF SearchedBy, Active, MatPcs, Storing
<1>3. Winner(mat[m].best, committed, mat[m].req) /\ ~AnyDisablesCache(committed)
  BY <1>2 DEF SoFar, Active, MatPcs, Storing
<1>4. mat[m].best # Nobody /\ mat[m].req \in Requests  BY <1>1 DEF FoundBy, MatTyped, Storing
<1> QED  BY <1>3, <1>4, WinnerServes

\* The entry that a call puts.
Puts(m, e) == PutBy(m, e) /\ e.key = CacheKey(mat[m].req)

\* One call takes a step: what the others have found stays, and what they are offered, if an
\* answer about to be kept serves its key.
LEMMA OthersMatch ==
    ASSUME MatchInv, Matching, Aside, NEW m \in Matchers, NEW c, Becomes(m, c),
           \A k \in Matchers : k # m => window'[k] = window[k],
           \A e \in ToSet(cache') : e \in ToSet(cache) \/ Puts(m, e),
           c.pc \in Storing => \/ mat[m].pc \in Storing /\ c.best = mat[m].best /\ c.gen = mat[m].gen /\ c.req = mat[m].req
                               \/ c.gen = generation /\ Serves(c.best, CacheKey(c.req), committed),
           SearchedBy(m)', RightAnswer(m)'
    PROVE  Matching'
<1>1. mat'[m] = c /\ \A k \in Matchers : k # m => mat'[k] = mat[k]  BY OneCall DEF MatchInv
<1>2. generation' = generation /\ committed' = committed /\ shards' = shards  BY DEF Aside
<1>3. ASSUME NEW e \in ToSet(cache')  PROVE Fresh(e)'
  <2>1. CASE e \in ToSet(cache)  BY <1>2, <2>1 DEF Matching, Fresh
  <2>2. CASE Puts(m, e)
    <3> SUFFICES ASSUME e.gen = generation  PROVE Serves(e.scenario, e.key, committed)  BY <1>2 DEF Fresh
    <3>1. mat[m].pc \in Storing /\ mat[m].gen = generation  BY <2>2 DEF Puts, PutBy, Storing
    <3>2. Serves(mat[m].best, CacheKey(mat[m].req), committed)  BY <3>1, StoredServes
    <3> QED  BY <2>2, <3>2 DEF Puts, PutBy
  <2> QED  BY <1>3, <2>1, <2>2
<1>4. ASSUME NEW k \in Matchers, k # m  PROVE SearchedBy(k)'
  <2>1. SearchedBy(k) /\ mat'[k] = mat[k]  BY <1>1, <1>4 DEF Matching
  <2>2. SoFar(mat[k])' = SoFar(mat[k])  BY <1>2, <2>1 DEF SoFar
  <2> QED  BY <1>2, <2>1, <2>2 DEF SearchedBy
<1>5. ASSUME NEW k \in Matchers, k # m  PROVE RightAnswer(k)'
  <2>1. RightAnswer(k) /\ mat'[k] = mat[k] /\ window'[k] = window[k]  BY <1>1, <1>5 DEF Matching
  <2>2. ASSUME mat'[k].pc = "get"  PROVE \E d \in window'[k] : Offered(k, d)'
    <3>1. PICK d \in window[k] : Offered(k, d)  BY <2>1, <2>2 DEF RightAnswer
    <3>2. ASSUME NEW e \in ToSet(cache'), e.gen = mat[k].i  PROVE Serves(e.scenario, e.key, d)
      <4>1. CASE e \in ToSet(cache)  BY <3>1, <3>2, <4>1 DEF Offered
      <4>2. CASE Puts(m, e)  BY <3>1, <3>2, <4>2 DEF Offered, Puts, PutBy, Storing
      <4> QED  BY <3>2, <4>1, <4>2
    <3>3. ASSUME NEW j \in Matchers, mat'[j].pc \in Storing, mat'[j].gen = mat[k].i
          PROVE  Serves(mat'[j].best, CacheKey(mat'[j].req), d)
      <4>1. CASE j # m  BY <1>1, <3>1, <3>3, <4>1 DEF Offered
      <4>2. CASE j = m
        <5>1. c.pc \in Storing /\ c.gen = mat[k].i  BY <1>1, <3>3, <4>2
        <5>2. CASE mat[m].pc \in Storing /\ c.best = mat[m].best /\ c.gen = mat[m].gen /\ c.req = mat[m].req
          BY <1>1, <3>1, <4>2, <5>1, <5>2 DEF Offered
        <5>3. CASE c.gen = generation /\ Serves(c.best, CacheKey(c.req), committed)
          BY <1>1, <3>1, <4>2, <5>1, <5>3 DEF Offered
        <5> QED  BY <5>1, <5>2, <5>3
      <4> QED  BY <4>1, <4>2
    <3>4. mat[k].i = generation => d = committed  BY <3>1 DEF Offered
    <3>5. Offered(k, d)'  BY <1>2, <2>1, <3>2, <3>3, <3>4 DEF Offered
    <3> QED  BY <2>1, <3>1, <3>5
  <2> QED  BY <2>1, <2>2 DEF RightAnswer
<1> QED  BY <1>3, <1>4, <1>5 DEF Matching

\* A step that touches neither the cache nor a window, and gives no answer.
LEMMA NoAnswerYet ==
    ASSUME MatchInv, Matching, Aside, cache' = cache, window' = window, NEW m \in Matchers, NEW c, Becomes(m, c),
           c.pc \notin Storing \cup {"get"}, c.pc = "done" => c.out = "error", SearchedBy(m)'
    PROVE  Matching'
<1>1. mat'[m] = c  BY OneCall DEF MatchInv
<1>2. RightAnswer(m)'  BY <1>1 DEF RightAnswer
<1> QED  BY <1>2, OthersMatch

\* A call begins with nothing found.
LEMMA CallMatches ==
    ASSUME MatchInv, Matching, NEW m \in Matchers, Call(m)
    PROVE  Matching'
<1>1. PICK r \in Requests :
          mat' = [mat EXCEPT ![m] = [IdleMat EXCEPT !.req = r, !.pc = "stable", !.calls = mat[m].calls + 1]]
  BY DEF Call
<1>2. PICK c : c = [IdleMat EXCEPT !.req = r, !.pc = "stable", !.calls = mat[m].calls + 1]  OBVIOUS
<1>3. Aside /\ cache' = cache /\ window' = [window EXCEPT ![m] = {committed}]
  BY DEF Call, Aside, store
<1>4. Becomes(m, c)  BY <1>1, <1>2 DEF Becomes
<1>5. DOMAIN IdleMat = MatFields /\ IdleMat.best = Nobody /\ IdleMat.seen = {}  BY DEF IdleMat, MatFields
<1>6. c.pc = "stable" /\ c.best = Nobody /\ c.seen = {}  BY <1>2, <1>5 DEF MatFields
<1>7. mat'[m] = c  BY <1>4, OneCall DEF MatchInv
<1>8. SearchedBy(m)' /\ RightAnswer(m)'  BY <1>6, <1>7 DEF SearchedBy, RightAnswer, Storing
<1>9. \A k \in Matchers : k # m => window'[k] = window[k]  BY <1>3 DEF MatchInv, Calling
<1> QED  BY <1>3, <1>4, <1>6, <1>8, <1>9, OthersMatch DEF Storing

\* The generation is read and nothing was found.
LEMMA StableGenerationMatches ==
    ASSUME MatchInv, Matching, NEW m \in Matchers, StableGeneration(m)
    PROVE  Matching'
<1>1. /\ mat[m].pc = "stable" /\ mat' = [mat EXCEPT ![m].gen = generation, ![m].pc = "flag"]
      /\ Aside /\ cache' = cache /\ window' = window
  BY DEF StableGeneration, Aside, store
<1>2. DOMAIN mat[m] = MatFields /\ SearchedBy(m)  BY Own DEF MatchInv, Matching
<1>3. PICK c : c = [[mat[m] EXCEPT !.gen = generation] EXCEPT !.pc = "flag"]  OBVIOUS
<1>4. Becomes(m, c)  BY <1>1, <1>3 DEF Becomes, MatchInv, Calling
<1>5. c.pc = "flag" /\ c.best = mat[m].best /\ c.seen = mat[m].seen  BY <1>2, <1>3 DEF MatFields
<1>6. mat'[m] = c  BY <1>4, OneCall DEF MatchInv
<1>7. SearchedBy(m)'  BY <1>1, <1>2, <1>5, <1>6 DEF SearchedBy, SoFar, Storing
<1> QED  BY <1>1, <1>4, <1>5, <1>7, NoAnswerYet DEF Storing

\* If the cache is on, none of the contents asks for it to be off.
LEMMA ReadCacheFlagMatches ==
    ASSUME MatchInv, Arranging, Matching, NEW m \in Matchers, ReadCacheFlag(m)
    PROVE  Matching'
<1> DEFINE on == CacheCap > 0 /\ ~cacheOff
           pc == IF on THEN "ask" ELSE "shard"
<1>1. /\ mat[m].pc = "flag" /\ mat' = [mat EXCEPT ![m].on = on, ![m].pc = pc]
      /\ Aside /\ cache' = cache /\ window' = window
  BY DEF ReadCacheFlag, Aside, store
<1>2. DOMAIN mat[m] = MatFields /\ SearchedBy(m)  BY Own DEF MatchInv, Matching
<1>3. pc \in {"ask", "shard"} /\ (on => ~cacheOff)  OBVIOUS
<1> HIDE DEF on, pc
<1>4. PICK c : c = [[mat[m] EXCEPT !.on = on] EXCEPT !.pc = pc]  OBVIOUS
<1>5. Becomes(m, c)  BY <1>1, <1>4 DEF Becomes, MatchInv, Calling
<1>6. c.pc = pc /\ c.on = on /\ c.best = mat[m].best /\ c.seen = mat[m].seen /\ c.gen = mat[m].gen
  BY <1>2, <1>4 DEF MatFields
<1>7. mat'[m] = c  BY <1>5, OneCall DEF MatchInv
<1>8. ASSUME c.gen = generation, c.on  PROVE ~AnyDisablesCache(committed)
  <2>1. Covers(committed)
    <3>1. Steady  BY <1>6, <1>8, SteadyFor
    <3> QED  BY <3>1 DEF Steady, Ready
  <2> QED  BY <1>3, <1>6, <1>8, <2>1 DEF Covers
<1>9. SearchedBy(m)'
  <2>1. generation' = generation /\ committed' = committed  BY <1>1 DEF Aside
  <2>2. c.gen = generation => SoFar(c)'  BY <1>3, <1>6, <1>8, <2>1 DEF SoFar, Storing
  <2> QED  BY <1>1, <1>2, <1>3, <1>6, <1>7, <2>1, <2>2 DEF SearchedBy, Storing
<1> QED  BY <1>1, <1>3, <1>5, <1>6, <1>9, NoAnswerYet DEF Storing

\* What is kept for the generation asked for serves the contents now in force.
LEMMA ReadCacheGenerationMatches ==
    ASSUME MatchInv, Matching, NEW m \in Matchers, ReadCacheGeneration(m)
    PROVE  Matching'
<1>1. /\ mat[m].pc = "ask" /\ mat' = [mat EXCEPT ![m].i = generation, ![m].pc = "get"]
      /\ Aside /\ cache' = cache /\ window' = window
  BY DEF ReadCacheGeneration, Aside, store
<1>2. DOMAIN mat[m] = MatFields /\ AnswerOf(m) /\ SearchedBy(m)  BY Own DEF MatchInv, Matching
<1>3. PICK c : c = [[mat[m] EXCEPT !.i = generation] EXCEPT !.pc = "get"]  OBVIOUS
<1>4. Becomes(m, c)  BY <1>1, <1>3 DEF Becomes, MatchInv, Calling
<1>5. /\ c.pc = "get" /\ c.i = generation /\ c.on = mat[m].on
      /\ c.best = mat[m].best /\ c.seen = mat[m].seen /\ c.gen = mat[m].gen
  BY <1>2, <1>3 DEF MatFields
<1>6. mat'[m] = c /\ \A k \in Matchers : k # m => mat'[k] = mat[k]  BY <1>4, OneCall DEF MatchInv
<1>7. generation' = generation /\ committed' = committed  BY <1>1 DEF Aside
<1>8. SearchedBy(m)'
  <2>1. c.gen = generation => SoFar(mat[m])  BY <1>1, <1>2, <1>5 DEF SearchedBy, Active, MatPcs
  <2>2. c.gen = generation => SoFar(c)'  BY <1>1, <1>5, <1>7, <2>1 DEF SoFar, Storing, Active, MatPcs
  <2> QED  BY <1>1, <1>2, <1>5, <1>6, <1>7, <2>2 DEF SearchedBy, Storing
<1>9. PICK now : now = committed  OBVIOUS
<1>10. Offered(m, now)'
  <2>1. \A e \in ToSet(cache) : e.gen = generation => Serves(e.scenario, e.key, now)
    BY <1>9 DEF Matching, Fresh
  <2>2. \A k \in Matchers : mat[k].pc \in Storing /\ mat[k].gen = generation =>
            Serves(mat[k].best, CacheKey(mat[k].req), now)
    BY <1>9, StoredServes
  <2>3. \A k \in Matchers : mat'[k].pc \in Storing /\ mat'[k].gen = generation =>
            Serves(mat'[k].best, CacheKey(mat'[k].req), now)
    BY <1>5, <1>6, <2>2 DEF Storing
  <2> QED  BY <1>1, <1>5, <1>6, <1>7, <1>9, <2>1, <2>3 DEF Offered
<1>11. RightAnswer(m)'
  <2>1. committed \in window[m]  BY <1>1, <1>2 DEF AnswerOf, Active, MatPcs
  <2>2. \E d \in window'[m] : Offered(m, d)'  BY <1>1, <1>9, <1>10, <2>1
  <2> QED  BY <1>5, <1>6, <2>2 DEF RightAnswer, Storing
<1>12. /\ \A k \in Matchers : k # m => window'[k] = window[k]
       /\ \A e \in ToSet(cache') : e \in ToSet(cache) \/ Puts(m, e)
  BY <1>1
<1> QED  BY <1>1, <1>4, <1>5, <1>8, <1>11, <1>12, OthersMatch DEF Storing

\* A hit is the answer of the contents that the call asked for.
LEMMA CacheGetMatches ==
    ASSUME MatchInv, Matching, NEW m \in Matchers, CacheGet(m)
    PROVE  Matching'
<1> DEFINE at == {i \in EntryAt(CacheKey(mat[m].req)) : cache[i].gen = mat[m].i}
<1>1. mat[m].pc = "get" /\ Aside /\ window' = window  BY DEF CacheGet, Aside
<1>2. MatTyped(mat[m]) /\ DOMAIN mat[m] = MatFields /\ SearchedBy(m) /\ RightAnswer(m)
  BY Own DEF MatchInv, Matching
<1>3. generation' = generation /\ committed' = committed  BY <1>1 DEF Aside
<1>4. OneEach(cache)  BY DEF MatchInv, Caching
<1>5. CASE at = {}
  <2>1. cache' = cache /\ mat' = [mat EXCEPT ![m].pc = "shard", ![m].i = 1]  BY <1>5 DEF CacheGet
  <2>2. PICK c : c = [[mat[m] EXCEPT !.pc = "shard"] EXCEPT !.i = 1]  OBVIOUS
  <2>3. Becomes(m, c)  BY <2>1, <2>2 DEF Becomes, MatchInv, Calling
  <2>4. /\ c.pc = "shard" /\ c.on = mat[m].on
        /\ c.best = mat[m].best /\ c.seen = mat[m].seen /\ c.gen = mat[m].gen
    BY <1>2, <2>2 DEF MatFields
  <2>5. mat'[m] = c  BY <2>3, OneCall DEF MatchInv
  <2>6. SearchedBy(m)'
    <3>1. c.gen = generation => SoFar(mat[m])  BY <1>1, <1>2, <2>4 DEF SearchedBy, Active, MatPcs
    <3>2. c.gen = generation => SoFar(c)'  BY <1>1, <1>3, <2>4, <3>1 DEF SoFar, Storing, Active, MatPcs
    <3> QED  BY <1>1, <1>2, <1>3, <2>4, <2>5, <3>2 DEF SearchedBy, Storing
  <2> QED  BY <1>1, <2>1, <2>3, <2>4, <2>6, NoAnswerYet DEF Storing
<1>6. CASE at # {}
  <2> DEFINE k == Min(at)
             s == cache[k].scenario
  <2>1. cache' = MovedToFront(k) /\ mat' = [mat EXCEPT ![m].pc = "done", ![m].out = "hit", ![m].i = 1, ![m].best = s]
    BY <1>6 DEF CacheGet
  <2>2. k \in at
    <3>1. cache \in Seq(Entry)  BY <1>4 DEF OneEach
    <3>2. at \in SUBSET Nat  BY <3>1 DEF EntryAt
    <3> HIDE DEF at
    <3> QED  BY <1>6, <3>2, Least
  <2>3. k \in DOMAIN cache /\ cache[k].gen = mat[m].i /\ cache[k].key = CacheKey(mat[m].req)  BY <2>2 DEF EntryAt
  <2> HIDE DEF k
  <2>4. cache[k] \in ToSet(cache)  BY <1>4, <2>3 DEF OneEach, ToSet
  <2>5. PICK d \in window[m] : Offered(m, d)  BY <1>1, <1>2 DEF RightAnswer
  <2>6. mat[m].req \in Requests /\ d \in SUBSET Scenario
    BY <1>1, <1>2 DEF MatTyped, MatchInv, Calling
  <2>7. Serves(s, CacheKey(mat[m].req), d)  BY <2>3, <2>4, <2>5 DEF Offered
  <2> HIDE DEF s
  <2>8. s # Nobody /\ Winner(s, d, mat[m].req)  BY <2>6, <2>7 DEF Serves
  <2>9. s = PlainAnswer(d, mat[m].req)  BY <2>6, <2>8, WinnerIsFirst
  <2>10. PICK c : c = [[[[mat[m] EXCEPT !.pc = "done"] EXCEPT !.out = "hit"] EXCEPT !.i = 1] EXCEPT !.best = s]  OBVIOUS
  <2>11. Becomes(m, c)  BY <2>1, <2>10 DEF Becomes, MatchInv, Calling
  <2>12. c.pc = "done" /\ c.best = s /\ c.req = mat[m].req  BY <1>2, <2>10 DEF MatFields
  <2>13. mat'[m] = c  BY <2>11, OneCall DEF MatchInv
  <2>14. SearchedBy(m)'  BY <2>12, <2>13 DEF SearchedBy, Storing, Active
  <2>15. RightAnswer(m)'  BY <1>1, <2>5, <2>9, <2>12, <2>13 DEF RightAnswer, Storing
  <2>16. ToSet(cache') = ToSet(cache)  BY <1>4, <2>1, <2>3, CacheMoved
  <2>17. /\ \A j \in Matchers : j # m => window'[j] = window[j]
         /\ \A e \in ToSet(cache') : e \in ToSet(cache) \/ Puts(m, e)
    BY <1>1, <2>16
  <2> QED  BY <1>1, <2>11, <2>12, <2>14, <2>15, <2>17, OthersMatch DEF Storing
<1> QED  BY <1>5, <1>6

\* What call o is after it has folded candidates in: it ends if one of them fails, and
\* otherwise has the best.
Folded(o, q, a, b, c) ==
    /\ DOMAIN c = MatFields /\ c.on = o.on /\ c.i = 1 /\ c.gen = o.gen /\ c.req = o.req /\ c.seen = o.seen
    /\ \/ c.pc = "done" /\ c.out = "error"
       \/ /\ Evaluate(q, o, o.req).err = FALSE /\ c.best = Evaluate(q, o, o.req).best
          /\ c.pc = IF c.best # Nobody THEN a ELSE b

\* So it is.
LEMMA AbsorbedBest ==
    ASSUME NEW m \in Matchers, DOMAIN mat[m] = MatFields, NEW q, NEW a, NEW b, NEW c, c = Absorb(m, q, a, b)
    PROVE  Folded(mat[m], q, a, b, c)
<1> DEFINE r == Evaluate(q, mat[m], mat[m].req)
<1>0. r.err \in BOOLEAN  BY DEF Evaluate
<1> HIDE DEF r
<1>1. PICK pc : pc = IF r.err THEN "done" ELSE IF r.best # Nobody THEN a ELSE b  OBVIOUS
<1>2. PICK out : out = IF r.err THEN "error" ELSE mat[m].out  OBVIOUS
<1>3. c = [mat[m] EXCEPT !.best = r.best, !.caps = r.caps, !.branch = r.branch, !.i = 1, !.out = out, !.pc = pc]
  BY <1>1, <1>2 DEF Absorb, r
<1>4. /\ DOMAIN c = MatFields /\ c.pc = pc /\ c.out = out /\ c.best = r.best /\ c.i = 1 /\ c.on = mat[m].on
      /\ c.gen = mat[m].gen /\ c.req = mat[m].req /\ c.seen = mat[m].seen
  BY <1>3 DEF MatFields
<1>5. CASE r.err = TRUE  BY <1>1, <1>2, <1>4, <1>5 DEF Folded
<1>6. CASE r.err = FALSE
  <2>1. c.pc = IF c.best # Nobody THEN a ELSE b  BY <1>1, <1>4, <1>6
  <2> QED  BY <1>4, <1>6, <2>1 DEF r, Folded
<1> QED  BY <1>0, <1>5, <1>6

\* A step from one part of the search to a later one.
LEMMA SearchGoesOn ==
    ASSUME MatchInv, Matching, Aside, cache' = cache, window' = window, NEW m \in Matchers,
           mat[m].pc \in {"shard", "fallback", "global"}, NEW c, Becomes(m, c), c.gen = mat[m].gen,
           c.on = mat[m].on,
           \/ c.pc = "done" /\ c.out = "error"
           \/ /\ c.pc \in {"fallback", "global", "check"}
              /\ c.gen = generation =>
                    /\ c.pc = "fallback" => /\ c.seen = UNION {ToSet(shards[j]) : j \in 1..c.i - 1}
                                            /\ Winner(c.best, c.seen, c.req)
                    /\ c.pc = "global" => Winner(c.best, Sharded(shards), c.req)
                    /\ c.pc = "check" => Winner(c.best, committed, c.req)
    PROVE  Matching'
<1>1. mat'[m] = c  BY OneCall DEF MatchInv
<1>2. SearchedBy(m)  BY DEF Matching
<1>3. generation' = generation /\ committed' = committed /\ shards' = shards  BY DEF Aside
<1>4. CASE c.pc = "done" /\ c.out = "error"
  <2>1. SearchedBy(m)'  BY <1>1, <1>4 DEF SearchedBy, Storing, Active
  <2> QED  BY <1>4, <2>1, NoAnswerYet DEF Storing
<1>5. CASE c.pc \in {"fallback", "global", "check"}
  <2>1. ASSUME c.gen = generation  PROVE SoFar(c)'
    <3>1. SoFar(mat[m])  BY <1>2, <2>1 DEF SearchedBy, Active, MatPcs
    <3>2. c.on => ~AnyDisablesCache(committed)  BY <3>1 DEF SoFar, Active, MatPcs
    <3> QED  BY <1>3, <1>5, <2>1, <3>2 DEF SoFar, Storing
  <2>2. SearchedBy(m)'  BY <1>1, <1>3, <1>5, <2>1 DEF SearchedBy, Storing
  <2> QED  BY <1>5, <2>2, NoAnswerYet DEF Storing
<1> QED  BY <1>4, <1>5

\* The index of a shard decides for all shards, or the fallback begins with nothing.
LEMMA MatchInShardMatches ==
    ASSUME Regular, MatchInv, Arranging, Matching, NEW m \in Matchers, MatchInShard(m)
    PROVE  Matching'
<1> DEFINE q == IndexCandidates(ShardOf[mat[m].req.path], mat[m].req)
<1>1. /\ mat[m].pc = "shard" /\ Aside /\ cache' = cache /\ window' = window
      /\ mat' = [mat EXCEPT ![m] = Absorb(m, q, "global", "fallback")]
  BY DEF MatchInShard, Aside, store
<1>2. MatTyped(mat[m]) /\ DOMAIN mat[m] = MatFields /\ SearchedBy(m)  BY Own DEF MatchInv, Matching
<1>3. mat[m].req \in Requests /\ mat[m].best = Nobody /\ mat[m].seen = {}  BY <1>1, <1>2 DEF MatTyped, SearchedBy
<1>4. PICK c : c = Absorb(m, q, "global", "fallback")  OBVIOUS
<1>5. Becomes(m, c)  BY <1>1, <1>4 DEF Becomes
<1> HIDE DEF q
<1>6. /\ c.on = mat[m].on /\ c.i = 1 /\ c.gen = mat[m].gen /\ c.req = mat[m].req /\ c.seen = mat[m].seen
      /\ \/ c.pc = "done" /\ c.out = "error"
         \/ /\ Evaluate(q, mat[m], mat[m].req).err = FALSE
            /\ c.best = Evaluate(q, mat[m], mat[m].req).best
            /\ c.pc = IF c.best # Nobody THEN "global" ELSE "fallback"
  <2>1. PICK a, b : a = "global" /\ b = "fallback"  OBVIOUS
  <2>2. Folded(mat[m], q, a, b, c)  BY <1>2, <1>4, <2>1, AbsorbedBest
  <2> QED  BY <2>1, <2>2 DEF Folded
<1>7. CASE c.pc = "done" /\ c.out = "error"  BY <1>1, <1>5, <1>6, <1>7, SearchGoesOn
<1>8. CASE /\ Evaluate(q, mat[m], mat[m].req).err = FALSE
           /\ c.best = Evaluate(q, mat[m], mat[m].req).best
           /\ c.pc = IF c.best # Nobody THEN "global" ELSE "fallback"
  <2>1. c.pc \in {"fallback", "global"} /\ (c.pc = "global" <=> c.best # Nobody)  BY <1>8
  <2>2. ASSUME c.gen = generation, c.pc = "global"  PROVE Winner(c.best, Sharded(shards), c.req)
    <3>1. Steady  BY <1>6, <2>2, SteadyFor
    <3>2. PICK r \in Requests : r = mat[m].req  BY <1>3
    <3>3. PICK o : o = mat[m]  OBVIOUS
    <3>4. /\ c.best = Evaluate(IndexCandidates(ShardOf[r.path], r), o, r).best
          /\ Evaluate(IndexCandidates(ShardOf[r.path], r), o, r).err = FALSE
          /\ o.best = Nobody /\ c.best # Nobody
      BY <1>3, <1>8, <2>1, <2>2, <3>2, <3>3 DEF q
    <3> QED  BY <1>6, <3>1, <3>2, <3>4, ShardDecides
  <2>3. c.pc = "fallback" => /\ c.seen = UNION {ToSet(shards[j]) : j \in 1..c.i - 1}
                             /\ Winner(c.best, c.seen, c.req)
    <3>1. 1..c.i - 1 = {}  BY <1>6
    <3>2. UNION {ToSet(shards[j]) : j \in 1..c.i - 1} = {}  BY <3>1
    <3>3. c.pc = "fallback" => c.best = Nobody  BY <2>1
    <3>4. Winner(Nobody, {}, c.req)  BY DEF Winner
    <3> QED  BY <1>3, <1>6, <3>2, <3>3, <3>4
  <2> QED  BY <1>1, <1>5, <1>6, <2>1, <2>2, <2>3, SearchGoesOn
<1> QED  BY <1>6, <1>7, <1>8

\* The fallback has the best of the shards that it has walked through.
LEMMA FallbackShardMatches ==
    ASSUME MatchInv, Arranging, Matching, NEW m \in Matchers, FallbackShard(m)
    PROVE  Matching'
<1> DEFINE i == mat[m].i
           q == FreshIn(i, mat[m].seen)
           next == IF i = Shards THEN "global" ELSE "fallback"
           to == IF i = Shards THEN 1 ELSE i + 1
           seen == mat[m].seen \cup ToSet(shards[i])
<1>1. /\ mat[m].pc = "fallback" /\ Aside /\ cache' = cache /\ window' = window
      /\ mat' = [mat EXCEPT ![m] = [Absorb(m, q, next, next) EXCEPT !.i = to, !.seen = seen]]
  BY DEF FallbackShard, Aside, store, FreshIn
<1>2. MatTyped(mat[m]) /\ DOMAIN mat[m] = MatFields /\ SearchedBy(m)  BY Own DEF MatchInv, Matching
<1>3. mat[m].req \in Requests /\ i \in 1..Shards /\ Shards \in Nat
  BY <1>1, <1>2, RegistryAssumption DEF MatTyped
<1>4. next \in {"global", "fallback"} /\ (i = Shards => next = "global") /\ (i # Shards => next = "fallback" /\ to = i + 1)
  OBVIOUS
<1> HIDE DEF q, seen, next, to
<1>5. PICK a : a = Absorb(m, q, next, next)  OBVIOUS
<1>6. /\ DOMAIN a = MatFields /\ a.on = mat[m].on /\ a.gen = mat[m].gen /\ a.req = mat[m].req
      /\ \/ a.pc = "done" /\ a.out = "error"
         \/ /\ Evaluate(q, mat[m], mat[m].req).err = FALSE
            /\ a.best = Evaluate(q, mat[m], mat[m].req).best
            /\ a.pc = next
  <2>1. Folded(mat[m], q, next, next, a)  BY <1>2, <1>5, AbsorbedBest
  <2> QED  BY <2>1 DEF Folded
<1>7. PICK c : c = [a EXCEPT !.i = to, !.seen = seen]  OBVIOUS
<1>8. /\ c.pc = a.pc /\ c.out = a.out /\ c.gen = mat[m].gen /\ c.req = mat[m].req /\ c.on = mat[m].on
      /\ c.best = a.best /\ c.i = to /\ c.seen = seen
  BY <1>6, <1>7 DEF MatFields
<1>9. Becomes(m, c)  BY <1>1, <1>5, <1>7 DEF Becomes
<1>10. CASE a.pc = "done" /\ a.out = "error"  BY <1>1, <1>8, <1>9, <1>10, SearchGoesOn
<1>11. CASE /\ Evaluate(q, mat[m], mat[m].req).err = FALSE
            /\ a.best = Evaluate(q, mat[m], mat[m].req).best
            /\ a.pc = next
  <2>1. ASSUME c.gen = generation
        PROVE  /\ seen = UNION {ToSet(shards[j]) : j \in 1..i}
               /\ Winner(c.best, seen, c.req)
    <3>1. Steady  BY <1>8, <2>1, SteadyFor
    <3>2. SoFar(mat[m])  BY <1>1, <1>2, <1>8, <2>1 DEF SearchedBy, Active, MatPcs
    <3>3. mat[m].seen = UNION {ToSet(shards[j]) : j \in 1..i - 1} /\ Winner(mat[m].best, mat[m].seen, mat[m].req)
      BY <1>1, <3>2 DEF SoFar
    <3>4. 1..i - 1 \subseteq 1..Shards /\ 1..i = (1..i - 1) \cup {i}  BY <1>3
    <3>5. mat[m].seen \subseteq Sharded(shards)  BY <3>3, <3>4 DEF Sharded
    <3>6. PICK k \in 1..Shards : k = i  BY <1>3
    <3>7. PICK r \in Requests : r = mat[m].req  BY <1>3
    <3>8. PICK o : o = mat[m]  OBVIOUS
    <3>9. Winner(Evaluate(FreshIn(k, o.seen), o, r).best, o.seen \cup ToSet(shards[k]), r)
      <4>1. Evaluate(FreshIn(k, o.seen), o, r).err = FALSE  BY <1>11, <3>6, <3>7, <3>8 DEF q
      <4>2. o.seen \subseteq Sharded(shards) /\ Winner(o.best, o.seen, r)  BY <3>3, <3>5, <3>7, <3>8
      <4> QED  BY <3>1, <4>1, <4>2, FallbackDecides
    <3>10. Winner(c.best, seen, c.req)  BY <1>8, <1>11, <3>6, <3>7, <3>8, <3>9 DEF q, seen
    <3>11. seen = UNION {ToSet(shards[j]) : j \in 1..i}
      <4> DEFINE u(n) == UNION {ToSet(shards[j]) : j \in 1..n}
      <4>1. \A x : x \in u(i) <=> \E j \in 1..i : x \in ToSet(shards[j])  OBVIOUS
      <4>2. \A x : x \in mat[m].seen <=> \E j \in 1..i - 1 : x \in ToSet(shards[j])  BY <3>3
      <4>3. \A x : x \in seen <=> x \in mat[m].seen \/ x \in ToSet(shards[i])  BY DEF seen
      <4>4. \A x : x \in seen <=> x \in u(i)
        <5> HIDE DEF u, i
        <5> QED  BY <3>4, <4>1, <4>2, <4>3
      <4> QED  BY <4>4
    <3> QED  BY <3>10, <3>11
  <2>2. c.pc = "fallback" => c.i - 1 = i  BY <1>3, <1>4, <1>8, <1>11
  <2>3. c.pc = "global" => i = Shards  BY <1>4, <1>8, <1>11
  <2>4. ASSUME c.gen = generation, c.pc = "fallback"
        PROVE  c.seen = UNION {ToSet(shards[j]) : j \in 1..c.i - 1} /\ Winner(c.best, c.seen, c.req)
    BY <1>8, <2>1, <2>2, <2>4
  <2>5. ASSUME c.gen = generation, c.pc = "global"  PROVE Winner(c.best, Sharded(shards), c.req)
    BY <2>1, <2>3, <2>5 DEF Sharded
  <2>6. c.pc \in {"fallback", "global"}  BY <1>4, <1>8, <1>11
  <2> QED  BY <1>1, <1>8, <1>9, <2>4, <2>5, <2>6, SearchGoesOn
<1> QED  BY <1>6, <1>10, <1>11

\* After the global list the call has the best of the contents.
LEMMA MatchGlobalMatches ==
    ASSUME MatchInv, Arranging, Matching, NEW m \in Matchers, MatchGlobal(m)
    PROVE  Matching'
<1>1. /\ mat[m].pc = "global" /\ Aside /\ cache' = cache /\ window' = window
      /\ mat' = [mat EXCEPT ![m] = Absorb(m, global, "check", "check")]
  BY DEF MatchGlobal, Aside, store
<1>2. MatTyped(mat[m]) /\ DOMAIN mat[m] = MatFields /\ SearchedBy(m)  BY Own DEF MatchInv, Matching
<1>3. mat[m].req \in Requests  BY <1>1, <1>2 DEF MatTyped
<1>4. PICK c : c = Absorb(m, global, "check", "check")  OBVIOUS
<1>5. Becomes(m, c)  BY <1>1, <1>4 DEF Becomes
<1>6. /\ c.on = mat[m].on /\ c.gen = mat[m].gen /\ c.req = mat[m].req
      /\ \/ c.pc = "done" /\ c.out = "error"
         \/ /\ Evaluate(global, mat[m], mat[m].req).err = FALSE
            /\ c.best = Evaluate(global, mat[m], mat[m].req).best
            /\ c.pc = "check"
  <2>1. PICK a : a = "check"  OBVIOUS
  <2>2. Folded(mat[m], global, a, a, c)  BY <1>2, <1>4, <2>1, AbsorbedBest
  <2> QED  BY <2>1, <2>2 DEF Folded
<1>7. CASE c.pc = "done" /\ c.out = "error"  BY <1>1, <1>5, <1>6, <1>7, SearchGoesOn
<1>8. CASE /\ Evaluate(global, mat[m], mat[m].req).err = FALSE
           /\ c.best = Evaluate(global, mat[m], mat[m].req).best
           /\ c.pc = "check"
  <2>1. ASSUME c.gen = generation  PROVE Winner(c.best, committed, c.req)
    <3>1. Steady  BY <1>6, <2>1, SteadyFor
    <3>2. SoFar(mat[m])  BY <1>1, <1>2, <1>6, <2>1 DEF SearchedBy, Active, MatPcs
    <3>3. Winner(mat[m].best, Sharded(shards), mat[m].req)  BY <1>1, <3>2 DEF SoFar
    <3>4. PICK o : o = mat[m]  OBVIOUS
    <3>5. PICK r \in Requests : r = mat[m].req  BY <1>3
    <3>6. Winner(Evaluate(global, o, r).best, committed, r)  BY <1>8, <3>1, <3>3, <3>4, <3>5, GlobalDecides
    <3> QED  BY <1>6, <1>8, <3>4, <3>5, <3>6
  <2> QED  BY <1>1, <1>5, <1>6, <1>8, <2>1, SearchGoesOn
<1> QED  BY <1>6, <1>7, <1>8

\* An answer that stands is that of the contents now in force.
LEMMA CheckGenerationMatches ==
    ASSUME MatchInv, Arranging, Matching, NEW m \in Matchers, CheckGeneration(m)
    PROVE  Matching'
<1> DEFINE c0 == mat[m]
<1>1. /\ mat[m].pc = "check" /\ Aside /\ cache' = cache /\ window' = window
      /\ mat' = [mat EXCEPT ![m] =
               IF generation # c0.gen THEN [c0 EXCEPT !.pc = "stable", !.best = Nobody, !.seen = {}]
               ELSE IF c0.best = Nobody THEN [c0 EXCEPT !.pc = "done", !.out = "found", !.best = DefaultScenario]
               ELSE [c0 EXCEPT !.pc = IF c0.on THEN "store" ELSE "done", !.out = "found"]]
  BY DEF CheckGeneration, Aside, store
<1>2. MatTyped(mat[m]) /\ DOMAIN mat[m] = MatFields /\ AnswerOf(m) /\ SearchedBy(m)  BY Own DEF MatchInv, Matching
<1>3. generation' = generation /\ committed' = committed  BY <1>1 DEF Aside
<1>4. committed \in window[m] /\ mat[m].req \in Requests  BY <1>1, <1>2 DEF AnswerOf, Active, MatPcs, MatTyped
<1>5. /\ \A k \in Matchers : k # m => window'[k] = window[k]
      /\ \A e \in ToSet(cache') : e \in ToSet(cache) \/ Puts(m, e)
  BY <1>1
<1>6. ASSUME generation = mat[m].gen
      PROVE  /\ Winner(mat[m].best, committed, mat[m].req)
             /\ PlainAnswer(committed, mat[m].req) = IF mat[m].best = Nobody THEN DefaultScenario ELSE mat[m].best
             /\ mat[m].on => ~AnyDisablesCache(committed)
  <2>1. SoFar(mat[m])  BY <1>1, <1>2, <1>6 DEF SearchedBy, Active, MatPcs
  <2>2. Winner(mat[m].best, committed, mat[m].req) /\ (mat[m].on => ~AnyDisablesCache(committed))
    BY <1>1, <2>1 DEF SoFar, Active, MatPcs
  <2>3. committed \in SUBSET Scenario  BY DEF MatchInv, Typed
  <2> QED  BY <2>2, <2>3, WinnerIsFirst
<1>7. CASE generation # mat[m].gen
  <2>1. PICK c : c = [mat[m] EXCEPT !.pc = "stable", !.best = Nobody, !.seen = {}]  OBVIOUS
  <2>2. Becomes(m, c)  BY <1>1, <1>7, <2>1 DEF Becomes
  <2>3. c.pc = "stable" /\ c.best = Nobody /\ c.seen = {}  BY <1>2, <2>1 DEF MatFields
  <2>4. mat'[m] = c  BY <2>2, OneCall DEF MatchInv
  <2>5. SearchedBy(m)'  BY <2>3, <2>4 DEF SearchedBy, Storing
  <2> QED  BY <1>1, <2>2, <2>3, <2>5, NoAnswerYet DEF Storing
<1>8. CASE generation = mat[m].gen /\ mat[m].best = Nobody
  <2>1. PICK c : c = [mat[m] EXCEPT !.pc = "done", !.out = "found", !.best = DefaultScenario]  OBVIOUS
  <2>2. Becomes(m, c)  BY <1>1, <1>8, <2>1 DEF Becomes
  <2>3. c.pc = "done" /\ c.best = DefaultScenario /\ c.req = mat[m].req  BY <1>2, <2>1 DEF MatFields
  <2>4. mat'[m] = c  BY <2>2, OneCall DEF MatchInv
  <2>5. SearchedBy(m)'  BY <2>3, <2>4 DEF SearchedBy, Storing, Active
  <2>6. c.best = PlainAnswer(committed, c.req)  BY <1>6, <1>8, <2>3
  <2>7. RightAnswer(m)'  BY <1>1, <1>4, <2>3, <2>4, <2>6 DEF RightAnswer
  <2> QED  BY <1>1, <1>5, <2>2, <2>3, <2>5, <2>7, OthersMatch DEF Storing
<1>9. CASE generation = mat[m].gen /\ mat[m].best # Nobody
  <2>1. PICK pc : pc = IF mat[m].on THEN "store" ELSE "done"  OBVIOUS
  <2>2. pc \in {"store", "done"} /\ (pc = "store" => mat[m].on)  BY <2>1
  <2>3. PICK c : c = [mat[m] EXCEPT !.pc = pc, !.out = "found"]  OBVIOUS
  <2>4. Becomes(m, c)  BY <1>1, <1>9, <2>1, <2>3 DEF Becomes
  <2>5. c.pc = pc /\ c.best = mat[m].best /\ c.req = mat[m].req /\ c.gen = mat[m].gen /\ c.on = mat[m].on
    BY <1>2, <2>3 DEF MatFields
  <2>6. mat'[m] = c  BY <2>4, OneCall DEF MatchInv
  <2>7. SearchedBy(m)'
    <3>1. c.pc = "store" => SoFar(c)'  BY <1>3, <1>6, <1>9, <2>2, <2>5 DEF SoFar, Storing
    <3> QED  BY <1>3, <2>2, <2>5, <2>6, <3>1 DEF SearchedBy, Storing, Active
  <2>8. c.best = PlainAnswer(committed, c.req)  BY <1>6, <1>9, <2>5
  <2>9. RightAnswer(m)'  BY <1>1, <1>4, <2>2, <2>5, <2>6, <2>8 DEF RightAnswer
  <2>10. c.pc = "store" => Serves(c.best, CacheKey(c.req), committed)
    BY <1>4, <1>6, <1>9, <2>2, <2>5, WinnerServes
  <2>11. c.pc \in Storing => c.gen = generation /\ Serves(c.best, CacheKey(c.req), committed)
    BY <1>9, <2>2, <2>5, <2>10 DEF Storing
  <2> QED  BY <1>1, <1>5, <2>4, <2>7, <2>9, <2>11, OthersMatch
<1> QED  BY <1>7, <1>8, <1>9

\* The answer stays right whether or not it is kept.
LEMMA StoreCheckMatches ==
    ASSUME MatchInv, Matching, NEW m \in Matchers, StoreCheck(m)
    PROVE  Matching'
<1>1. PICK pc : pc = IF generation = mat[m].gen THEN "put" ELSE "done"  OBVIOUS
<1>2. /\ mat[m].pc = "store" /\ Aside /\ cache' = cache /\ window' = window
      /\ mat' = [mat EXCEPT ![m].pc = pc]
  BY <1>1 DEF StoreCheck, Aside, store
<1>3. pc \in {"put", "done"}  BY <1>1
<1>4. DOMAIN mat[m] = MatFields /\ SearchedBy(m) /\ RightAnswer(m)  BY Own DEF MatchInv, Matching
<1>5. PICK c : c = [mat[m] EXCEPT !.pc = pc]  OBVIOUS
<1>6. Becomes(m, c)  BY <1>2, <1>5 DEF Becomes, MatchInv, Calling
<1>7. c.pc = pc /\ c.best = mat[m].best /\ c.req = mat[m].req /\ c.gen = mat[m].gen /\ c.on = mat[m].on
  BY <1>4, <1>5 DEF MatFields
<1>8. mat'[m] = c  BY <1>6, OneCall DEF MatchInv
<1>9. generation' = generation /\ committed' = committed  BY <1>2 DEF Aside
<1>10. SearchedBy(m)'
  <2>1. mat[m].on /\ (mat[m].gen = generation => SoFar(mat[m]))
    BY <1>2, <1>4 DEF SearchedBy, Storing, Active, MatPcs
  <2>2. c.pc = "put" /\ c.gen = generation => SoFar(c)'
    BY <1>2, <1>7, <1>9, <2>1 DEF SoFar, Storing, Active, MatPcs
  <2> QED  BY <1>3, <1>7, <1>8, <1>9, <2>1, <2>2 DEF SearchedBy, Storing, Active
<1>11. RightAnswer(m)'
  <2>1. \E d \in window[m] : mat[m].best = PlainAnswer(d, mat[m].req)  BY <1>2, <1>4 DEF RightAnswer, Storing
  <2> QED  BY <1>2, <1>3, <1>7, <1>8, <2>1 DEF RightAnswer
<1>12. /\ \A k \in Matchers : k # m => window'[k] = window[k]
       /\ \A e \in ToSet(cache') : e \in ToSet(cache) \/ Puts(m, e)
  BY <1>2
<1> QED  BY <1>2, <1>6, <1>7, <1>10, <1>11, <1>12, OthersMatch DEF Storing

\* The entry is put late, with the generation of the search.
LEMMA StorePutMatches ==
    ASSUME MatchInv, Matching, NEW m \in Matchers, StorePut(m)
    PROVE  Matching'
<1>1. PICK e : e = [key |-> CacheKey(mat[m].req), scenario |-> mat[m].best, gen |-> mat[m].gen]  OBVIOUS
<1>2. /\ mat[m].pc = "put" /\ Aside /\ cache' = PutGeneration(e) /\ window' = window
      /\ mat' = [mat EXCEPT ![m].pc = "done"]
  BY <1>1 DEF StorePut, Aside
<1>3. MatTyped(mat[m]) /\ FoundBy(m) /\ DOMAIN mat[m] = MatFields /\ RightAnswer(m)  BY Own DEF MatchInv, Matching
<1>4. e \in Entry /\ Puts(m, e)
  <2>1. mat[m].req \in Requests  BY <1>2, <1>3 DEF MatTyped
  <2>2. mat[m].best \in Scenario  BY <1>2, <1>3 DEF MatTyped, FoundBy, Storing
  <2>3. mat[m].gen \in Nat  BY <1>3 DEF MatTyped
  <2>4. CacheKey(mat[m].req) \in {CacheKey(r) : r \in Requests}  BY <2>1
  <2>5. e \in Entry  BY <1>1, <2>2, <2>3, <2>4 DEF Entry
  <2>6. Puts(m, e)  BY <1>1, <1>2 DEF Puts, PutBy
  <2> QED  BY <2>5, <2>6
<1>5. ToSet(cache') \subseteq ToSet(cache) \cup {e}  BY <1>2, <1>4, CachePut DEF MatchInv, Caching
<1>6. PICK c : c = [mat[m] EXCEPT !.pc = "done"]  OBVIOUS
<1>7. Becomes(m, c)  BY <1>2, <1>6 DEF Becomes, MatchInv, Calling
<1>8. c.pc = "done" /\ c.best = mat[m].best /\ c.req = mat[m].req  BY <1>3, <1>6 DEF MatFields
<1>9. mat'[m] = c  BY <1>7, OneCall DEF MatchInv
<1>10. SearchedBy(m)'  BY <1>8, <1>9 DEF SearchedBy, Storing, Active
<1>11. RightAnswer(m)'
  <2>1. \E d \in window[m] : mat[m].best = PlainAnswer(d, mat[m].req)  BY <1>2, <1>3 DEF RightAnswer, Storing
  <2> QED  BY <1>2, <1>8, <1>9, <2>1 DEF RightAnswer
<1>12. /\ \A k \in Matchers : k # m => window'[k] = window[k]
       /\ \A x \in ToSet(cache') : x \in ToSet(cache) \/ Puts(m, x)
  BY <1>2, <1>4, <1>5
<1> QED  BY <1>2, <1>7, <1>8, <1>10, <1>11, <1>12, OthersMatch DEF Storing

\* A call whose context ends gives no answer.
LEMMA MatchCancelledMatches ==
    ASSUME MatchInv, Matching, NEW m \in Matchers, MatchCancelled(m)
    PROVE  Matching'
<1>1. /\ Aside /\ cache' = cache /\ window' = window
      /\ mat' = [mat EXCEPT ![m].pc = "done", ![m].out = "error"]
  BY DEF MatchCancelled, Aside, store
<1>2. DOMAIN mat[m] = MatFields  BY Own DEF MatchInv
<1>3. PICK c : c = [[mat[m] EXCEPT !.pc = "done"] EXCEPT !.out = "error"]  OBVIOUS
<1>4. Becomes(m, c)  BY <1>1, <1>3 DEF Becomes, MatchInv, Calling
<1>5. c.pc = "done" /\ c.out = "error"  BY <1>2, <1>3 DEF MatFields
<1>6. mat'[m] = c  BY <1>4, OneCall DEF MatchInv
<1>7. SearchedBy(m)'  BY <1>5, <1>6 DEF SearchedBy, Storing, Active
<1> QED  BY <1>1, <1>4, <1>5, <1>7, NoAnswerYet DEF Storing

-----------------------------------------------------------------------------
(* The theorems on answers *)

\* At the start the default is in every shard, and nothing was found.
LEMMA InitiallyArranged == Init => MatchInvariant
<1> SUFFICES ASSUME Init PROVE MatchInvariant  OBVIOUS
<1>1. PICK d : d = DefaultScenario  OBVIOUS
<1>2. PICK one : one = <<d>> /\ ToSet(one) = {d}
  <2>1. ToSet(<<d>>) = {d}  BY DEF ToSet
  <2> QED  BY <2>1
<1>3. /\ shards = [i \in 1..Shards |-> one] /\ global = <<>> /\ committed = {d} /\ generation = 0
      /\ mu = None /\ mut = [p \in Mutators |-> IdleMut] /\ mat = [m \in Matchers |-> IdleMat]
      /\ cache = <<>>
  BY <1>1, <1>2 DEF Init
<1>4. \A i \in 1..Shards : ToSet(shards[i]) = {d}  BY <1>2, <1>3
<1>5. Keyed  BY <1>1, <1>4 DEF Keyed
<1>6. Sound(committed) /\ IsFiniteSet(committed)
  <2>1. Proper(d)  BY <1>1, DefaultProper
  <2>2. IsFiniteSet({d})  BY FS_Singleton
  <2> QED  BY <1>3, <2>1, <2>2 DEF Sound, UniqueOrders
<1>7. Ready(committed)
  <2>1. Full(committed)  BY <1>3, <1>4 DEF Full
  <2>2. DefaultIsLast(committed)  BY <1>1, <1>3 DEF DefaultIsLast
  <2>3. ~DisablesMatchCache(d)
    <3>1. d.paths = <<>> /\ d.branches = <<>> /\ d.rule = NoRule  BY <1>1 DEF DefaultScenario
    <3>2. /\ d.rule.headers = {} /\ d.rule.httpHeaders = {} /\ d.rule.client = {} /\ d.rule.cidr = {}
          /\ d.rule.body = {}
      BY <3>1 DEF NoRule
    <3>3. DOMAIN d.paths = {}  BY <3>1
    <3> QED  BY <3>1, <3>2, <3>3 DEF DisablesMatchCache
  <2>4. Covers(committed)  BY <1>3, <2>3 DEF Covers, AnyDisablesCache
  <2> QED  BY <2>1, <2>2, <2>4 DEF Ready
<1>8. ASSUME NEW p \in Mutators  PROVE Arranged(p)
  <2>1. mut[p].pc = "idle"  BY <1>3 DEF IdleMut
  <2> QED  BY <2>1 DEF Arranged, Held
<1>9. Arranging  BY <1>5, <1>6, <1>7, <1>8 DEF Arranging
<1>10. ASSUME NEW m \in Matchers  PROVE SearchedBy(m) /\ RightAnswer(m)
  <2>1. mat[m].pc = "idle"  BY <1>3 DEF IdleMat
  <2> QED  BY <2>1 DEF SearchedBy, RightAnswer, Storing, Active
<1>11. ToSet(cache) = {}
  <2>1. DOMAIN <<>> = {}  OBVIOUS
  <2> QED  BY <1>3, <2>1 DEF ToSet
<1> QED  BY <1>9, <1>10, <1>11 DEF MatchInvariant, Matching

\* An edit of the file touches nothing of it.
LEMMA MatchingAside ==
    ASSUME MatchInvariant, UNCHANGED <<store, mu, mut, mat, committed, window>>
    PROVE  MatchInvariant'
<1>1. /\ shards' = shards /\ global' = global /\ generation' = generation /\ cacheOff' = cacheOff
      /\ cache' = cache /\ mu' = mu /\ mut' = mut /\ mat' = mat
      /\ committed' = committed /\ window' = window
  BY DEF store
<1>2. Arranging'  BY <1>1, ArrangingAside DEF MatchInvariant
<1>3. Matching  BY DEF MatchInvariant
<1>4. \A e \in ToSet(cache') : Fresh(e)'  BY <1>1, <1>3 DEF Matching, Fresh
<1>5. \A m \in Matchers : SearchedBy(m)'  BY <1>1, <1>3 DEF Matching, SearchedBy, SoFar
<1>6. \A m \in Matchers : RightAnswer(m)'  BY <1>1, <1>3 DEF Matching, RightAnswer, Offered
<1> QED  BY <1>2, <1>4, <1>5, <1>6 DEF MatchInvariant, Matching

\* Every step preserves it, in a regular registry.
LEMMA StaysArranged ==
    ASSUME Regular
    PROVE  IndInv /\ MatchInvariant /\ [Next]_vars => MatchInvariant'
<1> SUFFICES ASSUME IndInv, MatchInvariant, [Next]_vars  PROVE MatchInvariant'  OBVIOUS
<1>1. Typed /\ Mutex /\ Mutating /\ MatchInv /\ Arranging /\ Matching  BY DEF IndInv, MatchInv, MatchInvariant
<1>2. CASE EditFile  BY <1>2, MatchingAside DEF EditFile
<1>3. CASE UNCHANGED vars  BY <1>3, MatchingAside DEF vars
<1>4. ASSUME NEW p \in Mutators, MutStep(p)  PROVE MatchInvariant'
  <2>1. Arranging'  BY <1>1, <1>4, MutationArranges
  <2>2. Matching'  BY <1>1, <1>4, MatchingBeside
  <2> QED  BY <2>1, <2>2 DEF MatchInvariant
<1>5. ASSUME NEW m \in Matchers, Call(m) \/ MatchStep(m) \/ MatchCancelled(m)  PROVE MatchInvariant'
  <2>1. Aside
    BY <1>1, <1>5, CallStep, StableGenerationStep, ReadCacheFlagStep, ReadCacheGenerationStep, CacheGetStep,
       MatchInShardStep, FallbackShardStep, MatchGlobalStep, CheckGenerationStep, StoreCheckStep, StorePutStep,
       MatchCancelledStep DEF MatchStep
  <2>2. Arranging'  BY <1>1, <2>1, ArrangingAside DEF Aside
  <2>3. Matching'
    BY <1>1, <1>5, CallMatches, StableGenerationMatches, ReadCacheFlagMatches, ReadCacheGenerationMatches,
       CacheGetMatches, MatchInShardMatches, FallbackShardMatches, MatchGlobalMatches, CheckGenerationMatches,
       StoreCheckMatches, StorePutMatches, MatchCancelledMatches DEF MatchStep
  <2> QED  BY <2>2, <2>3 DEF MatchInvariant
<1> QED  BY <1>2, <1>3, <1>4, <1>5 DEF Next

\* In a regular registry every search, every entry of the cache and every answer is that of
\* the contents it counts for, at every moment.
THEOREM MatchInvariance ==
    ASSUME Regular
    PROVE  Spec => []MatchInvariant
<1>1. IndInv /\ MatchInvariant /\ [Next]_vars => MatchInvariant'  BY StaysArranged
<1> QED  BY <1>1, Invariance, InitiallyArranged, PTL DEF Spec

\* Match is linearizable in a regular registry: a scenario it returns, found in the lists or
\* taken from the cache, is what the plain registry would have answered at one moment of the
\* call, whatever mutations ran between the reads of the shards, of the flag, of the cache
\* and of generation.
THEOREM Linearizability ==
    ASSUME Regular
    PROVE  Spec => []AnswersAreLinearizable
<1>1. MatchInvariant => AnswersAreLinearizable
  BY DEF MatchInvariant, Matching, RightAnswer, AnswersAreLinearizable
<1> QED  BY <1>1, MatchInvariance, PTL

\* In a regular registry an entry of the cache that a call could use now is the plain
\* registry's answer to every request with its key.
THEOREM Freshness ==
    ASSUME Regular
    PROVE  Spec => []CacheIsFresh
<1>1. IndInv /\ MatchInvariant => CacheIsFresh
  <2> SUFFICES ASSUME IndInv, MatchInvariant, NEW i \in DOMAIN cache, cache[i].gen = generation,
                      NEW r \in Requests, CacheKey(r) = cache[i].key
               PROVE  FirstMatch(committed, r) = cache[i].scenario
    BY DEF CacheIsFresh
  <2>1. cache[i] \in ToSet(cache)  BY DEF ToSet
  <2>2. Serves(cache[i].scenario, cache[i].key, committed)  BY <2>1 DEF MatchInvariant, Matching, Fresh
  <2>3. Winner(cache[i].scenario, committed, r)  BY <2>2 DEF Serves
  <2>4. committed \in SUBSET Scenario  BY DEF IndInv, Typed
  <2> QED  BY <2>3, <2>4, WinnerIsFirst
<1> QED  BY <1>1, Invariance, MatchInvariance, PTL
=============================================================================
