--------------------------- MODULE ShardedRegistry ---------------------------
(***************************************************************************)
(* ShardedScenarioRegistry (internal/storage/sharded_scenario.go): readers *)
(* take no registry-wide lock.  Mutations are serialised by mutationMu and *)
(* make generation odd while they run; Match works on whatever it reads,   *)
(* shard by shard, and keeps the answer only if generation did not move.   *)
(* Answers are kept in an LRU cache whose entries carry a generation.      *)
(*                                                                         *)
(* A shard is its list of scenarios; its index is updated in the same      *)
(* critical sections and is therefore a function of the list.  List reads  *)
(* one shard at a time.  Scenarios of a load are indexed one per step.     *)
(***************************************************************************)
EXTENDS ScenarioMatching

CONSTANTS
    Shards,       \* number of shards
    ShardOf,      \* hashString, for the paths that occur
    CutSegment,   \* a segment up to its first regular-expression character
    CacheCap,     \* cache size; 0 when the cache is disabled
    Files,        \* contents the scenario file may have: sequences of scenarios
    Requests,     \* requests
    Ops,          \* mutations the callers may issue
    Matchers, Mutators,
    MaxCalls,     \* bound: Match calls per matcher
    MaxEdits      \* bound: edits of the scenario file

\* hashString is defined for every literal endpoint.
Hashed(s) ==
    \A ep \in ToSet(s.paths) \cup UNION {ToSet(s.routes[m]) : m \in DOMAIN s.routes} :
        ~IsPattern(ep) => ep.segs \in DOMAIN ShardOf

\* In a scenario file names are the keys of a mapping.
ASSUME RegistryAssumption ==
    /\ Shards \in Nat \ {0} /\ CacheCap \in Nat /\ MaxCalls \in Nat /\ MaxEdits \in Nat
    /\ \A p \in DOMAIN ShardOf : ShardOf[p] \in 1..Shards /\ p \in Seq(ToSet(p))
    /\ \A r \in Requests : r.path \in DOMAIN ShardOf
    /\ \A f \in Files :
          /\ f \in Seq(ToSet(f)) /\ \A s \in ToSet(f) : IsScenario(s) /\ Hashed(s)
          /\ \A i, j \in DOMAIN f : f[i].name = f[j].name => i = j
    /\ \A op \in Ops : /\ op.kind \in {"load", "reload", "add", "remove"}
                       /\ op.kind = "add" => IsScenario(op.s) /\ Hashed(op.s)
    /\ IsFiniteSet(Mutators) /\ None \notin Mutators

VARIABLES
    shards,      \* per shard: scenarios, in the order they were indexed
    global,      \* globalScenarios
    generation,
    cacheOff,    \* cacheDisabledForComplexMatch
    cache,       \* entries, most recently used first
    loaded,      \* filePath is set
    mu,          \* holder of mutationMu, or None
    mut,         \* per mutator: the call in progress
    mat,         \* per matcher: the call in progress
    disk,        \* the scenario file
    edits,
    committed,   \* history: contents after the last complete mutation, as the plain registry has them
    window       \* history, per matcher: the values of committed since its call began

store == <<shards, global, generation, cacheOff, cache, loaded>>
vars  == <<store, mu, mut, mat, disk, edits, committed, window>>

IdleMut == [pc |-> "idle", op |-> [kind |-> "load"], next |-> <<>>, i |-> 1, list |-> {}, hit |-> FALSE]
IdleMat == [pc |-> "idle", req |-> CHOOSE r \in Requests : TRUE, gen |-> 0, on |-> FALSE, i |-> 1,
            best |-> Nobody, seen |-> {}, caps |-> <<>>, branch |-> 0, calls |-> 0, out |-> "none"]

-----------------------------------------------------------------------------
(* Placement *)

\* exactRouteShardEntries
ExactRoutes(s) == HasRoutes(s) /\ \A m \in DOMAIN s.routes : \A ep \in ToSet(s.routes[m]) : ~IsPattern(ep)

ShardSafe(s) == Len(s.paths) = 1 /\ ~IsPattern(s.paths[1])

\* extractPathPrefix: up to the first character a regular expression gives a meaning to.
ExtractPathPrefix(path) ==
    LET cut == {i \in DOMAIN path : path[i] \in DOMAIN CutSegment}
    IN  IF cut = {} THEN path
        ELSE Append(SubSeq(path, 1, Min(cut) - 1), CutSegment[path[Min(cut)]])

\* The keys under which shard sh indexes s ({}: s is not in that shard's index).
IndexKeys(s, sh) ==
    IF ExactRoutes(s)
    THEN UNION {{<<m, ep.segs>> : ep \in {e \in ToSet(s.routes[m]) : ShardOf[e.segs] = sh}} :
                  m \in DOMAIN s.routes}
    ELSE IF ShardSafe(s) /\ ShardOf[s.paths[1].segs] = sh
         THEN {<<m, ExtractPathPrefix(s.paths[1].segs)>> : m \in IF s.methods = {} THEN {"*"} ELSE s.methods}
         ELSE {}

IsGlobal(s) == ~ExactRoutes(s) /\ ~ShardSafe(s)

\* indexScenario
IndexedShards(sh, s) == [i \in 1..Shards |-> IF IndexKeys(s, i) = {} THEN sh[i] ELSE Append(sh[i], s)]
IndexedGlobal(g, s) == IF IsGlobal(s) THEN Append(g, s) ELSE g

\* A registry that Load has just filled: replaceValidated copies it.
BuiltShards(list) == [i \in 1..Shards |-> Keep(list, {s \in ToSet(list) : IndexKeys(s, i) # {}})]
BuiltGlobal(list) == Keep(list, {s \in ToSet(list) : IsGlobal(s)})

\* Mutant: only captures and branches count, headers and addresses are forgotten.
DisablesMatchCacheStaticOnly(s) ==
    (\E i \in DOMAIN s.paths : s.paths[i].lang = {} /\ IsPattern(s.paths[i])) \/ s.branches # <<>>

\* hasDynamicMatchRule, hasEndpointCaptures, branches
DisablesMatchCache(s) ==
    \/ \E c \in {s.rule.headers, s.rule.httpHeaders, s.rule.client, s.rule.cidr, s.rule.body} : c # {}
    \/ \E i \in DOMAIN s.paths : s.paths[i].lang = {} /\ IsPattern(s.paths[i])
    \/ s.branches # <<>>
AnyDisablesCache(S) == \E s \in S : DisablesMatchCache(s)

-----------------------------------------------------------------------------
(* Lookup *)

AnyPath == <<"*">>

\* buildSearchKeys, most specific first
SearchKeys(req) ==
    <<<<req.method, req.path>>, <<req.method, AnyPath>>, <<"*", req.path>>, <<"*", AnyPath>>>>
        \o [i \in 1..Len(req.path) - 1 |-> <<req.method, SubSeq(req.path, 1, Len(req.path) - i)>>]

\* The candidates of a shard's index, without repetitions.
IndexCandidates(sh, req) ==
    LET keys == SearchKeys(req)
        first(s) == Min({j \in DOMAIN keys : keys[j] \in IndexKeys(s, sh)} \cup {Len(keys) + 1})
        under(k) == Keep(shards[sh], {s \in ToSet(shards[sh]) : k = first(s)})
    IN  FlattenSeq([k \in DOMAIN keys |-> under(k)])

\* buildCacheKey: neither ICAP headers nor body nor client address
CacheKey(req) ==
    <<req.method, req.path, req.request.method, req.request.uri,
      IF req.response.type # None THEN req.response.type ELSE req.request.type>>

\* The captures left on the request, those of later evaluations first.
CapturesAfter(verdicts, caps) == FoldLeft(LAMBDA acc, v : v.caps @@ acc, caps, verdicts)

\* Evaluates candidates one after the other, up to the first that fails, and keeps the best;
\* each evaluation leaves its captures on the request and each that passes all rules its branch.
Evaluate(candidates, start, req) ==
    LET verdict == [i \in DOMAIN candidates |-> MatchesScenario(candidates[i], req)]
        failed  == {i \in DOMAIN candidates : verdict[i].res = "error"}
        tried   == IF failed = {} THEN DOMAIN candidates ELSE 1..Min(failed)
        touched == {i \in tried : verdict[i].touched}
        best[i \in 0..Len(candidates)] ==
            IF i = 0 THEN start.best
            ELSE IF /\ verdict[i].res = "yes"
                    /\ best[i - 1] = Nobody \/ ScenarioOutranks(candidates[i], best[i - 1])
                 THEN candidates[i] ELSE best[i - 1]
    IN  [err    |-> failed # {},
         best   |-> IF failed # {} THEN Nobody ELSE best[Len(candidates)],
         caps   |-> CapturesAfter([i \in tried |-> verdict[i]], start.caps),
         branch |-> IF touched = {} THEN start.branch ELSE verdict[Max(touched)].branch]

EntryAt(key) == {i \in DOMAIN cache : cache[i].key = key}

\* GetGeneration moves the entry to the front.
MovedToFront(i) == <<cache[i]>> \o RemoveAt(cache, i)

\* PutGeneration: update in place and move to the front, or insert and evict the last.
PutGeneration(entry) ==
    LET rest == Keep(cache, {e \in ToSet(cache) : e.key # entry.key})
        grown == <<entry>> \o rest
    IN  IF EntryAt(entry.key) = {} /\ Len(grown) > CacheCap THEN Front(grown) ELSE grown

-----------------------------------------------------------------------------
Init ==
    /\ shards = [i \in 1..Shards |-> <<DefaultScenario>>] /\ global = <<>>
    /\ generation = 0 /\ cacheOff = FALSE /\ cache = <<>> /\ loaded = FALSE
    /\ mu = None /\ mut = [p \in Mutators |-> IdleMut] /\ mat = [m \in Matchers |-> IdleMat]
    /\ disk \in Files /\ edits = 0
    /\ committed = {DefaultScenario} /\ window = [m \in Matchers |-> {}]

EditFile ==
    /\ edits < MaxEdits /\ edits' = edits + 1
    /\ \E f \in Files : disk' = f
    /\ UNCHANGED <<store, mu, mut, mat, committed, window>>

-----------------------------------------------------------------------------
(* Mutations.  Load and Reload read the file and Reload compares topologies  *)
(* before mutationMu is taken.                                               *)

Begin(p) ==
    /\ mut[p].pc = "idle"
    /\ \E op \in Ops :
           mut' = [mut EXCEPT ![p].op = op,
                     ![p].pc = CASE op.kind = "load" -> "read"
                                 [] op.kind = "reload" -> IF loaded THEN "read" ELSE "done"
                                 [] OTHER -> "lock"]
    /\ UNCHANGED <<store, mu, mat, disk, edits, committed, window>>

ReadFile(p) ==
    /\ mut[p].pc = "read"
    /\ mut' = [mut EXCEPT ![p].next = SortedByPriority(LoadedContents(disk)),
                 ![p].pc = IF ~FileValid(disk) THEN "done"
                           ELSE IF mut[p].op.kind = "load" THEN "lock" ELSE "list"]
    /\ UNCHANGED <<store, mu, mat, disk, edits, committed, window>>

\* r.List() for the topology check, one shard at a time, the global list last.
ListShard(p) ==
    /\ mut[p].pc = "list"
    /\ LET more == mut[p].list \cup ToSet(IF mut[p].i > Shards THEN global ELSE shards[mut[p].i])
       IN  mut' = [mut EXCEPT ![p].list = more,
                     ![p].i = IF mut[p].i > Shards THEN 1 ELSE mut[p].i + 1,
                     ![p].pc = IF mut[p].i <= Shards THEN "list"
                               ELSE IF TopologyKept(more, ToSet(mut[p].next)) THEN "lock" ELSE "done"]
    /\ UNCHANGED <<store, mu, mat, disk, edits, committed, window>>

\* mutationMu.Lock and generation.Add(1); Add validates and fixes the order under the lock.
Lock(p) ==
    /\ mut[p].pc = "lock" /\ mu = None
    /\ mu' = p /\ generation' = generation + 1
    /\ LET op == mut[p].op
       IN  /\ cacheOff' = IF op.kind = "load" THEN AnyDisablesCache(ToSet(mut[p].next)) ELSE cacheOff
           /\ mut' = [mut EXCEPT
                 ![p].pc = IF op.kind = "add" /\ ~ValidateAndCompile(op.s) THEN "refused" ELSE "shard",
                 ![p].next = IF op.kind # "add" THEN @
                             ELSE LET now == (UNION {ToSet(shards[i]) : i \in 1..Shards}) \cup ToSet(global)
                                  IN  <<[op.s EXCEPT !.order = ScenarioOrderForAdd(now, op.s.name)]>>]
    /\ UNCHANGED <<shards, global, cache, loaded, mat, disk, edits, committed, window>>

NameOf(op) == IF op.kind = "add" THEN op.s.name ELSE op.name
Without(q, name) == Keep(q, {s \in ToSet(q) : s.name # name})

\* removeGlobalScenario takes out the first one only.
WithoutFirst(q, name) ==
    LET at == {i \in DOMAIN q : q[i].name = name}
    IN  IF at = {} THEN q ELSE RemoveAt(q, Min(at))

NewPart(op, built, left) ==
    CASE op.kind = "load" -> <<>> [] op.kind = "reload" -> built [] OTHER -> left

\* Mutant: remove stops at the first shard that had the scenario.
UpdateShardFirstHit(p) ==
    /\ mut[p].pc = "shard"
    /\ LET i == mut[p].i
           new == IF mut[p].hit /\ mut[p].op.kind \in {"add", "remove"} THEN shards[i]
                  ELSE NewPart(mut[p].op, BuiltShards(mut[p].next)[i], Without(shards[i], NameOf(mut[p].op)))
       IN  /\ shards' = [shards EXCEPT ![i] = new]
           /\ mut' = [mut EXCEPT ![p].i = IF i = Shards THEN 1 ELSE i + 1,
                         ![p].pc = IF i = Shards THEN "global" ELSE "shard",
                         ![p].hit = @ \/ new # shards[i]]
    /\ UNCHANGED <<global, generation, cacheOff, cache, loaded, mu, mat, disk, edits, committed, window>>

\* One shard of the loops of Load (clear), replaceValidated (replace) and remove.
UpdateShard(p) ==
    /\ mut[p].pc = "shard"
    /\ LET i == mut[p].i
           new == NewPart(mut[p].op, BuiltShards(mut[p].next)[i], Without(shards[i], NameOf(mut[p].op)))
       IN  /\ shards' = [shards EXCEPT ![i] = new]
           /\ mut' = [mut EXCEPT ![p].i = IF i = Shards THEN 1 ELSE i + 1,
                         ![p].pc = IF i = Shards THEN "global" ELSE "shard",
                         ![p].hit = @ \/ new # shards[i]]
    /\ UNCHANGED <<global, generation, cacheOff, cache, loaded, mu, mat, disk, edits, committed, window>>

UpdateGlobal(p) ==
    /\ mut[p].pc = "global"
    /\ LET op == mut[p].op
           new == NewPart(op, BuiltGlobal(mut[p].next), WithoutFirst(global, NameOf(op)))
           removed == mut[p].hit \/ new # global
       IN  /\ global' = new
           /\ loaded' = (loaded \/ op.kind = "reload")
           /\ mut' = [mut EXCEPT ![p].pc =
                         IF op.kind # "load" /\ (op.kind = "reload" \/ removed) THEN "flag"
                         ELSE IF op.kind = "remove" THEN "refused" ELSE "index"]
    /\ UNCHANGED <<shards, generation, cacheOff, cache, mu, mat, disk, edits, committed, window>>

\* replaceValidated's flag; afterScenarioRemoved: recomputed from what is left, cache cleared.
UpdateFlag(p) ==
    /\ mut[p].pc = "flag"
    /\ LET op == mut[p].op
           left == (UNION {ToSet(shards[i]) : i \in 1..Shards}) \cup ToSet(global)
       IN  /\ cacheOff' = AnyDisablesCache(IF op.kind = "reload" THEN ToSet(mut[p].next) ELSE left)
           /\ cache' = <<>>
           /\ mut' = [mut EXCEPT ![p].pc = IF op.kind = "add" THEN "index" ELSE "commit"]
    /\ UNCHANGED <<shards, global, generation, loaded, mu, mat, disk, edits, committed, window>>

\* indexScenario for the next scenario; after the last one filePath, the flag and cache.Clear.
IndexScenario(p) ==
    /\ mut[p].pc = "index"
    /\ LET op == mut[p].op
           s == mut[p].next[mut[p].i]
           last == mut[p].i = Len(mut[p].next)
       IN  /\ shards' = IndexedShards(shards, s) /\ global' = IndexedGlobal(global, s)
           /\ loaded' = (loaded \/ (last /\ op.kind = "load"))
           /\ cacheOff' = (cacheOff \/ (op.kind = "add" /\ DisablesMatchCache(s)))
           /\ cache' = IF last THEN <<>> ELSE cache
           /\ mut' = [mut EXCEPT ![p].i = IF last THEN 1 ELSE @ + 1, ![p].pc = IF last THEN "commit" ELSE "index"]
    /\ UNCHANGED <<generation, mu, mat, disk, edits, committed, window>>

\* What the same call does to the plain registry.
PlainEffect(p) ==
    LET op == mut[p].op
    IN  CASE op.kind \in {"load", "reload"} -> ToSet(mut[p].next)
          [] op.kind = "add" -> AddedContents(committed, op.s)
          [] OTHER -> RemovedContents(committed, op.name)

\* Mutant: a refused call returns without the second generation.Add.
CommitUnlessRefused(p) ==
    /\ mut[p].pc \in {"commit", "refused"}
    /\ generation' = IF mut[p].pc = "refused" THEN generation ELSE generation + 1
    /\ mu' = None
    /\ mut' = [mut EXCEPT ![p].pc = "done"]
    /\ UNCHANGED <<shards, global, cacheOff, cache, loaded, mat, disk, edits, committed, window>>

\* The deferred generation.Add(1) and Unlock.
Commit(p) ==
    /\ mut[p].pc \in {"commit", "refused"}
    /\ generation' = generation + 1 /\ mu' = None
    /\ LET now == IF mut[p].pc = "refused" THEN committed ELSE PlainEffect(p)
       IN  /\ committed' = now
           /\ window' = [m \in Matchers |-> IF mat[m].pc \in {"idle", "done"} THEN window[m]
                                            ELSE window[m] \cup {now}]
    /\ mut' = [mut EXCEPT ![p].pc = "done"]
    /\ UNCHANGED <<shards, global, cacheOff, cache, loaded, mat, disk, edits>>

-----------------------------------------------------------------------------
(* Match *)

Call(m) ==
    /\ mat[m].pc \in {"idle", "done"} /\ mat[m].calls < MaxCalls
    /\ \E r \in Requests :
           mat' = [mat EXCEPT ![m] = [IdleMat EXCEPT !.req = r, !.pc = "stable", !.calls = mat[m].calls + 1]]
    /\ window' = [window EXCEPT ![m] = {committed}]
    /\ UNCHANGED <<store, mu, mut, disk, edits, committed>>

\* stableGeneration: spins while a mutation runs.
StableGeneration(m) ==
    /\ mat[m].pc = "stable" /\ generation % 2 = 0
    /\ mat' = [mat EXCEPT ![m].gen = generation, ![m].pc = "flag"]
    /\ UNCHANGED <<store, mu, mut, disk, edits, committed, window>>

\* matchCacheEnabled, then the generation that cachedMatch asks for.
ReadCacheFlag(m) ==
    /\ mat[m].pc = "flag"
    /\ mat' = [mat EXCEPT ![m].on = CacheCap > 0 /\ ~cacheOff,
                 ![m].pc = IF CacheCap > 0 /\ ~cacheOff THEN "ask" ELSE "shard"]
    /\ UNCHANGED <<store, mu, mut, disk, edits, committed, window>>

ReadCacheGeneration(m) ==
    /\ mat[m].pc = "ask"
    /\ mat' = [mat EXCEPT ![m].i = generation, ![m].pc = "get"]
    /\ UNCHANGED <<store, mu, mut, disk, edits, committed, window>>

CacheGet(m) ==
    /\ mat[m].pc = "get"
    /\ LET at == {i \in EntryAt(CacheKey(mat[m].req)) : cache[i].gen = mat[m].i}
       IN  IF at = {}
           THEN cache' = cache /\ mat' = [mat EXCEPT ![m].pc = "shard", ![m].i = 1]
           ELSE /\ cache' = MovedToFront(Min(at))
                /\ mat' = [mat EXCEPT ![m].pc = "done", ![m].out = "hit", ![m].i = 1, ![m].best = cache[Min(at)].scenario]
    /\ UNCHANGED <<shards, global, generation, cacheOff, loaded, mu, mut, disk, edits, committed, window>>

\* Folds a list of candidates into the call; a failing evaluation ends it.
Absorb(m, candidates, pcFound, pcNone) ==
    LET c == mat[m]
        r == Evaluate(candidates, c, c.req)
    IN  [c EXCEPT !.best = r.best, !.caps = r.caps, !.branch = r.branch, !.i = 1,
                  !.out = IF r.err THEN "error" ELSE @,
                  !.pc = IF r.err THEN "done" ELSE IF r.best # Nobody THEN pcFound ELSE pcNone]

\* matchInShard; fallbackMatch only when the index has nothing.
MatchInShard(m) ==
    /\ mat[m].pc = "shard"
    /\ mat' = [mat EXCEPT ![m] = Absorb(m, IndexCandidates(ShardOf[mat[m].req.path], mat[m].req), "global", "fallback")]
    /\ UNCHANGED <<store, mu, mut, disk, edits, committed, window>>

\* fallbackMatch: one shard of the loop; no scenario is evaluated twice, nor a second default.
FallbackShard(m) ==
    /\ mat[m].pc = "fallback"
    /\ LET i == mat[m].i
           fresh(s) == /\ s \notin mat[m].seen
                       /\ s.name = DefaultName => \A t \in mat[m].seen : t.name # DefaultName
           here == Keep(shards[i], {s \in ToSet(shards[i]) : fresh(s)})
           next == IF i = Shards THEN "global" ELSE "fallback"
           seen == mat[m].seen \cup ToSet(shards[i])
       IN  mat' = [mat EXCEPT ![m] = [Absorb(m, here, next, next) EXCEPT
                                         !.i = IF i = Shards THEN 1 ELSE i + 1, !.seen = seen]]
    /\ UNCHANGED <<store, mu, mut, disk, edits, committed, window>>

\* applyGlobalPriorityCandidate: every global scenario is evaluated, whatever was found before.
MatchGlobal(m) ==
    /\ mat[m].pc = "global"
    /\ mat' = [mat EXCEPT ![m] = Absorb(m, global, "check", "check")]
    /\ UNCHANGED <<store, mu, mut, disk, edits, committed, window>>

\* Mutant: the answer is returned whatever happened meanwhile.
CheckGenerationNever(m) ==
    /\ mat[m].pc = "check"
    /\ mat' = [mat EXCEPT ![m].pc = "done", ![m].out = "found",
                          ![m].best = IF @ = Nobody THEN DefaultScenario ELSE @]
    /\ UNCHANGED <<store, mu, mut, disk, edits, committed, window>>

\* The answer stands only if generation is still the one the call began with.
CheckGeneration(m) ==
    /\ mat[m].pc = "check"
    /\ LET c == mat[m]
       IN  mat' = [mat EXCEPT ![m] =
               IF generation # c.gen THEN [c EXCEPT !.pc = "stable", !.best = Nobody, !.seen = {}]
               ELSE IF c.best = Nobody THEN [c EXCEPT !.pc = "done", !.out = "found", !.best = DefaultScenario]
               ELSE [c EXCEPT !.pc = IF c.on THEN "store" ELSE "done", !.out = "found"]]
    /\ UNCHANGED <<store, mu, mut, disk, edits, committed, window>>

\* storeMatchCache: the generation is looked at once more, the entry is put afterwards.
StoreCheck(m) ==
    /\ mat[m].pc = "store"
    /\ mat' = [mat EXCEPT ![m].pc = IF generation = mat[m].gen THEN "put" ELSE "done"]
    /\ UNCHANGED <<store, mu, mut, disk, edits, committed, window>>

StorePut(m) ==
    /\ mat[m].pc = "put"
    /\ cache' = PutGeneration([key |-> CacheKey(mat[m].req), scenario |-> mat[m].best, gen |-> mat[m].gen])
    /\ mat' = [mat EXCEPT ![m].pc = "done"]
    /\ UNCHANGED <<shards, global, generation, cacheOff, loaded, mu, mut, disk, edits, committed, window>>

\* The context is looked at on entry, while spinning, before each candidate and before returning.
MatchCancelled(m) ==
    /\ mat[m].pc \in {"stable", "get", "shard", "fallback", "global", "store"}
    /\ mat' = [mat EXCEPT ![m].pc = "done", ![m].out = "error"]
    /\ UNCHANGED <<store, mu, mut, disk, edits, committed, window>>

MutStep(p) ==
    \/ Begin(p) \/ ReadFile(p) \/ ListShard(p) \/ Lock(p) \/ UpdateShard(p) \/ UpdateGlobal(p)
    \/ UpdateFlag(p) \/ IndexScenario(p) \/ Commit(p)
MatchStep(m) ==
    \/ StableGeneration(m) \/ ReadCacheFlag(m) \/ ReadCacheGeneration(m) \/ CacheGet(m)
    \/ MatchInShard(m) \/ FallbackShard(m) \/ MatchGlobal(m) \/ CheckGeneration(m)
    \/ StoreCheck(m) \/ StorePut(m)

Next ==
    \/ EditFile
    \/ \E p \in Mutators : MutStep(p)
    \/ \E m \in Matchers : Call(m) \/ MatchStep(m) \/ MatchCancelled(m)

Spec == Init /\ [][Next]_vars

\* The scenarios that files and callers bring, and the built-in one.
Declared == {DefaultScenario} \cup (UNION {ToSet(f) : f \in Files})
                              \cup {op.s : op \in {o \in Ops : o.kind = "add"}}

\* Where index and cache answer like the plain registry: the index cuts no path that is asked
\* for; the endpoints of routes are in the list of endpoints too, as routingFromRouteMap leaves
\* them; and what is added has a higher priority than the built-in default, unless it takes its
\* name.
Regular ==
    /\ \A r \in Requests : \A i \in DOMAIN r.path : r.path[i] \notin DOMAIN CutSegment
    /\ \A s \in Declared : \A m \in DOMAIN s.routes : ToSet(s.routes[m]) \subseteq ToSet(s.paths)
    /\ \A op \in Ops : op.kind = "add" =>
          op.s.name = DefaultName \/ op.s.priority > DefaultScenario.priority
-----------------------------------------------------------------------------
(* Properties *)

Present == (UNION {ToSet(shards[i]) : i \in 1..Shards}) \cup ToSet(global)

TypeOK ==
    /\ generation \in 0..2 * Cardinality(Mutators) /\ (mu = None <=> generation % 2 = 0)
    /\ cacheOff \in BOOLEAN /\ loaded \in BOOLEAN /\ mu \in Mutators \cup {None}
    /\ Len(cache) <= CacheCap /\ IsInjective([i \in DOMAIN cache |-> cache[i].key])
    /\ \A m \in Matchers : mat[m].calls \in 0..MaxCalls /\ mat[m].branch \in Nat
    /\ disk \in Files /\ edits \in 0..MaxEdits

\* Between mutations the shards and the global list together hold exactly what the plain
\* registry would hold after the same calls, with the same order numbers: removing and
\* replacing finds every copy, in whatever shards the declaration put it.
ContentsAgree == mu = None => Present = committed

\* The plain registry's answer; where that one reports that nothing matches, the built-in default.
PlainAnswer(contents, req) ==
    IF FirstMatch(contents, req) = Nobody THEN DefaultScenario ELSE FirstMatch(contents, req)

\* Match is linearizable: a scenario it returns is what the plain registry would have
\* returned at one moment of the call, though shards, flag, cache and generation were read
\* one after the other between the steps of mutations.
AnswersAreLinearizable ==
    \A m \in Matchers :
        mat[m].pc = "done" /\ mat[m].out \in {"found", "hit"} =>
            \E c \in window[m] : mat[m].best = PlainAnswer(c, mat[m].req)

\* A cache entry that a call could use now answers every request with its key as the registry
\* would: the key leaves out headers, body and address, and entries are put late.
CacheIsFresh ==
    mu = None /\ ~cacheOff =>
        \A i \in DOMAIN cache : cache[i].gen = generation =>
            \A r \in Requests : CacheKey(r) = cache[i].key => FirstMatch(committed, r) = cache[i].scenario

\* What the request carries afterwards belongs to the scenario that was returned: the branch
\* chosen is that scenario's first matching branch.
MatchedBranchIsTheWinners ==
    \A m \in Matchers :
        mat[m].pc = "done" /\ mat[m].out = "found" /\ mat[m].best.branches # <<>> =>
            mat[m].branch = SelectBranch(mat[m].best, mat[m].req)
=============================================================================
