----------------------------- MODULE RequestPath -----------------------------
(***************************************************************************)
(* The way of a request from Router.Serve to a processor and back:         *)
(* the route table and the LRU cache in front of it (internal/router),     *)
(* the handlers registered from the scenarios (cmd/icap-mock,              *)
(* registerHandlers), and the middlewares of internal/handler around       *)
(* baseHandler: adaptive timeout, retry, panic recovery.  Requests run     *)
(* concurrently; each step is one critical section of the code.            *)
(***************************************************************************)
EXTENDS ScenarioMatching

CONSTANTS
    Procs,         \* goroutines that serve requests
    Targets,       \* the requests: [method, path]
    Scenarios,     \* the scenarios the handlers are registered from, in List order
    LatePaths,     \* paths Handle is called for again while requests are served
    MaxCalls,      \* bound: calls of Serve and of Handle in all
    MaxEntries,    \* size of the route cache
    Expiring,      \* whether cache entries have a time to live
    PromoteEvery,  \* hits per promotion (10 in the code)
    Cancellable,   \* requests whose context may end before the answer
    Outcomes,      \* results of a processor: "ok", "transient", "permanent", "panic"
    MaxRetries,
    Durations,     \* how long a request may have taken
    SampleSize, MinDataPoints, AdjustmentFreq, Percentile, SafetyMultiplier,
    MinTimeout, MaxTimeout, FallbackTimeout

ASSUME RequestPathAssumption ==
    /\ {MaxCalls, MaxEntries, PromoteEvery, SampleSize, AdjustmentFreq} \subseteq Nat \ {0}
    /\ {MaxRetries, MinDataPoints} \subseteq Nat /\ Percentile \in 0..100
    /\ {MinTimeout, MaxTimeout, SafetyMultiplier} \subseteq Nat /\ Durations \subseteq Nat
    /\ 0 < MinTimeout /\ MinTimeout <= MaxTimeout /\ \E d \in Durations : d < MinTimeout
    /\ IsFiniteSet(Procs) /\ Scenarios \in Seq(ToSet(Scenarios))
    /\ \A s \in ToSet(Scenarios) :
          IsScenario(s) /\ \A ep \in ToSet(s.paths) : ep = [segs |-> ep.segs, lang |-> ep.lang]

VARIABLES
    routes,    \* Router.routes: path -> handler
    patterns,  \* Router.patterns
    lru,       \* RouteCache: [map, nodes, head, tail]; 0 is the nil node
    late,      \* paths of which Handle has stored but not yet cleared the cache
    proc,      \* per goroutine: the request in progress
    inflight,  \* the gauge of requests in a processor
    tally,     \* retry metrics by status
    stats,     \* per endpoint: ring buffer of durations
    timeout,   \* currentTimeout
    overtaken, \* history: paths whose old handler was on its way into the cache when Handle stored
    entered,   \* history: requests that reached the middlewares
    attempts,  \* history: calls of the innermost handler
    hist,      \* history, per endpoint: all durations recorded
    adjusted   \* history, per endpoint: how many had been recorded at the last adjustment

router == <<routes, patterns, lru, late, overtaken>>
tracker == <<stats, timeout, hist, adjusted>>
vars == <<router, proc, inflight, tally, tracker, entered, attempts>>

-----------------------------------------------------------------------------
(* Registration *)

\* What one scenario declares for an endpoint; without methods it is RESPMOD.
MethodsAt(s, ep) ==
    IF HasRoutes(s) THEN {m \in DOMAIN s.routes : ep \in ToSet(s.routes[m])}
    ELSE IF ep \notin ToSet(s.paths) THEN {}
    ELSE IF s.methods = {} THEN {"RESPMOD"} ELSE s.methods

FirstOccurrences(q) ==
    LET first[i \in 0..Len(q)] ==
            IF i = 0 THEN <<>>
            ELSE IF q[i] \in ToSet(first[i - 1]) THEN first[i - 1] ELSE Append(first[i - 1], q[i])
    IN  first[Len(q)]

ReservedPaths == {Reserved[m] : m \in DOMAIN Reserved}

\* The endpoints of all scenarios in order of appearance, without the default ones.
CustomEndpoints ==
    LET all == FirstOccurrences(FlattenSeq([i \in DOMAIN Scenarios |-> Scenarios[i].paths]))
    IN  Keep(all, {ep \in ToSet(all) : IsPattern(ep) \/ ep.segs \notin ReservedPaths})

\* newMethodDispatchHandler
HandlerFor(ep) == [ep |-> ep, gen |-> 0, allowed |-> UNION {MethodsAt(Scenarios[i], ep) : i \in DOMAIN Scenarios}]
DispatchTo(h, method) ==
    CASE method = "REQMOD" -> "reqmod"
      [] method = "OPTIONS" /\ "OPTIONS" \in h.allowed -> "options"
      [] OTHER -> "respmod"

RegisteredRoutes ==
    LET custom == {ep \in ToSet(CustomEndpoints) : ~IsPattern(ep)}
    IN  [path \in {ep.segs : ep \in custom} \cup ReservedPaths |->
            IF path \notin ReservedPaths THEN HandlerFor(Literal(path))
            ELSE [ep |-> Literal(path), gen |-> 0, allowed |-> {m \in DOMAIN Reserved : Reserved[m] = path}]]

\* Handle is called again for paths of the table.
ASSUME LateAssumption == LatePaths \subseteq DOMAIN RegisteredRoutes

RegisteredPatterns ==
    LET q == Keep(CustomEndpoints, {ep \in ToSet(CustomEndpoints) : IsPattern(ep)})
    IN  [i \in DOMAIN q |-> HandlerFor(q[i])]

-----------------------------------------------------------------------------
(* The LRU list of RouteCache *)

RemoveNode(c, n) ==
    LET p == c.nodes[n].prev
        q == c.nodes[n].next
    IN  [c EXCEPT
            !.nodes = [i \in DOMAIN c.nodes |->
                IF i = n THEN [c.nodes[i] EXCEPT !.prev = 0, !.next = 0]
                ELSE [c.nodes[i] EXCEPT !.next = IF i = p THEN q ELSE @, !.prev = IF i = q THEN p ELSE @]],
            !.head = IF p = 0 THEN q ELSE @,
            !.tail = IF q = 0 THEN p ELSE @]

AddToFront(c, n) ==
    [c EXCEPT
        !.nodes = [i \in DOMAIN c.nodes |->
            IF i = n THEN [c.nodes[i] EXCEPT !.prev = 0, !.next = c.head]
            ELSE [c.nodes[i] EXCEPT !.prev = IF i = c.head THEN n ELSE @]],
        !.head = n,
        !.tail = IF @ = 0 THEN n ELSE @]

MoveToFront(c, n) == IF n = c.head THEN c ELSE AddToFront(RemoveNode(c, n), n)

Bind(map, key, value) == [k \in DOMAIN map \cup {key} |-> IF k = key THEN value ELSE map[k]]
Forget(map, key) == [k \in DOMAIN map \ {key} |-> map[k]]

EvictLRU(c) ==
    IF c.tail = 0 THEN c
    ELSE [RemoveNode(c, c.tail) EXCEPT !.map = Forget(@, c.nodes[c.tail].key)]

EvictKey(c, key) ==
    IF key \notin DOMAIN c.map THEN c
    ELSE [RemoveNode(c, c.map[key]) EXCEPT !.map = Forget(@, key)]

\* Put: refresh the entry of the key, or make room and add one.
PutEntry(c, key, h) ==
    IF key \in DOMAIN c.map
    THEN LET n == c.map[key]
         IN  MoveToFront([c EXCEPT !.nodes[n].h = h, !.nodes[n].count = @ + 1], n)
    ELSE LET room == IF Cardinality(DOMAIN c.map) >= MaxEntries THEN EvictLRU(c) ELSE c
             n == Len(c.nodes) + 1
             node == [key |-> key, h |-> h, count |-> 1, prev |-> 0, next |-> 0]
         IN  AddToFront([room EXCEPT !.map = Bind(@, key, n), !.nodes = Append(@, node)], n)

EmptyCache == [map |-> <<>>, nodes |-> <<>>, head |-> 0, tail |-> 0]

-----------------------------------------------------------------------------
(* The adaptive timeout *)

\* One call of quickselect with the last element as pivot: the part of the list in which the
\* k-th smallest is, counted from 0, and its place there.  (The code's swaps leave the upper
\* part in another order, which changes later pivots and not the element that is found.)
Narrowed(s) ==
    LET pivot == Last(s.q)
        rest  == Front(s.q)
        low   == Keep(rest, {x \in ToSet(rest) : x <= pivot})
        high  == Keep(rest, {x \in ToSet(rest) : x > pivot})
    IN  IF s.k = Len(low) THEN [q |-> <<pivot>>, k |-> 0]
        ELSE IF s.k < Len(low) THEN [q |-> low, k |-> s.k]
        ELSE [q |-> high, k |-> s.k - Len(low) - 1]

\* Every call leaves less to search, so that one element remains at the end.
QuickSelect(q, k) ==
    LET part[n \in 0..Len(q)] == IF n = 0 THEN [q |-> q, k |-> k] ELSE Narrowed(part[n - 1])
    IN  part[Len(q)].q[1]

PercentileIndex(n) == Min({(n * Percentile) \div 100, n - 1})

\* The active part of the ring buffer, oldest first once it is full.
RingContents(s) ==
    IF s.count < SampleSize THEN SubSeq(s.ring, 1, s.count)
    ELSE SubSeq(s.ring, s.head, SampleSize) \o SubSeq(s.ring, 1, s.head - 1)

Clamp(t) == Min({MaxTimeout, Max({MinTimeout, t})})

AdjustedTimeout(s) ==
    LET q == RingContents(s) IN Clamp(QuickSelect(q, PercentileIndex(Len(q))) * SafetyMultiplier)

EmptyStats == [ring |-> [i \in 1..SampleSize |-> 0], head |-> 1, count |-> 0, total |-> 0]

\* Mutant: the ring's write position is not taken round.
RecordedNoWrap(s, d) ==
    [ring |-> [s.ring EXCEPT ![s.head] = d], head |-> Min({s.head + 1, SampleSize}),
     count |-> Min({s.count + 1, SampleSize}), total |-> s.total + 1]

\* head counts from 1.
Recorded(s, d) ==
    [ring |-> [s.ring EXCEPT ![s.head] = d], head |-> (s.head % SampleSize) + 1,
     count |-> Min({s.count + 1, SampleSize}), total |-> s.total + 1]

-----------------------------------------------------------------------------
NoHandler == [ep |-> Blank, gen |-> 0, allowed |-> {}]
Idle == [pc |-> "idle", req |-> CHOOSE r \in Targets : TRUE, node |-> 0, h |-> NoHandler, limit |-> 0,
         ended |-> FALSE, attempt |-> 0, answer |-> None, serves |-> 0, fresh |-> FALSE]

Init ==
    /\ routes = RegisteredRoutes /\ patterns = RegisteredPatterns /\ lru = EmptyCache /\ late = {} /\ overtaken = {}
    /\ proc = [p \in Procs |-> Idle] /\ inflight = 0
    /\ tally = [s \in {"success", "exhausted", "non_retryable", "retry", "canceled"} |-> 0]
    /\ stats = [r \in Targets |-> EmptyStats] /\ timeout = <<>>
    /\ entered = 0 /\ attempts = 0 /\ hist = [r \in Targets |-> <<>>] /\ adjusted = [r \in Targets |-> 0]

Goto(p, pc) == proc' = [proc EXCEPT ![p].pc = pc]
Key(p) == proc[p].req

-----------------------------------------------------------------------------
(* Router.Serve *)

\* Calls of Serve and of Handle so far.
Calls == MapThenSumSet(LAMBDA p : proc[p].serves, Procs)
         + Cardinality({path \in LatePaths : routes[path].gen = 1})

\* Handle has replaced the handler of the path and returned.
Replaced(path) == path \in LatePaths /\ path \notin late /\ routes[path].gen = 1

Begin(p) ==
    /\ proc[p].pc \in {"idle", "done"} /\ Calls < MaxCalls
    /\ \E r \in Targets :
           proc' = [proc EXCEPT ![p] = [Idle EXCEPT !.pc = "get", !.req = r, !.serves = proc[p].serves + 1,
                                                    !.fresh = Replaced(r.path)]]
    /\ UNCHANGED <<router, inflight, tally, tracker, entered, attempts>>

CacheMiss(p) ==
    /\ proc[p].pc = "get" /\ Key(p) \notin DOMAIN lru.map
    /\ Goto(p, "load")
    /\ UNCHANGED <<router, inflight, tally, tracker, entered, attempts>>

\* The read lock is given up before the entry is evicted.
CacheExpired(p) ==
    /\ proc[p].pc = "get" /\ Key(p) \in DOMAIN lru.map /\ Expiring
    /\ Goto(p, "evict")
    /\ UNCHANGED <<router, inflight, tally, tracker, entered, attempts>>

CacheEvict(p) ==
    /\ proc[p].pc = "evict"
    /\ lru' = EvictKey(lru, Key(p)) /\ Goto(p, "load")
    /\ UNCHANGED <<routes, patterns, late, overtaken, inflight, tally, tracker, entered, attempts>>

\* Every PromoteEvery-th hit goes on to move the node it read to the front.
CacheHit(p) ==
    /\ proc[p].pc = "get" /\ Key(p) \in DOMAIN lru.map
    /\ LET n == lru.map[Key(p)]
           count == lru.nodes[n].count + 1
       IN  /\ lru' = [lru EXCEPT !.nodes[n].count = count]
           /\ proc' = [proc EXCEPT ![p].node = n, ![p].h = lru.nodes[n].h,
                         ![p].pc = IF count % PromoteEvery = 0 THEN "promote" ELSE "deadline"]
    /\ UNCHANGED <<routes, patterns, late, overtaken, inflight, tally, tracker, entered, attempts>>

\* The key is looked up again, the node is not.
CachePromote(p) ==
    /\ proc[p].pc = "promote"
    /\ lru' = IF Key(p) \in DOMAIN lru.map THEN MoveToFront(lru, proc[p].node) ELSE lru
    /\ proc' = [proc EXCEPT ![p].pc = "deadline", ![p].node = 0]
    /\ UNCHANGED <<routes, patterns, late, overtaken, inflight, tally, tracker, entered, attempts>>

LookupRoute(p) ==
    /\ proc[p].pc = "load"
    /\ IF proc[p].req.path \in DOMAIN routes
       THEN proc' = [proc EXCEPT ![p].pc = "put", ![p].h = routes[proc[p].req.path]]
       ELSE Goto(p, "pattern")
    /\ UNCHANGED <<router, inflight, tally, tracker, entered, attempts>>

CachePut(p) ==
    /\ proc[p].pc = "put"
    /\ lru' = PutEntry(lru, Key(p), proc[p].h) /\ Goto(p, "deadline")
    /\ UNCHANGED <<routes, patterns, late, overtaken, inflight, tally, tracker, entered, attempts>>

\* The first pattern that matches, or 404.
MatchPatterns(p) ==
    /\ proc[p].pc = "pattern"
    /\ LET hits == {i \in DOMAIN patterns : EndpointMatches(patterns[i].ep, proc[p].req.path)}
       IN  proc' = IF hits = {} THEN [proc EXCEPT ![p].pc = "done", ![p].answer = "404"]
                   ELSE [proc EXCEPT ![p].pc = "deadline", ![p].h = patterns[Min(hits)]]
    /\ UNCHANGED <<router, inflight, tally, tracker, entered, attempts>>

\* Router.Handle while requests are served: the route first, the cache afterwards.
HandleStores ==
    /\ Calls < MaxCalls
    /\ \E path \in LatePaths :
           /\ routes[path].gen = 0
           /\ routes' = [routes EXCEPT ![path].gen = 1]
           /\ late' = late \cup {path}
           /\ overtaken' = IF \E p \in Procs : proc[p].pc = "put" /\ proc[p].req.path = path
                           THEN overtaken \cup {path} ELSE overtaken
    /\ UNCHANGED <<patterns, lru, proc, inflight, tally, tracker, entered, attempts>>

\* Mutant: the cache keeps what it has.
HandleClearsNot ==
    /\ \E path \in late : late' = late \ {path}
    /\ UNCHANGED <<routes, patterns, lru, overtaken, proc, inflight, tally, tracker, entered, attempts>>

HandleClears ==
    /\ \E path \in late : late' = late \ {path}
    /\ lru' = [lru EXCEPT !.map = <<>>, !.head = 0, !.tail = 0]
    /\ UNCHANGED <<routes, patterns, overtaken, proc, inflight, tally, tracker, entered, attempts>>

-----------------------------------------------------------------------------
(* The middlewares *)

\* AdaptiveTimeoutMiddleware up to the call of the next handler.
SetDeadline(p) ==
    /\ proc[p].pc = "deadline" /\ entered' = entered + 1
    /\ proc' = [proc EXCEPT ![p].pc = "attempt",
                  ![p].limit = IF Key(p) \in DOMAIN timeout THEN timeout[Key(p)] ELSE FallbackTimeout]
    /\ UNCHANGED <<router, inflight, tally, tracker, attempts>>

\* The deadline passes, or the request's own context ends.
ContextEnds(p) ==
    /\ proc[p].pc \in {"attempt", "process", "backoff"} /\ ~proc[p].ended /\ proc[p].req \in Cancellable
    /\ proc' = [proc EXCEPT ![p].ended = TRUE]
    /\ UNCHANGED <<router, inflight, tally, tracker, entered, attempts>>

\* What retryState.execute does with the result of one attempt: "ok" is a response,
\* "deadline" and "transient" are retryable errors.
AfterAttempt(p, result) ==
    LET retryable == result \in {"transient", "deadline"}
        more == retryable /\ proc[p].attempt < MaxRetries
        status == CASE result = "ok" -> "success" [] more -> "retry"
                    [] retryable /\ ~more -> "exhausted" [] OTHER -> "non_retryable"
    IN  /\ proc' = [proc EXCEPT ![p].pc = IF more THEN "backoff" ELSE "record",
                      ![p].answer = IF result = "ok" THEN DispatchTo(proc[p].h, proc[p].req.method) ELSE "error"]
        /\ tally' = IF result = "ok" /\ proc[p].attempt = 0 THEN tally ELSE [tally EXCEPT ![status] = @ + 1]

\* The error of an ended context is a deadline error or, of a cancelled one, not retryable.
Errors(p) == IF proc[p].ended THEN {"deadline", "canceled"} ELSE {}

\* OptionsHandler.Handle: an answer at once, whatever became of the context.
IsOptions(p) == DispatchTo(proc[p].h, proc[p].req.method) = "options"

AttemptOptions(p) ==
    /\ proc[p].pc = "attempt" /\ IsOptions(p)
    /\ attempts' = attempts + 1
    /\ AfterAttempt(p, "ok")
    /\ UNCHANGED <<router, inflight, tracker, entered>>

\* baseHandler.handle, refused by its first check of the context.
AttemptRefused(p) ==
    /\ proc[p].pc = "attempt" /\ ~IsOptions(p) /\ proc[p].ended
    /\ attempts' = attempts + 1
    /\ \E result \in Errors(p) : AfterAttempt(p, result)
    /\ UNCHANGED <<router, inflight, tracker, entered>>

AttemptStarts(p) ==
    /\ proc[p].pc = "attempt" /\ ~IsOptions(p) /\ ~proc[p].ended
    /\ attempts' = attempts + 1 /\ inflight' = inflight + 1
    /\ Goto(p, "process")
    /\ UNCHANGED <<router, tally, tracker, entered>>

\* Mutant: the gauge is lowered after the processor returned, not in a deferred call.
AttemptEndsNoDefer(p) ==
    /\ proc[p].pc = "process"
    /\ \E o \in Outcomes \cup Errors(p) :
           /\ inflight' = IF o = "panic" THEN inflight ELSE inflight - 1
           /\ AfterAttempt(p, IF o = "panic" THEN "ok" ELSE o)
    /\ UNCHANGED <<router, tracker, entered, attempts>>

\* The processor returns or panics; a response that comes after the context ended is dropped
\* (checkPostProcessCancellation); a panic becomes a response 500.
AttemptEnds(p) ==
    /\ proc[p].pc = "process"
    /\ inflight' = inflight - 1
    /\ \E o \in Outcomes \cup Errors(p) :
           IF o = "ok" /\ proc[p].ended THEN \E e \in Errors(p) : AfterAttempt(p, e)
           ELSE AfterAttempt(p, IF o = "panic" THEN "ok" ELSE o)
    /\ UNCHANGED <<router, tracker, entered, attempts>>

\* Mutant: the wait is over either way.
BackoffEndsIgnored(p) ==
    /\ proc[p].pc = "backoff"
    /\ proc' = [proc EXCEPT ![p].pc = "attempt", ![p].attempt = @ + 1]
    /\ tally' = IF proc[p].ended THEN [tally EXCEPT !["canceled"] = @ + 1] ELSE tally
    /\ UNCHANGED <<router, inflight, tracker, entered, attempts>>

\* waitBackoff: the timer, or the context; with both ready either may be taken.
BackoffEnds(p) ==
    /\ proc[p].pc = "backoff"
    /\ \/ /\ proc' = [proc EXCEPT ![p].pc = "attempt", ![p].attempt = @ + 1]
          /\ tally' = tally
       \/ /\ proc[p].ended
          /\ Goto(p, "record")
          /\ tally' = [tally EXCEPT !["canceled"] = @ + 1]
    /\ UNCHANGED <<router, inflight, tracker, entered, attempts>>

\* RecordDuration; by is whether the adjustment interval has passed.
RecordDuration(p) ==
    /\ proc[p].pc = "record"
    /\ \E d \in Durations, by \in BOOLEAN :
           LET s == Recorded(stats[Key(p)], d)
               adjust == (s.total % AdjustmentFreq = 0 \/ by) /\ s.count >= MinDataPoints
           IN  /\ d >= proc[p].limit => proc[p].ended
               /\ stats' = [stats EXCEPT ![Key(p)] = s]
               /\ hist' = [hist EXCEPT ![Key(p)] = Append(@, d)]
               /\ timeout' = IF adjust THEN Bind(timeout, Key(p), AdjustedTimeout(s)) ELSE timeout
               /\ adjusted' = IF adjust THEN [adjusted EXCEPT ![Key(p)] = Len(hist'[Key(p)])] ELSE adjusted
    /\ Goto(p, "done")
    /\ UNCHANGED <<router, inflight, tally, entered, attempts>>

-----------------------------------------------------------------------------
Step(p) ==
    \/ Begin(p) \/ CacheMiss(p) \/ CacheExpired(p) \/ CacheEvict(p) \/ CacheHit(p) \/ CachePromote(p)
    \/ LookupRoute(p) \/ CachePut(p) \/ MatchPatterns(p)
    \/ SetDeadline(p) \/ ContextEnds(p) \/ AttemptOptions(p) \/ AttemptRefused(p) \/ AttemptStarts(p) \/ AttemptEnds(p)
    \/ BackoffEnds(p) \/ RecordDuration(p)

Next == HandleStores \/ HandleClears \/ \E p \in Procs : Step(p)

Spec == Init /\ [][Next]_vars
-----------------------------------------------------------------------------
(* Properties *)

TypeOK ==
    /\ DOMAIN lru.map \subseteq Targets /\ Range(lru.map) \subseteq DOMAIN lru.nodes
    /\ inflight = Cardinality({p \in Procs : proc[p].pc = "process"})
    /\ \A k \in DOMAIN timeout : timeout[k] \in MinTimeout..MaxTimeout
    /\ \A p \in Procs : proc[p].attempt \in 0..MaxRetries

\* Where a request has to go by the scenarios alone: a scenario that names the path, or else
\* the first endpoint pattern in List order that matches, decides whether OPTIONS is served as
\* such; the default paths are fixed; anything else is unknown.
Expected(req) ==
    LET declaring(ep) == UNION {MethodsAt(Scenarios[i], ep) : i \in DOMAIN Scenarios}
        literal == {ep \in ToSet(CustomEndpoints) : ~IsPattern(ep) /\ ep.segs = req.path}
        matching == {i \in DOMAIN CustomEndpoints : /\ IsPattern(CustomEndpoints[i])
                                                    /\ EndpointMatches(CustomEndpoints[i], req.path)}
        allowed == IF req.path \in ReservedPaths THEN {m \in DOMAIN Reserved : Reserved[m] = req.path}
                   ELSE IF literal # {} THEN UNION {declaring(ep) : ep \in literal}
                   ELSE declaring(CustomEndpoints[Min(matching)])
    IN  IF req.path \notin ReservedPaths /\ literal = {} /\ matching = {} THEN "404"
        ELSE CASE req.method = "REQMOD" -> "reqmod"
               [] req.method = "OPTIONS" /\ "OPTIONS" \in allowed -> "options"
               [] OTHER -> "respmod"

\* Every answered request went where the scenarios say, whether the handler came from the
\* table, a pattern or a cache entry that other requests evicted, refreshed and promoted meanwhile.
\* A request that began after Handle had returned was served by the new handler ("to ensure the
\* new handler is used", Router.Handle), unless some Serve had loaded the old one and not yet put
\* it in the cache when Handle stored: that Put may come after Clear and bring the old one back.
RoutedAsRegistered ==
    \A p \in Procs : proc[p].pc = "done" =>
        /\ proc[p].answer \in {"error", Expected(proc[p].req)}
        /\ proc[p].fresh /\ proc[p].req.path \notin overtaken => proc[p].h = routes[proc[p].req.path]

\* At most n elements of q are smaller than d, and more than n are not larger.
IsNthSmallest(d, q, n) ==
    /\ Cardinality({i \in DOMAIN q : q[i] < d}) <= n
    /\ n < Cardinality({i \in DOMAIN q : q[i] <= d})

\* The timeout in force for an endpoint is the percentile of the last SampleSize durations at
\* the last adjustment (the ring buffer and the selection against the ranks in a suffix of all
\* that was recorded), within its bounds, and is never older than AdjustmentFreq requests.
TimeoutFollowsWindow ==
    \A k \in Targets :
        /\ k \in DOMAIN timeout =>
               LET w == SubSeq(hist[k], Max({1, adjusted[k] - SampleSize + 1}), adjusted[k])
               IN  \E d \in ToSet(w) : /\ IsNthSmallest(d, w, PercentileIndex(Len(w)))
                                       /\ timeout[k] = Clamp(d * SafetyMultiplier)
        /\ MinDataPoints <= SampleSize /\ Len(hist[k]) >= MinDataPoints + AdjustmentFreq =>
               Len(hist[k]) - adjusted[k] < AdjustmentFreq

\* Retries add up: every call of the innermost handler is the first of its request or follows
\* one counted retry, and a retry that was counted is carried out, or counted as cancelled.
RetriesAddUp ==
    entered + tally["retry"] =
        attempts + tally["canceled"] + Cardinality({p \in Procs : proc[p].pc \in {"attempt", "backoff"}})

\* "Maximum number of entries in the cache": the route cache keeps to its limit.
CacheIsBounded == Cardinality(DOMAIN lru.map) <= MaxEntries
=============================================================================
