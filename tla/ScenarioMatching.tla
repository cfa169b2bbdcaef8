-------------------------- MODULE ScenarioMatching --------------------------
(***************************************************************************)
(* Scenarios and what it means for a request to match one: the matcher     *)
(* that both registries of internal/storage share, the validation of a     *)
(* scenario, and the plain registry (scenario.go), which is the reference  *)
(* the sharded one is held against.                                        *)
(*                                                                         *)
(* A path is the sequence of its segments; an endpoint is                  *)
(*   [segs : the declared segments, lang : what a "re:" pattern accepts],  *)
(* where a segment of CaptureNames is a "{name}" placeholder and lang is   *)
(* {} for a literal endpoint.  A rule holds, per criterion, the set of     *)
(* accepted values, {} when the criterion is absent: an exact value, a     *)
(* regular expression, a contains-any list and a CIDR range all are such   *)
(* sets.  An absent header, message or address has the value None, which   *)
(* no rule accepts.                                                        *)
(***************************************************************************)
EXTENDS Integers, Sequences, FiniteSets, SequencesExt, FiniteSetsExt, TLC

CONSTANTS
    CaptureNames,  \* segments that are "{name}" placeholders
    LimitAction,   \* body_pattern_limit_action: "no_match" or "error"
    TotalUnits     \* weight.TotalUnits: 100.000 percent in thousandths

None == "none"
NoMessage == [method |-> None, uri |-> None, type |-> None, body |-> None]
NoRule == [headers |-> {}, httpMethod |-> {}, httpHeaders |-> {}, httpURL |-> {},
           body |-> {}, client |-> {}, cidr |-> {}]
Literal(segs) == [segs |-> segs, lang |-> {}]
Blank == Literal(<<>>)
\* The elements of q that are in S.
Keep(q, S) ==
    LET kept[i \in 0..Len(q)] ==
            IF i = 0 THEN <<>> ELSE IF q[i] \in S THEN Append(kept[i - 1], q[i]) ELSE kept[i - 1]
    IN  kept[Len(q)]

HasRoutes(s) == DOMAIN s.routes # {}

DefaultName == "default"
DefaultScenario ==
    [name |-> DefaultName, priority |-> -1, order |-> 0, routes |-> <<>>, methods |-> {},
     paths |-> <<>>, rule |-> NoRule, branches |-> <<>>, weights |-> <<>>, compiles |-> TRUE,
     resp |-> [fields |-> [status |-> 204], name |-> None], variants |-> <<>>]

\* No scenario matched: a ScenarioError, which no declaration can give as its response.
NoMatch == [failure |-> "no scenario matched"]
Nobody == [DefaultScenario EXCEPT !.name = None, !.resp = [fields |-> NoMatch, name |-> None]]

\* Every scenario has these fields; its endpoints and branches are lists.
IsScenario(s) ==
    /\ DOMAIN s = DOMAIN DefaultScenario /\ s.priority \in Int /\ s.order \in Nat
    /\ s.paths \in Seq(ToSet(s.paths)) /\ s.branches \in Seq(ToSet(s.branches))
    /\ \A m \in DOMAIN s.routes : s.routes[m] \in Seq(ToSet(s.routes[m]))

-----------------------------------------------------------------------------
(* Endpoints *)

IsPattern(ep) == ep.lang # {} \/ \E i \in DOMAIN ep.segs : ep.segs[i] \in CaptureNames

EndpointMatches(ep, path) ==
    IF ep.lang # {} THEN path \in ep.lang
    ELSE /\ Len(ep.segs) = Len(path)
         /\ \A i \in DOMAIN path : ep.segs[i] \in CaptureNames \cup {path[i]}

CapturesOf(ep, path) ==
    LET at == {i \in DOMAIN ep.segs : ep.lang = {} /\ ep.segs[i] \in CaptureNames}
    IN  [n \in {ep.segs[i] : i \in at} |-> path[CHOOSE i \in at : ep.segs[i] = n]]

\* The endpoints that count for this request: the routes of its method, or the list.
EndpointsFor(s, req) ==
    IF HasRoutes(s) THEN (IF req.method \in DOMAIN s.routes THEN s.routes[req.method] ELSE <<>>)
    ELSE s.paths

MethodMatches(s, req) ==
    IF HasRoutes(s) THEN req.method \in DOMAIN s.routes
    ELSE s.methods = {} \/ req.method \in s.methods

-----------------------------------------------------------------------------
(* Rules *)

Accepts(criterion, value) == criterion = {} \/ value \in criterion

\* RESPMOD looks at the response first and falls back to the request.
HttpHeaderLookup(req) ==
    IF req.method = "RESPMOD" /\ req.response.type # None THEN req.response.type
    ELSE req.request.type

RulesMatch(rule, req) ==
    /\ Accepts(rule.headers, req.header)
    /\ Accepts(rule.httpMethod, req.request.method)
    /\ Accepts(rule.httpHeaders, HttpHeaderLookup(req))
    /\ Accepts(rule.httpURL, req.request.uri)

BodyPatternMessage(req) ==
    CASE req.method = "RESPMOD" -> req.response
      [] req.method = "REQMOD"  -> req.request
      [] OTHER -> IF req.request # NoMessage THEN req.request ELSE req.response

\* "big": the body exceeds the limit; "broken": reading it fails.
BodyPatternVerdict(rule, req) ==
    LET msg == BodyPatternMessage(req)
    IN  IF rule.body = {} THEN "yes"
        ELSE CASE msg = NoMessage     -> "no"
               [] msg.body = "broken" -> "error"
               [] msg.body = "big"    -> IF LimitAction = "error" THEN "error" ELSE "no"
               [] OTHER -> IF msg.body \in rule.body THEN "yes" ELSE "no"

\* SelectBranch, counting from 1; 0 when no branch matches.
SelectBranch(s, req) ==
    LET hits == {i \in DOMAIN s.branches : RulesMatch(s.branches[i].rule, req)}
    IN  IF hits = {} THEN 0 ELSE Min(hits)

\* The verdict on one scenario and what evaluating it leaves on the request: the captures it
\* merges, and, once every rule holds, the matched branch (0: cleared).
MatchesScenario(s, req) ==
    LET eps     == EndpointsFor(s, req)
        hits    == {i \in DOMAIN eps : EndpointMatches(eps[i], req.path)}
        located == MethodMatches(s, req) /\ (eps = <<>> \/ hits # {})
        ruled   == located /\ RulesMatch(s.rule, req)
        body    == BodyPatternVerdict(s.rule, req)
        passed  == /\ ruled /\ body = "yes"
                   /\ Accepts(s.rule.client, req.client) /\ Accepts(s.rule.cidr, req.client)
        branch  == SelectBranch(s, req)
    IN  [caps    |-> IF located /\ hits # {} THEN CapturesOf(eps[Min(hits)], req.path) ELSE <<>>,
         touched |-> passed,
         branch  |-> branch,
         res     |-> CASE ruled /\ body = "error" -> "error"
                       [] passed /\ (s.branches = <<>> \/ branch > 0) -> "yes"
                       [] OTHER -> "no"]

-----------------------------------------------------------------------------
(* Validation *)

SumUnits(q) == FoldLeft(+, 0, q)

\* Either no variant has a weight or all have one and they make up 100 percent.
WeightsValid(q) ==
    \/ \A i \in DOMAIN q : q[i] = 0
    \/ /\ \A i \in DOMAIN q : q[i] \in 1..TotalUnits
       /\ SumUnits(q) = TotalUnits

RouteMapValid(routes) ==
    \A m \in DOMAIN routes : /\ m \in {"REQMOD", "RESPMOD"}
                             /\ routes[m] # <<>> /\ IsInjective(routes[m]) /\ ~Contains(routes[m], Blank)

Reserved == [REQMOD |-> <<"reqmod">>, RESPMOD |-> <<"respmod">>, OPTIONS |-> <<"options">>]

ReservedRouteValid(m, ep) ==
    \A r \in DOMAIN Reserved : 
        EndpointMatches(ep, Reserved[r]) => ~IsPattern(ep) /\ r = m /\ r # "OPTIONS"

RoutesValid(s) ==
    /\ RouteMapValid(s.routes)
    /\ \A m \in DOMAIN s.routes : \A ep \in ToSet(s.routes[m]) : ReservedRouteValid(m, ep)

BranchesValid(s) == \A i \in DOMAIN s.branches : WeightsValid(s.branches[i].weights)

\* compiles stands for the regular expressions, CIDR ranges, header lists, body files and
\* stream settings of the scenario and of its branches.
ValidateAndCompile(s) ==
    /\ s.name # None /\ s.compiles
    /\ RoutesValid(s) /\ WeightsValid(s.weights) /\ BranchesValid(s)

-----------------------------------------------------------------------------
(* The plain registry: a set of scenarios, kept in the order of Outranks.   *)

ScenarioOutranks(l, r) ==
    l.priority > r.priority \/ (l.priority = r.priority /\ l.order < r.order)

\* List and the list that Match walks; no two scenarios have the same order, so that each
\* has a place of its own.
SortedByPriority(contents) ==
    [i \in 1..Cardinality(contents) |->
        CHOOSE s \in contents : Cardinality({t \in contents : ScenarioOutranks(t, s)}) = i - 1]

FileValid(file) == \A i \in DOMAIN file : ValidateAndCompile(file[i])

\* Load: the implicit default is added unless the file declares one; order is the position.
LoadedContents(file) ==
    LET all == IF \E i \in DOMAIN file : file[i].name = DefaultName THEN file
               ELSE Append(file, DefaultScenario)
    IN  {[all[i] EXCEPT !.order = i - 1] : i \in DOMAIN all}

NextScenarioOrder(contents) ==
    Max({0} \cup {s.order + 1 : s \in contents})

\* The first scenario of that name in the list.
FirstNamed(contents, name) ==
    LET named == {s \in contents : s.name = name}
    IN  {s \in named : \A t \in named \ {s} : ScenarioOutranks(s, t)}

ScenarioOrderForAdd(contents, name) ==
    LET old == FirstNamed(contents, name)
    IN  IF old # {} THEN (CHOOSE s \in old : TRUE).order ELSE NextScenarioOrder(contents)

RemovedContents(contents, name) == contents \ FirstNamed(contents, name)

AddedContents(contents, s) ==
    RemovedContents(contents, s.name) \cup {[s EXCEPT !.order = ScenarioOrderForAdd(contents, s.name)]}

\* Match: the first scenario of the list that matches or whose evaluation fails.
FirstMatch(contents, req) ==
    LET hits == {s \in contents : MatchesScenario(s, req).res # "no"}
    IN  IF hits = {} THEN Nobody
        ELSE CHOOSE s \in hits : \A t \in hits \ {s} : ScenarioOutranks(s, t)

EndpointTopology(contents) == UNION {ToSet(s.paths) : s \in contents}

\* ValidateExactRouteTopology
TopologyKept(current, next) ==
    \/ \A s \in current \cup next : ~HasRoutes(s)
    \/ EndpointTopology(current) = EndpointTopology(next)
=============================================================================
