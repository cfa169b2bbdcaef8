------------------------- MODULE MCShardedRegistry -------------------------
(* Model values of ShardedRegistry for TLC. *)
EXTENDS ShardedRegistry

A  == <<"a">>
AB == <<"a", "b">>
AX == <<"a", "{x}">>
TwoShards == (A :> 1) @@ (AB :> 2)
Dots == ("v1.0" :> "v1")
Names == {"{x}"}

Scenario(name, priority) == [DefaultScenario EXCEPT !.name = name, !.priority = priority]
OnPath(s, path, methods) == [s EXCEPT !.paths = <<Literal(path)>>, !.methods = methods]
OnRoutes(s, routes) ==
    [s EXCEPT !.routes = [m \in DOMAIN routes |-> <<Literal(routes[m])>>], !.methods = DOMAIN routes,
              !.paths = SetToSeq({Literal(routes[m]) : m \in DOMAIN routes})]

\* An endpoint, an exact route that lives in both shards, a pattern with a body rule, and two
\* scenarios to add: one that replaces the first on another endpoint, one with a header rule
\* on two endpoints, which outranks all.
Plain    == OnPath(Scenario("plain", 5), AB, {})
Routed   == OnRoutes(Scenario("routed", 3), [REQMOD |-> AB, RESPMOD |-> A])
Captured == [OnPath(Scenario("captured", 0), AX, {"REQMOD"}) EXCEPT !.rule.httpURL = {"u"}, !.rule.body = {"ok"}]
PlainLow == OnPath(Scenario("plain", 1), A, {"REQMOD"})
Guarded  == [Scenario("guarded", 9) EXCEPT !.paths = <<Literal(A), Literal(AB)>>, !.rule.headers = {"h"}]
Broken  == [Scenario("broken", 1) EXCEPT !.weights = <<60, 30>>]
Branching == [OnPath(Scenario("branching", 5), AB, {}) EXCEPT
                 !.branches = <<[rule |-> [NoRule EXCEPT !.headers = {"h"}], weights |-> <<>>],
                                [rule |-> NoRule, weights |-> <<>>]>>]

Request(method, path, header, body) ==
    [method |-> method, path |-> path, header |-> header, client |-> None,
     request |-> [method |-> "GET", uri |-> "u", type |-> None, body |-> body],
     response |-> NoMessage]

TwoFiles     == {<<Plain, Routed>>, <<Captured, Routed>>}
TwoRequests  == {Request("REQMOD", AB, "h", "ok"), Request("REQMOD", AB, None, "big")}
SomeOps      == {[kind |-> "load"], [kind |-> "reload"], [kind |-> "add", s |-> PlainLow], [kind |-> "add", s |-> Guarded],
                 [kind |-> "add", s |-> Broken], [kind |-> "remove", name |-> "routed"]}
Symmetry     == Permutations(Mutators)
LoadOnly     == {[kind |-> "load"]}
BranchFile   == {<<Branching>>}

\* Files, requests and operations are such that answers are those of the plain registry.
ASSUME RegularInstance == Regular
=============================================================================
