--------------------------- MODULE MCRequestPath ---------------------------
(* Model values of RequestPath for TLC. *)
EXTENDS RequestPath

A == Literal(<<"a">>)
B == Literal(<<"b">>)
C == Literal(<<"c">>)
AX == Literal(<<"a", "{x}">>)
Names == {"{x}"}

Scenario(name) == [DefaultScenario EXCEPT !.name = name]
\* OPTIONS on the literal path by a second scenario, a capture endpoint, and no other path.
SomeScenarios == <<[Scenario("routed") EXCEPT !.routes = [REQMOD |-> <<A, AX>>], !.methods = {"REQMOD"}, !.paths = <<A, AX>>],
                   [Scenario("plain") EXCEPT !.methods = {"OPTIONS"}, !.paths = <<A>>],
                   DefaultScenario>>
Request(m, path) == [method |-> m, path |-> path]
SomeTargets == {Request("OPTIONS", <<"a">>), Request("OPTIONS", <<"a", "b">>), Request("REQMOD", <<"reqmod">>)}
Literals == <<[Scenario("plain") EXCEPT !.paths = <<A, B, C>>]>>
ThreeTargets == {Request("RESPMOD", ep.segs) : ep \in {A, B, C}}
OneTarget == {Request("OPTIONS", <<"a", "b">>)}
RoutedPath == {A.segs}
Symmetry == Permutations(Procs)
=============================================================================
