------------------------- MODULE MCScenarioWatcher -------------------------
(* Model values of ScenarioWatcher for TLC. *)
EXTENDS ScenarioWatcher

A == Literal(<<"a">>)
B == Literal(<<"b">>)
C == Literal(<<"c">>)

NoDefaults == [routes |-> {}, method |-> {}, endpoint |-> {}, use |-> None, fields |-> <<>>, templates |-> <<>>]
Entry(name) == [name |-> name, priority |-> 0, routes |-> {}, method |-> {}, endpoint |-> {}, when |-> NoRule,
                inline |-> <<>>, use |-> None, responses |-> {}, branches |-> <<>>]
Template(inline) == [kind |-> "inline", inline |-> inline, use |-> None, variants |-> <<>>]
WeightedTemplate(q) == [kind |-> "weighted", inline |-> <<>>, use |-> None, variants |-> q]
Variant(inline, use, weight) == [inline |-> inline, use |-> use, weight |-> weight]
Branch(rule, inline, use) == [when |-> rule, inline |-> inline, use |-> use, responses |-> {}]
H == [NoRule EXCEPT !.headers = {"h"}]

Templates == [allow |-> Template([status |-> 200, set |-> "t"]),
              mix |-> WeightedTemplate(<<Variant([body |-> "x"], None, 40), Variant(<<>>, "allow", 60)>>)]
\* Default routes, of which the entries take all, one method, other endpoints, or none.
Routed == [defaults |-> [NoDefaults EXCEPT !.routes = {[REQMOD |-> <<A, B>>, RESPMOD |-> <<B>>]}, !.use = "allow",
                            !.fields = [status |-> 403, set |-> "d"], !.templates = Templates],
           entries |-> <<[Entry("header") EXCEPT !.when = H, !.use = "mix"],
                         [Entry("one") EXCEPT !.method = {{"RESPMOD"}}, !.inline = [body |-> "y"]],
                         [Entry("moved") EXCEPT !.endpoint = {<<C>>},
                             !.branches = <<Branch(H, [status |-> 500], None), Branch(NoRule, <<>>, None)>>],
                         [Entry("own") EXCEPT !.routes = {[REQMOD |-> <<A>>]},
                             !.inline = [status |-> 201, delay |-> <<5, 5>>],
                             !.responses = {<<Variant([status |-> 202], None, 0), Variant([body |-> "z"], None, 0)>>}],
                         [Entry("mixed") EXCEPT !.routes = {[REQMOD |-> <<B>>]},
                             !.responses = {<<Variant([body |-> "w"], "allow", 0), Variant(<<>>, None, 0)>>}]>>]
\* The same endpoints by method and endpoint, no file-wide template, no scenario called default.
Legacy == [defaults |-> [NoDefaults EXCEPT !.method = {{"REQMOD", "OPTIONS"}}, !.endpoint = {<<A, B, C>>}],
           entries |-> <<[Entry("late") EXCEPT !.when = H],
                         [Entry("mine") EXCEPT !.when = [NoRule EXCEPT !.client = {"me"}, !.body = {"x"}],
                             !.inline = [status |-> 403]],
                         [Entry("a") EXCEPT !.endpoint = {<<A>>}, !.inline = [httpStatus |-> 418]],
                         [Entry("b") EXCEPT !.method = {{"RESPMOD"}}, !.endpoint = {<<B>>}]>>]
\* A fallback of its own, which leaves requests unanswered.
Plain == [Legacy EXCEPT !.entries[1].name = "default", !.defaults.endpoint = {<<A>>}]
\* Refused: a reversed delay range.
BadDelay == [Plain EXCEPT !.entries[2].inline = [delay |-> <<9, 1>>]]

SomeRevisions == <<Routed, BadDelay, Legacy, Plain>>
Request(m, ep, header) == [method |-> m, path |-> ep.segs, header |-> header, client |-> None,
                           request |-> NoMessage, response |-> NoMessage]
SomeRequests == {Request(m, ep, h) : m \in {"REQMOD", "RESPMOD"}, ep \in {A, B, C}, h \in {"h", None}}
                \cup {[Request("REQMOD", A, None) EXCEPT !.client = c, !.request = [NoMessage EXCEPT !.body = "x"]] :
                          c \in {"me", "you"}}

ASSUME RegularInstance == \A n \in DOMAIN Revisions : Regular(Revisions[n])
=============================================================================
