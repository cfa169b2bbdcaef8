-------------------------- MODULE MCRuntimeManager --------------------------
(* Model values of RuntimeManager for TLC. *)
EXTENDS RuntimeManager

TwoSets == <<"proxy", "av">>
OneSet  == <<"proxy">>

Config(static, src, ops) == [static |-> static, src |-> src, ops |-> ops]
Content(exact, path, count) == [exact |-> exact, paths |-> {path}, count |-> count]

\* Two configurations that differ in all that is reloadable, and one that needs a restart.
Base    == Config("s1", "d1", Ops)
Other   == Config("s1", "d2", {"scenarios"})
Restart == Config("s2", "d1", Ops)
ThreeConfigs == {Base, Other, Restart}
TwoFiles     == {[p \in Paths |-> IF p = "p1" THEN Base ELSE v] : v \in {Other, Restart}}
OneConfig    == {Base}
OneFile      == {[p \in Paths |-> Base]}

\* Plain endpoints and exact routes, on the same endpoint and on another.
PlainA == Content(FALSE, "/a", 1)
ExactA == Content(TRUE, "/a", 1)
PlainB == Content(FALSE, "/b", 2)
ExactB == Content(TRUE, "/b", 2)
FewContents == {PlainA, ExactA, PlainB}
AllContents == {PlainA, ExactA, PlainB, ExactB}
TwoDisks    == {[d \in Srcs |-> [s \in Sets |-> IF d = "d1" THEN PlainA ELSE ExactA]]}
OneDisk     == {[d \in Srcs |-> [s \in Sets |-> v]] : v \in AllContents}
=============================================================================
