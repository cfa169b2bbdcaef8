------------------------- MODULE AdmissionControl -------------------------
(***************************************************************************)
(* What the connection limit of an ICAP server promises, without its       *)
(* goroutines: at most Limit connections are held at a time, each          *)
(* connection is admitted at most once and released at most once, and a    *)
(* connection is refused only while all Limit places are taken.            *)
(***************************************************************************)
EXTENDS Integers, FiniteSets

CONSTANTS Clients, Limit

VARIABLES
    held,     \* connections being served
    refused,  \* connections turned away
    past      \* connections served and released

vars == <<held, refused, past>>

Init == held = {} /\ refused = {} /\ past = {}

Fresh(c) == c \notin held \cup refused \cup past

Admit(c) ==
    /\ Fresh(c) /\ Cardinality(held) < Limit
    /\ held' = held \cup {c}
    /\ UNCHANGED <<refused, past>>

Refuse(c) ==
    /\ Fresh(c) /\ Cardinality(held) = Limit
    /\ refused' = refused \cup {c}
    /\ UNCHANGED <<held, past>>

Release(c) ==
    /\ c \in held
    /\ held' = held \ {c}
    /\ past' = past \cup {c}
    /\ UNCHANGED refused

Next == \E c \in Clients : Admit(c) \/ Refuse(c) \/ Release(c)

Spec == Init /\ [][Next]_vars
=============================================================================
