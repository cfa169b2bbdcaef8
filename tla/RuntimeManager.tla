--------------------------- MODULE RuntimeManager ---------------------------
(***************************************************************************)
(* Live reconfiguration: the management endpoints (internal/health/api.go) *)
(* over management.RuntimeManager and its ManagedScenarioRegistry objects, *)
(* with the apply callback that startHealthServer registers.               *)
(*                                                                         *)
(* Calls run concurrently, each on a goroutine of the HTTP server.  m.mu   *)
(* and the write locks of the registries are variables; a read lock of a   *)
(* registry, Checker.mu and stateMu are held within one action.  The       *)
(* request context is never undone, so its cancellation is a choice at     *)
(* each place where the code looks at it.                                  *)
(*                                                                         *)
(* A configuration keeps what a reload tells apart: static stands for      *)
(* everything staticConfigSnapshot compares, src for the scenario sources  *)
(* (directory and inline entries of every set), ops for the management     *)
(* section ({} when it is disabled).  A scenario source holds a content:   *)
(* whether it uses exact routes, its endpoints, its number of scenarios.   *)
(***************************************************************************)
EXTENDS Integers, Sequences, FiniteSets

CONSTANTS
    Calls,      \* slots for concurrent management requests
    SetSeq,     \* names of the scenario sets, in registration order
    Paths,      \* configuration files
    Srcs,       \* scenario sources a configuration may name
    Configs,    \* valid file contents: [static, src, ops]
    Contents,   \* valid scenario contents: [exact, paths, count]
    Bad,        \* a file that cannot be read, is too large or is invalid
    NoPath,     \* configPath of a server started without a file
    StartFiles, \* configuration files at startup, one function per initial state
    StartDisks, \* scenario sources at startup, likewise
    MaxCount,   \* bound: scenarios in one content
    MaxCalls,   \* bound: management requests
    MaxEdits    \* bound: edits of files by the operator

Sets == {SetSeq[i] : i \in DOMAIN SetSeq}
Ops  == {"scenarios", "config"}
Kinds == {"reload-scenarios", "reload-current", "load"}

ASSUME ManagerAssumption ==
    /\ SetSeq \in Seq(Sets) /\ SetSeq # <<>>
    /\ \A i, j \in DOMAIN SetSeq : SetSeq[i] = SetSeq[j] => i = j
    /\ IsFiniteSet(Calls) /\ "free" \notin Calls
    /\ Bad \notin Configs \cup Contents /\ NoPath \notin Paths
    /\ \A v \in Configs : v.src \in Srcs /\ v.ops \subseteq Ops
    /\ \A v \in Contents : v.exact \in BOOLEAN /\ v.count \in 0..MaxCount
    /\ StartFiles \subseteq [Paths -> Configs]
    /\ StartDisks \subseteq [Srcs -> [Sets -> Contents]]
    /\ {MaxCount, MaxCalls, MaxEdits} \subseteq Nat

VARIABLES
    cfg,         \* m.cfg
    configPath,  \* m.configPath
    spec,        \* m.sets[i].Dir and .Apply, per set
    mu,          \* holder of m.mu, or "free"
    active,      \* per set: content of the active registry, its source and its generation
    wlocked,     \* registries whose mutex is write-locked
    api,         \* APIHandler.state: the management section in force
    health,      \* Checker.scenariosCount
    gauge,       \* scenarios-loaded metric, per set
    call,        \* the requests in progress
    file,        \* configuration files on disk
    disk,        \* scenario sources on disk, per source and set
    swaps,       \* history: replacements applied so far
    arrived,     \* requests so far
    edits        \* edits so far

mgrVars  == <<cfg, configPath, spec>>
regVars  == <<active, wlocked, swaps>>
pubVars  == <<api, health, gauge>>
envVars  == <<file, disk, arrived, edits>>
vars == <<mgrVars, mu, regVars, pubVars, call, envVars>>

Pcs == {"idle", "auth", "allow", "path", "read", "lock", "build", "wlock", "swap", "wunlock",
        "commit", "configure", "count", "tally", "publish"}

IdleCall == [pc |-> "idle", kind |-> "load", path |-> NoPath, new |-> Bad,
             built |-> <<>>, round |-> 1, total |-> 0, seen |-> <<>>]

MaxTotal == Len(SetSeq) * MaxCount

Counts == 0..MaxCount
SeqUpTo(S) == UNION {[1..n -> S] : n \in 0..Len(SetSeq)}

TypeOK ==
    /\ cfg \in Configs /\ configPath \in Paths \cup {NoPath}
    /\ spec \in [Sets -> Srcs] /\ mu \in Calls \cup {"free"}
    /\ \A s \in Sets : /\ active[s].content \in Contents
                       /\ active[s].src \in Srcs /\ active[s].gen \in 0..swaps
    /\ wlocked \subseteq Sets
    /\ api \subseteq Ops /\ health \in 0..MaxTotal /\ gauge \in [Sets -> Counts]
    /\ \A c \in Calls : /\ call[c].pc \in Pcs /\ call[c].kind \in Kinds
                        /\ call[c].path \in Paths \cup {NoPath}
                        /\ call[c].new \in Configs \cup {Bad}
                        /\ call[c].built \in SeqUpTo(Contents)
                        /\ call[c].round \in 1..2 /\ call[c].total \in 0..MaxTotal
                        /\ call[c].seen \in SeqUpTo(Counts)
    /\ file \in [Paths -> Configs \cup {Bad}]
    /\ disk \in [Srcs -> [Sets -> Contents \cup {Bad}]]
    /\ swaps \in 0..MaxCalls /\ arrived \in 0..MaxCalls /\ edits \in 0..MaxEdits

SumOf(q) == LET part[i \in 0..Len(q)] == IF i = 0 THEN 0 ELSE part[i - 1] + q[i]
            IN  part[Len(q)]

CountsOf(reg) == [i \in DOMAIN SetSeq |-> reg[SetSeq[i]].content.count]

\* NewRuntimeManager, startAllServers (one set per server) and startHealthServer (callback, SetupAPI, first counts).
Init ==
    \E start \in Paths :
        /\ file \in StartFiles /\ disk \in StartDisks
        /\ cfg = file[start] /\ configPath \in {start, NoPath}
        /\ spec = [s \in Sets |-> cfg.src]
        /\ active = [s \in Sets |-> [content |-> disk[cfg.src][s], src |-> cfg.src, gen |-> 0]]
        /\ mu = "free" /\ wlocked = {} /\ swaps = 0
        /\ api = cfg.ops
        /\ health = SumOf(CountsOf(active))
        /\ gauge = [s \in Sets |-> active[s].content.count]
        /\ call = [c \in Calls |-> IdleCall]
        /\ arrived = 0 /\ edits = 0

-----------------------------------------------------------------------------
(* Helpers: the program counter of a call and its two answers.             *)

At(c, pc)   == call[c].pc = pc
Goto(c, pc) == call' = [call EXCEPT ![c].pc = pc]
Answer(c)   == call' = [call EXCEPT ![c] = IdleCall]

\* Mutant: only the routes already active are looked at.
SameTopologyIfActiveExact(current, next) == current.exact => current.paths = next.paths

\* ValidateExactRouteTopology: endpoint sets must agree once either side has exact routes.
SameTopology(current, next) ==
    current.exact \/ next.exact => current.paths = next.paths

IsConfigCall(c) == call[c].kind # "reload-scenarios"

\* The source set s is loaded from: m.sets as it is, or with the specs of the new config.
SourceOf(c, s) == IF IsConfigCall(c) THEN call[c].new.src ELSE spec[s]

\* LoadScenarioDirectory and the inline scenarios: all of the source, or an error (Bad).
LoadSource(c, s) == disk[SourceOf(c, s)][s]

\* rejectUnsupportedRuntimeChange, updatedScenarioSets: the parts that need a restart differ.
NeedsRestart(c) == call[c].new.static # cfg.static

-----------------------------------------------------------------------------
(* The HTTP side.                                                          *)

\* An HTTP request reaches its route; a load request names a path.
Arrive(c, kind, p) ==
    /\ At(c, "idle") /\ arrived < MaxCalls
    /\ arrived' = arrived + 1
    /\ call' = [call EXCEPT ![c] = [IdleCall EXCEPT !.pc = "auth", !.kind = kind,
                                       !.path = IF kind = "load" THEN p ELSE NoPath]]
    /\ UNCHANGED <<mgrVars, mu, regVars, pubVars, file, disk, edits>>

\* withAuth: 403 when management is disabled, 401 for a wrong token.
Authenticate(c) ==
    /\ At(c, "auth")
    /\ \/ Answer(c)
       \/ api # {} /\ Goto(c, "allow")
    /\ UNCHANGED <<mgrVars, mu, regVars, pubVars, envVars>>

\* handleScenariosReload, allowConfigOperation: the state is read again; 403 when this
\* operation is disabled, 405 and 400 for a wrong method or body.
Allow(c) ==
    /\ At(c, "allow")
    /\ \/ Answer(c)
       \/ /\ (IF IsConfigCall(c) THEN "config" ELSE "scenarios") \in api
          /\ Goto(c, CASE call[c].kind = "reload-scenarios" -> "lock"
                       [] call[c].kind = "reload-current"   -> "path"
                       [] OTHER                             -> "read")
    /\ UNCHANGED <<mgrVars, mu, regVars, pubVars, envVars>>

-----------------------------------------------------------------------------
(* The manager.                                                            *)

\* ReloadCurrentConfig: the path is read under mu, and mu released.
ReadCurrentPath(c) ==
    /\ At(c, "path") /\ mu = "free"
    /\ \/ configPath = NoPath /\ Answer(c)
       \/ /\ configPath # NoPath
          /\ call' = [call EXCEPT ![c].path = configPath, ![c].pc = "read"]
    /\ UNCHANGED <<mgrVars, mu, regVars, pubVars, envVars>>

\* LoadConfigFromPath up to loadAndValidate, without mu: cancelled, unusable file, or read.
LoadAndValidate(c) ==
    /\ At(c, "read")
    /\ \/ Answer(c)
       \/ /\ file[call[c].path] # Bad
          /\ call' = [call EXCEPT ![c].new = file[call[c].path], ![c].pc = "lock"]
    /\ UNCHANGED <<mgrVars, mu, regVars, pubVars, envVars>>

\* ReloadScenarios: m.mu is held to the end of the call.
LockForReload(c) ==
    /\ At(c, "lock") /\ mu = "free" /\ ~IsConfigCall(c)
    /\ mu' = c /\ Goto(c, "build")
    /\ UNCHANGED <<mgrVars, regVars, pubVars, envVars>>

\* LoadConfigFromPath: m.mu.Lock and the first checks of planConfigApply.
LockForConfig(c) ==
    /\ At(c, "lock") /\ mu = "free" /\ IsConfigCall(c)
    /\ IF NeedsRestart(c) THEN Answer(c) /\ mu' = mu
                          ELSE Goto(c, "build") /\ mu' = c
    /\ UNCHANGED <<mgrVars, regVars, pubVars, envVars>>

\* Mutant: the error of a set that cannot be loaded is dropped.
BuildReplacementUnchecked(c) ==
    /\ At(c, "build")
    /\ LET done == call[c].built
           s    == SetSeq[Len(done) + 1]
           v    == LoadSource(c, s)
       IN  /\ v = Bad \/ SameTopology(active[s].content, v)
           /\ call' = [call EXCEPT ![c].built = Append(done, v),
                          ![c].pc = IF Len(done) + 1 = Len(SetSeq) THEN "wlock" ELSE "build"]
    /\ UNCHANGED <<mgrVars, mu, regVars, pubVars, envVars>>

\* buildScenarioReplacements, one set: cancelled, not loadable, endpoints changed, or built.
BuildReplacement(c) ==
    /\ At(c, "build")
    /\ LET done == call[c].built
           s    == SetSeq[Len(done) + 1]
           v    == LoadSource(c, s)
       IN  \/ Answer(c) /\ mu' = "free"
           \/ /\ v # Bad /\ SameTopology(active[s].content, v)
              /\ call' = [call EXCEPT ![c].built = Append(done, v),
                             ![c].pc = IF Len(done) + 1 = Len(SetSeq) THEN "wlock" ELSE "build"]
              /\ mu' = mu
    /\ UNCHANGED <<mgrVars, regVars, pubVars, envVars>>

\* Mutant: ManagedScenarioRegistry.Replace on one registry after another.
ReplaceOneByOne(c) ==
    /\ At(c, "wlock")
    /\ LET n == Cardinality({s \in Sets : active[s].gen = swaps + 1}) + 1
           s == SetSeq[n]
       IN  /\ active' = [active EXCEPT ![s] = [content |-> call[c].built[n],
                                               src |-> SourceOf(c, s), gen |-> swaps + 1]]
           /\ swaps' = IF n = Len(SetSeq) THEN swaps + 1 ELSE swaps
           /\ Goto(c, IF n = Len(SetSeq) THEN "commit" ELSE "wlock")
    /\ UNCHANGED <<mgrVars, mu, wlocked, pubVars, envVars>>

\* lockScenarioRegistries, one registry, in the order of m.sets.
LockRegistry(c) ==
    /\ At(c, "wlock")
    /\ LET n == Cardinality(wlocked) + 1 IN
       /\ wlocked' = wlocked \cup {SetSeq[n]}
       /\ Goto(c, IF n = Len(SetSeq) THEN "swap" ELSE "wlock")
    /\ UNCHANGED <<mgrVars, mu, active, swaps, pubVars, envVars>>

\* replaceScenarioSets: with every registry locked no reader can see the loop half done.
SwapRegistries(c) ==
    /\ At(c, "swap")
    /\ swaps' = swaps + 1
    /\ active' = [s \in Sets |->
                    LET i == CHOOSE j \in DOMAIN SetSeq : SetSeq[j] = s
                    IN  [content |-> call[c].built[i], src |-> SourceOf(c, s), gen |-> swaps + 1]]
    /\ Goto(c, "wunlock")
    /\ UNCHANGED <<mgrVars, mu, wlocked, pubVars, envVars>>

\* unlockScenarioRegistries, one registry, in reverse order.
UnlockRegistry(c) ==
    /\ At(c, "wunlock")
    /\ wlocked' = wlocked \ {SetSeq[Cardinality(wlocked)]}
    /\ Goto(c, IF Cardinality(wlocked) = 1 THEN "commit" ELSE "wunlock")
    /\ UNCHANGED <<mgrVars, mu, active, swaps, pubVars, envVars>>

\* End of ReloadScenarios: m.sets is assigned to itself, mu released.
CommitReload(c) ==
    /\ At(c, "commit") /\ ~IsConfigCall(c)
    /\ mu' = "free" /\ Goto(c, "count")
    /\ UNCHANGED <<mgrVars, regVars, pubVars, envVars>>

\* Mutant: m.sets is not replaced.
CommitKeepsSets(c) ==
    /\ At(c, "commit") /\ IsConfigCall(c)
    /\ cfg' = call[c].new /\ configPath' = call[c].path
    /\ mu' = "free" /\ Goto(c, "configure")
    /\ UNCHANGED <<spec, regVars, pubVars, envVars>>

\* Mutant: the callbacks run before mu is released.
CommitNotifiesUnderMu(c) ==
    /\ At(c, "commit") /\ IsConfigCall(c)
    /\ spec' = [s \in Sets |-> SourceOf(c, s)]
    /\ cfg' = call[c].new /\ configPath' = call[c].path
    /\ Goto(c, "configure")
    /\ UNCHANGED <<mu, regVars, pubVars, envVars>>

\* The rest of LoadConfigFromPath's critical section: m.sets, m.cfg, m.configPath.
CommitConfig(c) ==
    /\ At(c, "commit") /\ IsConfigCall(c)
    /\ spec' = [s \in Sets |-> SourceOf(c, s)]
    /\ cfg' = call[c].new /\ configPath' = call[c].path
    /\ mu' = "free" /\ Goto(c, "configure")
    /\ UNCHANGED <<regVars, pubVars, envVars>>

-----------------------------------------------------------------------------
(* After the critical section: the apply callback of a config, or the      *)
(* counts of handleScenariosReload.                                        *)

\* The callback's first step, ConfigureManagement.
Configure(c) ==
    /\ At(c, "configure")
    /\ api' = call[c].new.ops
    /\ Goto(c, "count")
    /\ UNCHANGED <<mgrVars, mu, regVars, health, gauge, envVars>>

\* ScenarioCounts: m.sets is copied under mu.
CopySets(c) ==
    /\ At(c, "count") /\ mu = "free"
    /\ call' = [call EXCEPT ![c].pc = "tally", ![c].seen = <<>>]
    /\ UNCHANGED <<mgrVars, mu, regVars, pubVars, envVars>>

\* scenarioSetCounts: the next registry is listed under its read lock.  The first round
\* is ScenarioCount; a config callback sets the health count right after it.
TallySet(c) ==
    /\ At(c, "tally")
    /\ LET s    == SetSeq[Len(call[c].seen) + 1]
           seen == Append(call[c].seen, active[s].content.count)
           last == Len(seen) = Len(SetSeq)
       IN  /\ s \notin wlocked
           /\ call' = [call EXCEPT
                 ![c].seen  = seen,
                 ![c].total = IF last /\ call[c].round = 1 THEN SumOf(seen) ELSE @,
                 ![c].round = IF last THEN 2 ELSE @,
                 ![c].pc    = IF ~last THEN "tally"
                              ELSE IF call[c].round = 1 THEN "count" ELSE "publish"]
           /\ health' = IF last /\ call[c].round = 1 /\ IsConfigCall(c)
                        THEN SumOf(seen) ELSE health
    /\ UNCHANGED <<mgrVars, mu, regVars, api, gauge, envVars>>

\* The per-set metric; a scenario reload sets the health count last.  The call answers 200.
Publish(c) ==
    /\ At(c, "publish")
    /\ gauge' = [s \in Sets |->
                   call[c].seen[CHOOSE j \in DOMAIN SetSeq : SetSeq[j] = s]]
    /\ health' = IF IsConfigCall(c) THEN health ELSE call[c].total
    /\ Answer(c)
    /\ UNCHANGED <<mgrVars, mu, regVars, api, envVars>>

-----------------------------------------------------------------------------
(* The operator, external: configuration and scenario files change at any  *)
(* time, between two reads of the same call too.                           *)

EditConfigFile(p, v) ==
    /\ edits < MaxEdits /\ v # file[p]
    /\ edits' = edits + 1 /\ file' = [file EXCEPT ![p] = v]
    /\ UNCHANGED <<mgrVars, mu, regVars, pubVars, call, disk, arrived>>

EditScenarios(d, s, v) ==
    /\ edits < MaxEdits /\ v # disk[d][s]
    /\ edits' = edits + 1 /\ disk' = [disk EXCEPT ![d][s] = v]
    /\ UNCHANGED <<mgrVars, mu, regVars, pubVars, call, file, arrived>>

CallStep(c) ==
    \/ Authenticate(c) \/ Allow(c)
    \/ ReadCurrentPath(c) \/ LoadAndValidate(c)
    \/ LockForReload(c) \/ LockForConfig(c) \/ BuildReplacement(c)
    \/ LockRegistry(c) \/ SwapRegistries(c) \/ UnlockRegistry(c)
    \/ CommitReload(c) \/ CommitConfig(c)
    \/ Configure(c) \/ CopySets(c) \/ TallySet(c) \/ Publish(c)

Next ==
    \/ \E c \in Calls : CallStep(c) \/ \E k \in Kinds, p \in Paths : Arrive(c, k, p)
    \/ \E p \in Paths, v \in Configs \cup {Bad} : EditConfigFile(p, v)
    \/ \E d \in Srcs, s \in Sets, v \in Contents \cup {Bad} : EditScenarios(d, s, v)

\* Goroutines of the HTTP server run until they block; with finitely many requests a
\* free mutex stays free, so weak fairness is enough.
Spec == Init /\ [][Next]_vars /\ \A c \in Calls : WF_vars(CallStep(c))

-----------------------------------------------------------------------------
(* Properties.                                                             *)

\* ReloadScenarios "swaps them together" (manager.go:142): registries that a request can
\* read at the same moment are all of one generation, so no request sees the new scenarios
\* on one server and, later, the old ones on another.
ReadableSetsAgree ==
    \A s, t \in Sets \ wlocked : active[s].gen = active[t].gen

\* Outside the critical section the running configuration is of one piece: every registry
\* was loaded from the sources m.cfg names, and the next scenario reload will use them too.
\* Concurrent reloads and loads, and calls that fail half way, leave it so.
ServedFromCurrentConfig ==
    mu = "free" => \A s \in Sets : active[s].src = cfg.src /\ spec[s] = cfg.src

\* A live change never touches what needs a restart: the static configuration, and the
\* endpoints of a set on either side of which there are exact routes.  Building and
\* checking a replacement and swapping it in must be one critical section for this.
RestartOnlyPartsAreKept ==
    [][/\ cfg'.static = cfg.static
       /\ \A s \in Sets : active[s].content.exact \/ active'[s].content.exact =>
                            active'[s].content.paths = active[s].content.paths]_vars

\* Every management request is answered: the callback of a load takes m.mu again for the
\* counts, and readers wait for write-locked registries.
EveryCallReturns == \A c \in Calls : call[c].pc # "idle" ~> call[c].pc = "idle"
=============================================================================
