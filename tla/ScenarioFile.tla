---------------------------- MODULE ScenarioFile ----------------------------
(***************************************************************************)
(* The second format of the scenario file (internal/storage/               *)
(* scenario_v2.go): how defaults, named response templates, weighted       *)
(* variants and branches become the scenarios of ScenarioMatching.         *)
(*                                                                         *)
(* An optional part of a declaration is a set: {} when the key is absent,  *)
(* {v} when it is there.  The response fields of a declaration are a       *)
(* function on the fields that are set ("status", "httpStatus", "body",    *)
(* "delay", ..., and "set", "httpSet" for one header each), so that header *)
(* maps are merged key by key like the fields.  A delay is <<min, max>>.   *)
(***************************************************************************)
EXTENDS ScenarioMatching

BasePriority == 1000

Value(option, absent) == IF option = {} THEN absent ELSE CHOOSE v \in option : TRUE

\* Entries, branches and variants are lists.
IsList(q) == q \in Seq(ToSet(q))
IsFile(file) ==
    /\ IsList(file.entries)
    /\ \A entry \in ToSet(file.entries) :
          /\ IsList(entry.branches) /\ IsList(Value(entry.responses, <<>>))
          /\ \A branch \in ToSet(entry.branches) : IsList(Value(branch.responses, <<>>))
    /\ \A t \in DOMAIN file.defaults.templates : IsList(file.defaults.templates[t].variants)

-----------------------------------------------------------------------------
(* Routing *)

RouteDeclValid(routes) == DOMAIN routes # {} /\ RouteMapValid(routes)

\* routes excludes method and endpoint on its own level, even empty ones.
RoutingDeclValid(d) ==
    d.routes # {} => d.method = {} /\ d.endpoint = {} /\ RouteDeclValid(Value(d.routes, <<>>))

Failed == [ok |-> FALSE]

\* routingFromRouteMap: every endpoint once, those of REQMOD first.
RoutingFromRouteMap(routes) ==
    LET of(m) == IF m \in DOMAIN routes THEN routes[m] ELSE <<>>
    IN  [ok |-> TRUE, routes |-> routes, methods |-> DOMAIN routes,
         paths |-> of("REQMOD") \o SelectSeq(of("RESPMOD"), LAMBDA e : e \notin ToSet(of("REQMOD")))]

ValidateLegacyRouting(methods, endpoints) ==
    [ok |-> methods # {} /\ methods \subseteq {"REQMOD", "RESPMOD", "OPTIONS"} /\ endpoints # <<>>,
     routes |-> <<>>, methods |-> methods, paths |-> endpoints]

\* The scenario names methods, endpoints, both or neither over routes of the defaults.
ResolveFromDefaultRoutes(base, method, endpoint) ==
    CASE method = {} /\ endpoint = <<>> -> RoutingFromRouteMap(base)
      [] method # {} /\ endpoint # <<>> -> ValidateLegacyRouting(method, endpoint)
      [] method # {} /\ endpoint = <<>> -> IF method \subseteq DOMAIN base
                                            THEN RoutingFromRouteMap([m \in method |-> base[m]]) ELSE Failed
      [] OTHER -> LET replaced == [m \in DOMAIN base |-> endpoint]
                  IN  IF RouteDeclValid(replaced) THEN RoutingFromRouteMap(replaced) ELSE Failed

ResolveScenarioRouting(defaults, entry) ==
    LET method   == Value(entry.method, {})
        endpoint == Value(entry.endpoint, <<>>)
    IN  IF ~RoutingDeclValid(defaults) \/ ~RoutingDeclValid(entry) THEN Failed
        ELSE IF entry.routes # {} THEN RoutingFromRouteMap(Value(entry.routes, <<>>))
        ELSE IF defaults.routes # {}
             THEN ResolveFromDefaultRoutes(Value(defaults.routes, <<>>), method, endpoint)
        ELSE ValidateLegacyRouting(IF method = {} THEN Value(defaults.method, {}) ELSE method,
                                   IF endpoint = <<>> THEN Value(defaults.endpoint, <<>>) ELSE endpoint)

-----------------------------------------------------------------------------
(* Responses *)

\* ParseDelay: "500ms" is <<500, 500>>; a reversed range and a negative delay are errors.
DelayValid(fields) ==
    "delay" \in DOMAIN fields => 0 <= fields.delay[1] /\ fields.delay[1] <= fields.delay[2]

\* mergeInline, mergeHeaders
MergeInline(base, over) ==
    [f \in DOMAIN base \cup DOMAIN over |-> IF f \in DOMAIN over THEN over[f] ELSE base[f]]

\* inlineToTemplate: defaults.status, http_status and headers, then status 204.
InlineToTemplate(fields, defaults) == MergeInline(MergeInline([status |-> 204], defaults.fields), fields)

\* The file-wide template serves only a declaration that says nothing at all.
TemplateFor(inline, use, defaults) ==
    IF use = None /\ DOMAIN inline = {} THEN defaults.use ELSE use

HasTemplate(t, kind, defaults) ==
    t \in DOMAIN defaults.templates /\ defaults.templates[t].kind = kind

\* A response that is not weighted; templates do not refer to templates.
ResolveSingle(inline, use, defaults) ==
    LET single(t, fields) ==
            IF DelayValid(fields)
            THEN [ok |-> TRUE, resp |-> [fields |-> fields, name |-> t], variants |-> <<>>] ELSE Failed
        over(t, base) == single(t, InlineToTemplate(MergeInline(base, inline), defaults))
        from(t) == IF t = None THEN over(t, <<>>)
                   ELSE IF HasTemplate(t, "inline", defaults) /\ defaults.templates[t].use = None
                   THEN over(t, defaults.templates[t].inline) ELSE Failed
    IN  from(TemplateFor(inline, use, defaults))

\* Mutant: the fields of the scenario are laid over those of the variant.
VariantInlineBaseWins(variant, base) ==
    IF variant.use = None THEN MergeInline(variant.inline, base) ELSE variant.inline

\* Variants without a template of their own inherit the fields of the scenario or branch.
VariantInline(variant, base) ==
    IF variant.use = None THEN MergeInline(base, variant.inline) ELSE variant.inline

\* A variant that comes out weighted is an error.
BuildWeightedList(list, base, baseName, defaults) ==
    LET weighted(resolved) ==
            IF list # <<>> /\ WeightsValid([i \in DOMAIN list |-> list[i].weight]) /\ \A i \in DOMAIN list : resolved[i].ok
            THEN [ok |-> TRUE, resp |-> [fields |-> [status |-> 204], name |-> None],
                  variants |-> [i \in DOMAIN list |->
                      [weight |-> list[i].weight, fields |-> resolved[i].resp.fields,
                       name |-> IF list[i].use # None THEN list[i].use ELSE baseName]]]
            ELSE Failed
    IN  weighted([i \in DOMAIN list |->
                     ResolveSingle(VariantInline(list[i], base), list[i].use, defaults)])

ResolveResponse(d, defaults) ==
    LET through(t) ==
            IF ~HasTemplate(t, "weighted", defaults) THEN ResolveSingle(d.inline, d.use, defaults)
            ELSE IF DOMAIN d.inline # {} THEN Failed
            ELSE BuildWeightedList(defaults.templates[t].variants, <<>>, t, defaults)
    IN  IF d.responses = {} THEN through(TemplateFor(d.inline, d.use, defaults))
        ELSE IF d.use # None THEN Failed
        ELSE BuildWeightedList(Value(d.responses, <<>>), d.inline, None, defaults)

-----------------------------------------------------------------------------
(* The whole file *)

\* Fields that a scenario with branches may not have; set, http_set and http_body are let through.
BranchExclusive == {"status", "httpStatus", "body", "bodyFile", "error", "delay", "stream", "block"}

Weights(variants) == [i \in DOMAIN variants |-> variants[i].weight]

BuildBranches(branches, defaults) ==
    LET built(r) ==
            IF \A i \in DOMAIN r : r[i].ok
            THEN [ok |-> TRUE, list |-> [i \in DOMAIN r |->
                     [rule |-> branches[i].when, weights |-> Weights(r[i].variants),
                      resp |-> r[i].resp, variants |-> r[i].variants]]]
            ELSE Failed
    IN  built([i \in DOMAIN branches |-> ResolveResponse(branches[i], defaults)])

\* One scenario, before order is assigned.
Built(name, priority, routing, rule, branches, r) ==
    [ok |-> TRUE,
     scenario |-> [name |-> name, priority |-> priority, order |-> 0, routes |-> routing.routes,
                   methods |-> routing.methods, paths |-> routing.paths, rule |-> rule,
                   branches |-> branches, weights |-> Weights(r.variants), compiles |-> TRUE,
                   resp |-> r.resp, variants |-> r.variants]]

NoResponse == [ok |-> TRUE, resp |-> [fields |-> <<>>, name |-> None], variants |-> <<>>]

\* The body of the loop of ConvertV2ToScenarios.
ConvertEntry(file, i) ==
    LET entry    == file.entries[i]
        priority == IF entry.priority = 0 THEN BasePriority - (i - 1) ELSE entry.priority
        hasInline == \/ DOMAIN entry.inline \cap BranchExclusive # {}
                     \/ entry.responses # {} \/ entry.use # None
        branching(routing, branches) ==
            IF ~routing.ok \/ hasInline \/ ~branches.ok THEN Failed
            ELSE Built(entry.name, priority, routing, entry.when, branches.list, NoResponse)
        answering(routing, response) ==
            IF ~routing.ok \/ ~response.ok THEN Failed
            ELSE Built(entry.name, priority, routing, entry.when, <<>>, response)
    IN  IF entry.branches # <<>>
        THEN branching(ResolveScenarioRouting(file.defaults, entry), BuildBranches(entry.branches, file.defaults))
        ELSE answering(ResolveScenarioRouting(file.defaults, entry), ResolveResponse(entry, file.defaults))

DefaultsValid(defaults) ==
    /\ RoutingDeclValid(defaults)
    /\ defaults.use # None => defaults.use \in DOMAIN defaults.templates
    /\ \A t \in DOMAIN defaults.templates : defaults.templates[t].kind = "weighted" =>
           /\ defaults.templates[t].variants # <<>>
           /\ WeightsValid(Weights(defaults.templates[t].variants))

\* buildDefaultsUseFallbackScenario: no routing at all, so it is reached from everywhere.
Fallback(defaults) ==
    LET built(r) ==
            IF ~r.ok THEN Failed
            ELSE Built(DefaultName, -1, [routes |-> <<>>, methods |-> {}, paths |-> <<>>], NoRule, <<>>, r)
    IN  built(ResolveResponse([inline |-> <<>>, use |-> defaults.use, responses |-> {}], defaults))

ConvertV2ToScenarios(file) ==
    LET wanted == /\ file.defaults.use # None
                  /\ \A i \in DOMAIN file.entries : file.entries[i].name # DefaultName
        converted(all) ==
            IF DefaultsValid(file.defaults) /\ \A i \in DOMAIN all : all[i].ok
            THEN [ok |-> TRUE, list |-> [i \in DOMAIN all |-> all[i].scenario]] ELSE Failed
    IN  converted([i \in DOMAIN file.entries |-> ConvertEntry(file, i)]
                  \o (IF wanted THEN <<Fallback(file.defaults)>> ELSE <<>>))

-----------------------------------------------------------------------------
(* What a file says, read off its declarations as configs/README.md explains *)
(* them: the reference for the conversion.                                   *)

\* Own routes; or for each own or default method its own or default endpoints.
DeclaredPairs(defaults, entry) ==
    LET base     == Value(defaults.routes, <<>>)
        methods  == IF Value(entry.method, {}) # {} THEN Value(entry.method, {})
                    ELSE Value(defaults.method, {}) \cup DOMAIN base
        endpoints(m) == IF Value(entry.endpoint, <<>>) # <<>> THEN Value(entry.endpoint, <<>>)
                        ELSE IF m \in DOMAIN base THEN base[m] ELSE Value(defaults.endpoint, <<>>)
        own      == Value(entry.routes, <<>>)
    IN  IF entry.routes # {} THEN UNION {{<<m, ep>> : ep \in ToSet(own[m])} : m \in DOMAIN own}
        ELSE UNION {{<<m, ep>> : ep \in ToSet(endpoints(m))} : m \in methods}

\* The first of several levels that sets a field decides it.
Layered(levels) ==
    [f \in UNION {DOMAIN levels[i] : i \in DOMAIN levels} |->
        levels[Min({i \in DOMAIN levels : f \in DOMAIN levels[i]})][f]]

\* The responses a declaration may give, each as its fields: "Scenario/branch response fields
\* are inherited as defaults by every variant", around the template of one that uses one.
DeclaredResponses(d, defaults) ==
    LET bottom == <<defaults.fields, [status |-> 204]>>
        template(t) == IF t = None THEN <<>> ELSE <<defaults.templates[t].inline>>
        orUse(own, use) == IF use # None THEN use
                           ELSE IF \A i \in DOMAIN own : DOMAIN own[i] = {} THEN defaults.use ELSE None
        one(own, use) == Layered(own \o template(orUse(own, use)) \o bottom)
        variants(list, base) == {one(<<list[i].inline, base>>, list[i].use) : i \in DOMAIN list}
        t == orUse(<<d.inline>>, d.use)
    IN  IF d.responses # {} THEN variants(Value(d.responses, <<>>), d.inline)
        ELSE IF HasTemplate(t, "weighted", defaults) THEN variants(defaults.templates[t].variants, <<>>)
        ELSE {one(<<d.inline>>, d.use)}

\* Whether an entry applies: one of its pairs and its rules hold, and of its branches one.
Applies(file, i, req) ==
    LET entry == file.entries[i]
    IN  /\ \E pair \in DeclaredPairs(file.defaults, entry) :
               pair[1] = req.method /\ EndpointMatches(pair[2], req.path)
        /\ RulesMatch(entry.when, req) /\ BodyPatternVerdict(entry.when, req) = "yes"
        /\ Accepts(entry.when.client, req.client) /\ Accepts(entry.when.cidr, req.client)
        /\ entry.branches # <<>> => \E b \in DOMAIN entry.branches : RulesMatch(entry.branches[b].when, req)

\* A request no entry applies to in a file without a file-wide template.
Unanswered(file, req) ==
    file.defaults.use = None /\ \A i \in DOMAIN file.entries : ~Applies(file, i, req)

\* The answer to a request: the first entry that applies, the first of its branches that does;
\* otherwise the file-wide template, "(otherwise ICAP 404)".
DeclaredAnswer(file, req) ==
    LET hits == {i \in DOMAIN file.entries : Applies(file, i, req)}
        entry == file.entries[Min(hits)]
        branch == entry.branches[Min({b \in DOMAIN entry.branches : RulesMatch(entry.branches[b].when, req)})]
    IN  IF hits # {}
        THEN DeclaredResponses(IF entry.branches = <<>> THEN entry ELSE branch, file.defaults)
        ELSE IF file.defaults.use # None
        THEN DeclaredResponses([inline |-> <<>>, use |-> file.defaults.use, responses |-> {}], file.defaults)
        ELSE {NoMatch}
=============================================================================
