------------------------------ MODULE RequestPath ------------------------------
(***************************************************************************)
(* The path of a request (internal/gateway): a configuration, translated   *)
(* from etcd or read from a file, is validated and compiled into a         *)
(* snapshot; a request is matched to a route of the snapshot it acquired,  *)
(* runs through the handlers of the route and of its service, and goes to  *)
(* an endpoint. Reloads replace the snapshot while requests run. How a     *)
(* snapshot is acquired and closed is the subject of Gateway and           *)
(* RuntimeSnapshot; here a request keeps the one that it took.             *)
(*                                                                         *)
(* The request context of Hertz is external: its Next runs the handlers    *)
(* after its index until the index is past the end; a handler may call     *)
(* Next itself, and Abort moves the index past the end.                    *)
(***************************************************************************)
EXTENDS Trace, Transform

CONSTANTS
  Workers,      \* goroutines that serve requests
  Requests,     \* requests [method, host, path, fields]
  Snapshots,    \* contents of etcd that may be loaded, by name
  FileOptions,  \* configurations that may be read from a file, by name
  weight,       \* the weight that the endpoints with an address have
  MaxLoads,     \* bound on the configurations loaded
  MaxRequests   \* bound on the requests served

VARIABLES
  snapshots,  \* the snapshots compiled so far; the last one is current
  next,       \* Balancer.next of each upstream of each snapshot
  serving,    \* what each worker does
  loads,      \* number of configurations loaded
  picks,      \* history: the endpoints picked, by their places in the list
  requests    \* number of requests taken

vars == <<snapshots, next, serving, loads, picks, requests>>

\* The resources and configurations are what they can be; paths without "$".
ASSUME PathAssumption ==
  /\ \A name \in DOMAIN Snapshots : IsContent(Snapshots[name])
  /\ \A name \in DOMAIN FileOptions : IsOptions(FileOptions[name])
  /\ \A request \in Requests : "$" \notin Range(request.path)

Idle == [pc |-> "idle"]

-----------------------------------------------------------------------------
\* The configuration that a source gives.
FromEtcd(name) == [etcd |-> TRUE, name |-> name]
FromFile(name) == [etcd |-> FALSE, name |-> name]
Translation == [name \in DOMAIN Snapshots |-> ApisixSnapshotToConfig(Snapshots[name])]
OptionsOf(source) == IF source.etcd THEN Translation[source.name] ELSE FileOptions[source.name]

\* The chains are short: see ShortChains.
ASSUME ChainAssumption ==
  /\ \A name \in DOMAIN Snapshots : ShortChains(Translation[name])
  /\ \A name \in DOMAIN FileOptions : ShortChains(FileOptions[name])

-----------------------------------------------------------------------------
Init ==
  /\ snapshots = <<>> /\ next = <<>>
  /\ serving = [w \in Workers |-> Idle]
  /\ loads = 0 /\ picks = <<>> /\ requests = 0

\* A configuration is loaded. What fails to translate, to validate or to compile
\* leaves the current snapshot in place.
Load(source, o, translates) ==
  /\ loads < MaxLoads
  /\ loads' = loads + 1
  /\ IF translates /\ Validate(o) /\ CanCompile(o)
       THEN \E order \in SetToSeqs(DOMAIN o.routes) :
              /\ snapshots' = Append(snapshots, Compile(o, source, order))
              /\ next' = Append(next, [u \in DOMAIN o.upstreams |-> 0])
       ELSE UNCHANGED <<snapshots, next>>
  /\ UNCHANGED <<serving, picks, requests>>

LoadEtcd(name) ==
  Load(FromEtcd(name), Translation[name],
       loadSnapshot(Snapshots[name]) /\ Decode(apisixGlobalRulesToPlugins(Snapshots[name].globalRules)))

LoadFile(name) == Load(FromFile(name), FileOptions[name], TRUE)

\* The plugin context of a request; status 0 is the one Hertz starts with.
Context(request) ==
  [method |-> <<request.method>>, host |-> request.host, path |-> request.path, captures |-> <<>>,
   requestID |-> <<>>, fields |-> request.fields, status |-> 0]

\* ServeHTTP up to Next, for a request that is neither for the admin API nor for
\* /metrics. Without a snapshot it is answered with 503, without a route with 404.
ServeHTTP(w, request) ==
  /\ serving[w] = Idle /\ requests < MaxRequests
  /\ requests' = requests + 1
  /\ serving' = [serving EXCEPT ![w] =
       IF snapshots = <<>> THEN Idle
       ELSE LET snapshot == Last(snapshots)
                found == Match(snapshot.Router, request.method, request.host, request.path)
            IN  IF found = 0 THEN Idle
                ELSE LET route == snapshot.Router[found].id
                     IN  [pc |-> "next", snapshot |-> Len(snapshots),
                          route |-> route, handlers |-> snapshot.RouteHandlers[route],
                          index |-> 0, stack |-> <<>>, trace |-> <<>>,
                          aborted |-> FALSE, endpoint |-> NoAddress, context |-> Context(request)]]
  /\ UNCHANGED <<snapshots, next, loads, picks>>

-----------------------------------------------------------------------------
(* The handlers. serving[w].stack has the handlers that have called Next and  *)
(* wait for it to return, with the request ID in their local variable. A      *)
(* generated ID is named after the handler that made it.                      *)

Running(w) == serving[w].pc = "next" /\ serving[w].index < Len(serving[w].handlers)
Handler(w) == serving[w].handlers[serving[w].index + 1]

\* A plugin does its part and calls Next, as the built-in ones do.
PluginNext(w) ==
  /\ Running(w) /\ IsPlugin(Handler(w))
  /\ "next" \in registry[Handler(w).name].acts
  /\ LET h == Handler(w)
         id == IF h.name # "request_id" THEN <<>>
               ELSE requestID(serving[w].context, h.params, <<"new ID", h.scope, h.at>>)
     IN  \E context \in BeforeNext(h.name, h.params, serving[w].context, id) :
           serving' = [serving EXCEPT ![w].index = @ + 1,
                                      ![w].context = context,
                                      ![w].stack = Append(@, [handler |-> h, id |-> id]),
                                      ![w].trace = Append(@, Enters(h))]
  /\ UNCHANGED <<snapshots, next, loads, picks, requests>>

\* A plugin returns without calling Next; the loop of Next goes on.
PluginReturns(w) ==
  /\ Running(w) /\ IsPlugin(Handler(w))
  /\ "return" \in registry[Handler(w).name].acts
  /\ serving' = [serving EXCEPT ![w].index = @ + 1,
                                ![w].trace = @ \o <<Enters(Handler(w)), Leaves(Handler(w))>>]
  /\ UNCHANGED <<snapshots, next, loads, picks, requests>>

\* A plugin aborts, as limit_count does beyond the limit.
PluginAborts(w) ==
  /\ Running(w) /\ IsPlugin(Handler(w))
  /\ "abort" \in registry[Handler(w).name].acts
  /\ serving' = [serving EXCEPT ![w].index = AbortIndex + 1, ![w].aborted = TRUE, ![w].context.status = 429,
                                ![w].trace = @ \o <<Enters(Handler(w)), Leaves(Handler(w))>>]
  /\ UNCHANGED <<snapshots, next, loads, picks, requests>>

\* The last handler of a route: the handlers of the service, from the first on.
\* The service is the one of the snapshot the handler was compiled for; without
\* one the handler answers 503.
ToHandlers(w, services) ==
  IF Handler(w).scope \in DOMAIN services
    THEN serving' = [serving EXCEPT ![w].handlers = services[Handler(w).scope], ![w].index = 0,
                                    ![w].stack = Append(@, [handler |-> Handler(w), id |-> <<>>])]
    ELSE serving' = [serving EXCEPT ![w].context.status = 503, ![w].index = @ + 1]

EnterService(w) ==
  /\ Running(w) /\ Handler(w).name = "to service"
  /\ ToHandlers(w, snapshots[serving[w].snapshot].Services)
  /\ UNCHANGED <<snapshots, next, loads, picks, requests>>

\* The last handler of a service: Pick takes its turn with one atomic Add. There
\* is an endpoint (Validate), and all of them are available. The balancer does
\* not read the weights.
PickLoadStore(w) ==
  LET s == serving[w].snapshot
      u == Handler(w).scope
      endpoints == snapshots[s].Upstreams[u]
      at == (serving[w].turn % Len(endpoints)) + 1
  IN  \/ /\ Running(w) /\ Handler(w).name = "to upstream"
         /\ serving' = [serving EXCEPT ![w] = [turn |-> next[s][u]] @@ [@ EXCEPT !.pc = "load"]]
         /\ UNCHANGED <<snapshots, next, loads, picks, requests>>
      \/ /\ serving[w].pc = "load"
         /\ next' = [next EXCEPT ![s][u] = serving[w].turn + 1]
         /\ picks' = Append(picks, [snapshot |-> s, upstream |-> u, at |-> at])
         /\ serving' = [serving EXCEPT ![w].pc = "proxy", ![w].endpoint = endpoints[at]]
         /\ UNCHANGED <<snapshots, loads, requests>>
PickOfCurrent(w) ==
  /\ Running(w) /\ Handler(w).name = "to upstream"
  /\ LET u == Handler(w).scope
         s == IF u \in DOMAIN Last(snapshots).Upstreams THEN Len(snapshots) ELSE serving[w].snapshot
         endpoints == snapshots[s].Upstreams[u]
         at == (next[s][u] % Len(endpoints)) + 1
     IN  /\ next' = [next EXCEPT ![s][u] = @ + 1]
         /\ picks' = Append(picks, [snapshot |-> s, upstream |-> u, at |-> at])
         /\ serving' = [serving EXCEPT ![w].pc = "proxy", ![w].endpoint = endpoints[at]]
  /\ UNCHANGED <<snapshots, loads, requests>>
Pick(w) ==
  /\ Running(w) /\ Handler(w).name = "to upstream"
  /\ LET s == serving[w].snapshot
         u == Handler(w).scope
         endpoints == snapshots[s].Upstreams[u]
         at == (next[s][u] % Len(endpoints)) + 1
     IN  /\ next' = [next EXCEPT ![s][u] = @ + 1]
         /\ picks' = Append(picks, [snapshot |-> s, upstream |-> u, at |-> at])
         /\ serving' = [serving EXCEPT ![w].pc = "proxy", ![w].endpoint = endpoints[at]]
  /\ UNCHANGED <<snapshots, loads, requests>>

\* The upstream answers, and its answer replaces all of the response; or it fails
\* or takes too long, 502 here for 504 too. The handler returns.
Proxy(w) ==
  /\ serving[w].pc = "proxy"
  /\ LET requestFields == {f \in DOMAIN serving[w].context.fields : f[1] # "response"}
         answered == [serving[w].context EXCEPT !.status = 200,
                                                !.fields = [f \in requestFields |-> @[f]]]
     IN  \E context \in {answered, [serving[w].context EXCEPT !.status = 502]} :
           serving' = [serving EXCEPT ![w].pc = "next", ![w].index = @ + 1, ![w].context = context]
  /\ UNCHANGED <<snapshots, next, loads, picks, requests>>

\* Next returns to ServeHTTP, or to the handler that called it, which does the
\* rest of its part and returns to its Next in turn.
NextReturns(w) ==
  /\ serving[w].pc = "next" /\ serving[w].index >= Len(serving[w].handlers)
  /\ IF serving[w].stack = <<>> THEN serving' = [serving EXCEPT ![w] = Idle]
     ELSE LET caller == Last(serving[w].stack)
              h == caller.handler
          IN  \E context \in IF IsPlugin(h) THEN AfterNext(h.name, h.params, serving[w].context, caller.id)
                             ELSE {serving[w].context} :
                serving' = [serving EXCEPT ![w].index = @ + 1, ![w].stack = Front(@),
                                           ![w].context = context,
                                           ![w].trace = IF IsPlugin(h) THEN Append(@, Leaves(h)) ELSE @]
  /\ UNCHANGED <<snapshots, next, loads, picks, requests>>

Step(w) ==
  \/ \E request \in Requests : ServeHTTP(w, request)
  \/ PluginNext(w)
  \/ PluginReturns(w)
  \/ PluginAborts(w)
  \/ EnterService(w)
  \/ Pick(w)
  \/ Proxy(w)
  \/ NextReturns(w)

\* Between ServeHTTP, Pick and Proxy a request only reads and writes its own
\* context and reads a snapshot that never changes. Such steps commute with the
\* steps of everybody else, and are taken at once: what interleaves are loads,
\* the acquisition of a snapshot, picks and answers.
Local(w) == serving[w].pc = "next" /\ ~(Running(w) /\ Handler(w).name = "to upstream")

Next ==
  \/ \E w \in Workers : Step(w) /\ \A v \in Workers \ {w} : ~Local(v)
  \/ /\ \A w \in Workers : ~Local(w)
     /\ \/ \E name \in DOMAIN Snapshots : LoadEtcd(name)
        \/ \E name \in DOMAIN FileOptions : LoadFile(name)

Spec == Init /\ [][Next]_vars

-----------------------------------------------------------------------------
(* Properties *)

Matched(w) == serving[w] # Idle

\* Next is about to return to ServeHTTP.
Finished(w) ==
  /\ serving[w].pc = "next" /\ serving[w].index >= Len(serving[w].handlers)
  /\ serving[w].stack = <<>>

BestIn(router) == \A q \in Requests : BestFor(router, q)

\* What a load compiles depends on its source and on the order of the routes
\* alone, so the properties of a load are stated of those before any request:
\* every source is loaded there, in every order.
Loaded == requests = 0 /\ Len(snapshots') > Len(snapshots)


\* x can be used: its plugins translate, its upstream has a node and, unless it
\* is inline, a supported scheme.
Usable(c, x) ==
  /\ PluginsTranslate(x, c)
  /\ Range(OwnUpstream(c, x).nodes) \ {NoAddress} # {}
  /\ x.upstream = None \/ OwnUpstream(c, x).scheme

\* A route can be served: it has a path, its plugins translate, and its service,
\* or the route itself without one, can be used.
Servable(c, r) ==
  LET route == c.routes[r]
  IN  /\ route.uris # <<>> /\ PluginsTranslate(route, c)
      /\ IF route.service = None THEN Usable(c, route)
         ELSE route.service \in DOMAIN c.services /\ Usable(c, c.services[route.service])

\* A registered plugin does not support the scope or refuses its parameters.
Refused(plugins, scope) ==
  \E n \in DOMAIN plugins : \E g \in Range(translateApisixPlugin(n, plugins[n])) :
    g.name \in DOMAIN registry /\ ~(scope \in registry[g.name].scopes /\ plugins[n].valid)

\* What is fatal to the whole configuration: a value that is not well formed,
\* plugins of the global rules that do not decode, a plugin in use that is
\* refused, an expression of a route in use that does not compile, and an
\* upstream with nodes that has an unsupported pass_host or, being inline, scheme.
Fatal(c) ==
  LET global == apisixGlobalRulesToPlugins(c.globalRules)
      routes == {r \in DOMAIN c.routes : Servable(c, r)}
      inline == {x.inline : x \in {y \in Range(c.services) : y.upstream = None}}
                  \cup {c.routes[r].inline :
                         r \in {q \in routes : c.routes[q].service = None /\ c.routes[q].upstream = None}}
  IN  \/ ~c.decodes \/ ~Decode(global) \/ Refused(global, "global")
      \/ \E x \in Range(c.services) : Usable(c, x) /\ Refused(apisixMergePlugins(x, c), "service")
      \/ \E r \in routes : \/ Refused(apisixMergePlugins(c.routes[r], c), "route")
                            \/ \E uri \in Range(c.routes[r].uris) : ~uri.valid
      \/ \E up \in Range(c.upstreams) : Translates(up) /\ up.scheme /\ ~up.passHost
      \/ \E up \in inline : Translates(up) /\ ~(up.scheme /\ up.passHost)

\* "gateway-reload resilience (lenient translator)" (internal/controlplane/
\* validate.go:209-210): a resource of etcd that cannot be used takes away the
\* routes that need it and no others. A load succeeds unless there is something
\* fatal, whatever dangles, and compiles exactly the routes that can be served.
LenientLoad ==
  [][\A name \in DOMAIN Snapshots : requests = 0 /\ LoadEtcd(name) =>
       LET c == Snapshots[name]
           router == Last(snapshots').Router
       IN  /\ Loaded <=> ~Fatal(c)
           /\ Loaded =>
                {router[i].id : i \in DOMAIN router} = {r \in DOMAIN c.routes : Servable(c, r)}]_vars

\* A request reaches a node of the upstream that its route names in the
\* configuration its snapshot was compiled from, also when other
\* configurations were loaded while it ran.
ReachesItsUpstream ==
  \A w \in Workers : Matched(w) /\ serving[w].endpoint # NoAddress =>
    LET from == snapshots[serving[w].snapshot].source
        r == serving[w].route
        named(o) == o.upstreams[o.services[o.routes[r].service].upstream].endpoints
    IN  serving[w].endpoint \in
          Range(IF from.etcd THEN NamedUpstream(Snapshots[from.name], r).nodes
                ELSE named(FileOptions[from.name]))

\* "Within each scope, plugins are sorted by priority (descending)"
\* (docs/guide.md:297): every configured plugin runs once, scope by scope, in the
\* order of the priorities and then of the configuration, although the chain of
\* the service replaces that of the route while handlers wait for Next. What they
\* do after Next runs once, in the reverse order, also when a later one aborts;
\* after an abort, in whichever chain, no plugin is entered and no endpoint picked.
ChainOrder ==
  \A w \in Workers : Finished(w) =>
    LET ran == Entered(serving[w].trace)
    IN  /\ RunsInOrder(serving[w].trace)
        /\ IF serving[w].aborted
             THEN serving[w].endpoint = NoAddress /\ "abort" \in registry[Last(ran).name].acts
             ELSE Range(ran) = Configured(OptionsOf(snapshots[serving[w].snapshot].source), serving[w].route)
        /\ Unwinds(serving[w].trace)

\* What the plugins configure takes effect, whatever happens inside of their Next.
\* - A header that a request_transformer sets, and no later one touches, reaches
\*   the upstream, with the groups of the last expression that ran before it, in
\*   whichever scope. Nothing is said of groups when an expression runs after it,
\*   as that of its own proxy-rewrite does by the priorities.
\* - The last plugin that changes the path has the last word on it.
\* - "Generate / propagate request IDs" (README.md:181): the client is told the ID
\*   that the upstream got, also when several handlers make IDs, when a later
\*   plugin aborts and when the answer of the upstream replaces the response.
\* - The status of the outermost response_transformer is the one the client gets.
RewritesTakeEffect ==
  \A w \in Workers : Finished(w) =>
    LET ran == Entered(serving[w].trace)
        pc == serving[w].context
        named(names) == {i \in DOMAIN ran : ran[i].name \in names}
        touches(i, f) == f \in DOMAIN ran[i].params.add \cup DOMAIN ran[i].params.set \cup Range(ran[i].params.remove)
        transformers == named({"request_transformer", "response_transformer"})
        rewriters == named({"rewrite_path_regex", "replace_path", "strip_prefix", "add_prefix"})
        setters == {i \in named({"response_transformer"}) : ran[i].params.status > 0}
        groups(template) == {n \in DOMAIN template : template[n].var = "capture"}
        settled(i, f) == /\ \A j \in transformers : j > i => ~touches(j, f)
                         /\ groups(ran[i].params.set[f]) # {} => \A j \in named({"rewrite_path_regex"}) : j < i
    IN  /\ \A i \in named({"request_transformer"}) : \A f \in DOMAIN ran[i].params.set :
             settled(i, f) => Get(pc, f) = renderRequestTemplate(pc, ran[i].params.set[f])
        /\ \A i \in named({"replace_path"}) : (\A j \in rewriters : j <= i)
               => pc.path = renderRequestTemplate(pc, ran[i].params.path)
        /\ \A i \in named({"request_id"}) :
             LET request == <<"header", ran[i].params.header>>
                 response == <<"response", ran[i].params.header>>
             IN  ran[i].params.include /\ (\A j \in transformers : ~touches(j, request) /\ ~touches(j, response))
                   => Get(pc, response) = Get(pc, request) /\ Get(pc, response) # <<>>
        /\ setters # {} => pc.status = ran[Min(setters)].params.status

\* "Round robin distributes traffic evenly." (route_map.md:238): however requests
\* interleave, the endpoints of an upstream with equal weights are picked equally
\* often, up to one; an address that is listed twice counts as two endpoints.
\* Nothing is said of endpoints with different weights (Balancer.Pick).
EvenSpread ==
  \A s \in DOMAIN snapshots : \A u \in DOMAIN snapshots[s].Upstreams :
    LET endpoints == snapshots[s].Upstreams[u]
        count(i) == Cardinality({n \in DOMAIN picks : picks[n] = [snapshot |-> s, upstream |-> u, at |-> i]})
    IN  (\A i, j \in DOMAIN endpoints : weight[endpoints[i]] = weight[endpoints[j]])
          => \A i, j \in DOMAIN endpoints : count(i) <= count(j) + 1

=============================================================================
