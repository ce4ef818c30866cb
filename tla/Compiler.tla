-------------------------------- MODULE Compiler --------------------------------
(***************************************************************************)
(* The compilation of a configuration into a snapshot (compiler.go): the   *)
(* routes of the router, and the handlers of every route and service.      *)
(***************************************************************************)
EXTENDS Router, Translate

CONSTANT registry  \* the plugins: name -> [priority, scopes, acts]

\* The names of plugins are those of a list, and not those of the last handlers of
\* routes and services.
ASSUME PluginAssumption ==
  /\ IsSequence(pluginNames)
  /\ DOMAIN registry \cap {"to service", "to upstream"} = {}
  /\ \A n \in DOMAIN registry : registry[n].priority \in Int

\* The resources in etcd: lists are sequences, and the IDs are not among those that
\* the translation makes up, which it does not reserve.
Reserved == {"service-", "upstream-service-", "upstream-route-"}
Given(id) == IsSequence(id) /\ (id # None => Head(id) \notin Reserved)

IsContent(s) ==
  /\ IsFiniteSet(DOMAIN s.routes)
  /\ \A id \in DOMAIN s.upstreams \cup DOMAIN s.services \cup DOMAIN s.routes : Given(id)
  /\ \A id \in DOMAIN s.upstreams : IsSequence(s.upstreams[id].nodes)
  /\ \A id \in DOMAIN s.services : LET x == s.services[id] IN Given(x.upstream) /\ IsSequence(x.inline.nodes)
  /\ \A id \in DOMAIN s.routes : LET x == s.routes[id] IN
       /\ Given(x.service) /\ Given(x.upstream) /\ IsSequence(x.inline.nodes)
       /\ IsSequence(x.uris) /\ \A i \in DOMAIN x.uris : IsPath(x.uris[i])
       /\ IsSequence(x.methods) /\ AnyMethod \notin Range(x.methods)

\* A configuration, wherever it comes from: lists are sequences.
IsOptions(o) ==
  /\ IsSequence(o.servers) /\ \A i \in DOMAIN o.servers : IsSequence(o.servers[i])
  /\ IsSequence(o.global)
  /\ \A u \in DOMAIN o.upstreams : IsSequence(o.upstreams[u].endpoints) /\ IsSequence(o.upstreams[u].plugins)
  /\ \A v \in DOMAIN o.services : IsSequence(o.services[v].plugins)
  /\ IsFiniteSet(DOMAIN o.routes)
  /\ \A r \in DOMAIN o.routes : LET x == o.routes[r] IN
       /\ IsSequence(x.plugins) /\ IsSequence(x.methods) /\ AnyMethod \notin Range(x.methods)
       /\ IsSequence(x.paths) /\ \A i \in DOMAIN x.paths : IsPath(x.paths[i])
       /\ x.priority \in Int

\* The plugin that a reference stands for.
resolve(o, ref) == IF ref.use # NoName THEN o.plugins[ref.use] ELSE ref

\* The plugins that are registered, by descending priority and, among equals,
\* in the order of the configuration.
Built(o, scope, refs, i) ==
  LET p == resolve(o, refs[i]) IN [name |-> p.name, scope |-> scope, at |-> i, params |-> p.params]
buildPluginHandlersAscending(o, scope, refs) ==
  LET known == {i \in DOMAIN refs : resolve(o, refs[i]).name \in DOMAIN registry}
      priority(i) == registry[resolve(o, refs[i]).name].priority
      before(i, j) == priority(i) < priority(j) \/ (priority(i) = priority(j) /\ i < j)
      order == InOrder(known, before)
  IN  [n \in DOMAIN order |-> Built(o, scope, refs, order[n])]
buildPluginHandlers(o, scope, refs) ==
  LET known == {i \in DOMAIN refs : resolve(o, refs[i]).name \in DOMAIN registry}
      priority(i) == registry[resolve(o, refs[i]).name].priority
      before(i, j) == priority(i) > priority(j) \/ (priority(i) = priority(j) /\ i < j)
      order == InOrder(known, before)
  IN  [n \in DOMAIN order |-> Built(o, scope, refs, order[n])]

\* A registered plugin that does not support the scope or refuses its
\* parameters fails the compilation.
Build(o, scope, refs) ==
  \A ref \in Range(refs) : LET p == resolve(o, ref) IN
    p.name \in DOMAIN registry => scope \in registry[p.name].scopes /\ p.valid

CanCompile(o) ==
  /\ Len(o.servers) <= 1
  /\ Build(o, "global", o.global)
  /\ \A refs \in Range(o.servers) : Build(o, "server", refs)
  /\ \A up \in Range(o.upstreams) : Build(o, "upstream", up.plugins) /\ up.balancer
  /\ \A service \in Range(o.services) : Build(o, "service", service.plugins)
  /\ \A route \in Range(o.routes) : Compiles(route) /\ Build(o, "route", route.plugins)

\* The handlers of a route end with one that enters its service, those of a
\* service with one that goes to its upstream.
ToService(service) == [name |-> "to service", scope |-> service]
ToUpstream(upstream) == [name |-> "to upstream", scope |-> upstream]

buildRouteExecutionHandlers(o, route) ==
  buildPluginHandlers(o, "global", o.global)
    \o buildPluginHandlers(o, "server", Head(o.servers))
    \o buildPluginHandlers(o, "route", route.plugins)
    \o <<ToService(route.service)>>

buildServiceExecutionHandlers(o, service) ==
  buildPluginHandlers(o, "service", service.plugins)
    \o buildPluginHandlers(o, "upstream", o.upstreams[service.upstream].plugins)
    \o <<ToUpstream(service.upstream)>>

\* Compile; the order of the routes in the router is that of a map iteration.
Compile(o, source, order) ==
  [source |-> source,
   Router |-> [i \in DOMAIN order |-> compileRoute(order[i], o.routes[order[i]])],
   RouteHandlers |-> [r \in DOMAIN o.routes |-> buildRouteExecutionHandlers(o, o.routes[r])],
   Services |-> [v \in DOMAIN o.services |-> buildServiceExecutionHandlers(o, o.services[v])],
   Upstreams |-> [u \in DOMAIN o.upstreams |-> o.upstreams[u].endpoints]]

\* Where Abort moves the index of a request to (Hertz).
AbortIndex == 63

\* No chain is so long that an aborted request would run the rest of it: Abort
\* moves the index to a constant, and the gateway does not bound its chains.
ShortChains(o) ==
  Validate(o) =>
    /\ \A r \in DOMAIN o.routes : Len(buildRouteExecutionHandlers(o, o.routes[r])) <= AbortIndex + 1
    /\ \A v \in DOMAIN o.services : Len(buildServiceExecutionHandlers(o, o.services[v])) <= AbortIndex + 1

=============================================================================
