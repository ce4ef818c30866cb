------------------------------- MODULE Translate -------------------------------
(***************************************************************************)
(* From the resources in etcd to the configuration of the gateway          *)
(* (internal/translate) and its validation (internal/config).              *)
(*                                                                         *)
(* An ID is a sequence of parts, so that the IDs the translation makes up, *)
(* "service-" and an ID for example, are sequences too; None is no ID. An  *)
(* upstream is [nodes, scheme, passHost]: the addresses, where NoAddress   *)
(* is a node without host or port, and whether its scheme and its          *)
(* pass_host are supported. The plugins of a resource map names to         *)
(* [decodes, valid, disabled, uri, regex, edits, params]: whether they     *)
(* decode, whether the plugin accepts them, whether _meta disables it, the *)
(* parts of a proxy-rewrite or response-rewrite, and the parameters of any *)
(* other plugin.                                                           *)
(***************************************************************************)
EXTENDS Order

CONSTANT pluginNames  \* the names of plugins in etcd, in the order of sort.Strings

None == <<>>
NoAddress == ""
NoName == ""
NoOperator == ""
NoInline == [nodes |-> <<>>, scheme |-> FALSE, passHost |-> FALSE]

\* applyKV decodes every value under the prefix; one that is not well formed
\* fails the load.
loadSnapshot(s) == s.decodes

-----------------------------------------------------------------------------
(* Plugins *)

isDisabledApisixPlugin(p) == p.disabled

\* A disabled plugin is removed, any other overrides what is there.
mergeApisixPluginMaps(dst, src) ==
  LET disabled == {n \in DOMAIN src : isDisabledApisixPlugin(src[n])}
  IN  [n \in (DOMAIN dst \cup DOMAIN src) \ disabled |->
         IF n \in DOMAIN src THEN src[n] ELSE dst[n]]

NoPlugins == [n \in {} |-> 0]

\* What a transformer does: templates for method and host, fields to add, set and
\* remove, and for a response its status.
NoEdits == [method |-> <<>>, host |-> <<>>, add |-> NoPlugins, set |-> NoPlugins, remove |-> <<>>, status |-> 0]

Becomes(name, params) == [name |-> name, params |-> params]

\* A uri overrides regex_uri.
translateProxyRewrite(p) ==
  (IF p.regex # <<>> /\ p.uri = <<>> THEN <<Becomes("rewrite_path_regex", [rules |-> p.regex])>> ELSE <<>>)
    \o (IF p.edits # NoEdits THEN <<Becomes("request_transformer", p.edits)>> ELSE <<>>)
    \o (IF p.uri # <<>> THEN <<Becomes("replace_path", [path |-> p.uri])>> ELSE <<>>)

\* A response-rewrite that rewrites nothing becomes none.
translateResponseRewrite(p) ==
  IF p.edits # NoEdits THEN <<Becomes("response_transformer", p.edits)>> ELSE <<>>

\* The plugins of the gateway that a plugin of APISIX becomes; other names are
\* passed through.
translateApisixPlugin(name, p) ==
  CASE name = "proxy-rewrite"    -> translateProxyRewrite(p)
    [] name = "response-rewrite" -> translateResponseRewrite(p)
    [] name = "request-id"       -> <<Becomes("request_id", p.params)>>
    [] name = "limit-count"      -> <<Becomes("limit_count", p.params)>>
    [] OTHER                     -> <<Becomes(name, p.params)>>

\* References in the order of the names.
apisixPluginsToRefs(plugins) ==
  LET names == At(pluginNames, {i \in DOMAIN pluginNames : pluginNames[i] \in DOMAIN plugins})
      refs(n) == LET made == translateApisixPlugin(n, plugins[n])
                 IN  [i \in DOMAIN made |-> [use |-> NoName, name |-> made[i].name, valid |-> plugins[n].valid,
                                               params |-> made[i].params]]
  IN  Flatten([i \in DOMAIN names |-> refs(names[i])])

Decode(plugins) == \A n \in DOMAIN plugins : plugins[n].decodes

\* The plugin_config of a resource and its own plugins on top.
apisixMergePlugins(resource, s) ==
  LET shared == IF resource.pluginConfig = None THEN NoPlugins
                ELSE mergeApisixPluginMaps(NoPlugins, s.pluginConfigs[resource.pluginConfig])
  IN  mergeApisixPluginMaps(shared, resource.plugins)

PluginsTranslate(resource, s) ==
  /\ resource.pluginConfig \in {None} \cup DOMAIN s.pluginConfigs
  /\ Decode(apisixMergePlugins(resource, s))

\* The global rules one after the other; globalRules is in the order of the IDs.
apisixGlobalRulesToPlugins(globalRules) ==
  FoldLeft(mergeApisixPluginMaps, NoPlugins, globalRules)

-----------------------------------------------------------------------------
(* Upstreams, services, routes *)

\* What is in g as well as in f is as in f.
Over(f, g) == [x \in DOMAIN f \cup DOMAIN g |-> IF x \in DOMAIN f THEN f[x] ELSE g[x]]

\* Nodes without an address are left out; an upstream needs one that has one.
apisixNodesToEndpoints(nodes) == At(nodes, {i \in DOMAIN nodes : nodes[i] # NoAddress})
Translates(up) == apisixNodesToEndpoints(up.nodes) # <<>>
apisixUpstreamToConfig(up) ==
  [endpoints |-> apisixNodesToEndpoints(up.nodes), scheme |-> up.scheme, passHost |-> up.passHost,
   balancer |-> TRUE, plugins |-> <<>>]

\* "/foo/*" and "/foo*" become prefixes, another wildcard an expression, and
\* everything else an exact path, unless an operator is already there.
normalizeApisixURI(uri) ==
  IF uri.op # NoOperator THEN uri
  ELSE IF ~uri.star THEN [uri EXCEPT !.op = "="]
  ELSE IF uri.post = <<>> THEN uri
  ELSE [uri EXCEPT !.op = "~"]

\* apisixRouteToConfig; the priority is not carried over.
apisixRouteToConfig(route, service, s) ==
  [paths |-> [i \in DOMAIN route.uris |-> normalizeApisixURI(route.uris[i])],
   hosts |-> route.hosts, methods |-> route.methods, priority |-> 0, service |-> service,
   plugins |-> apisixPluginsToRefs(apisixMergePlugins(route, s))]

\* The IDs of what is made for inline upstreams and direct references.
UpstreamOfService(id) == <<"upstream-service-">> \o id
UpstreamOfRoute(id) == <<"upstream-route-">> \o id
ServiceOf(upstream) == <<"service-">> \o upstream

\* The upstreams that are kept; with them the inline ones of the services,
\* whether their service is kept or not.
KeptUpstreams(s) ==
  [id \in {u \in DOMAIN s.upstreams : Translates(s.upstreams[u]) /\ s.upstreams[u].scheme} |->
     apisixUpstreamToConfig(s.upstreams[id])]

InlineOfServices(s) ==
  LET inline == {id \in DOMAIN s.services : /\ s.services[id].upstream = None
                                            /\ Translates(s.services[id].inline)}
  IN  [u \in {UpstreamOfService(id) : id \in inline} |->
         apisixUpstreamToConfig(s.services[Tail(u)].inline)]

\* A service is skipped if its upstream or its plugins are not there.
ServiceUpstream(service, id) ==
  IF service.upstream # None THEN service.upstream ELSE UpstreamOfService(id)

KeptServices(s, upstreams) ==
  LET kept == {id \in DOMAIN s.services :
                 /\ ServiceUpstream(s.services[id], id) \in DOMAIN upstreams
                 /\ PluginsTranslate(s.services[id], s)}
  IN  [id \in kept |->
         [upstream |-> ServiceUpstream(s.services[id], id),
          plugins |-> apisixPluginsToRefs(apisixMergePlugins(s.services[id], s))]]

\* The service of a route: by reference, made for an upstream, or made for an
\* inline upstream. None if the route is skipped.
ServiceOfRouteUnchecked(route, id, s, upstreams, services) ==
  IF route.service # None THEN route.service
  ELSE IF route.upstream # None THEN IF route.upstream \in DOMAIN upstreams THEN ServiceOf(route.upstream) ELSE None
  ELSE IF Translates(route.inline) THEN ServiceOf(UpstreamOfRoute(id)) ELSE None
ServiceOfRoute(route, id, s, upstreams, services) ==
  IF route.service # None THEN IF route.service \in DOMAIN services THEN route.service ELSE None
  ELSE IF route.upstream # None THEN IF route.upstream \in DOMAIN upstreams THEN ServiceOf(route.upstream) ELSE None
  ELSE IF Translates(route.inline) THEN ServiceOf(UpstreamOfRoute(id)) ELSE None

\* ApisixSnapshotToConfig up to the validation. A service made for an upstream
\* does not replace one that is there; one made for an inline upstream does.
ApisixSnapshotToConfig(s) ==
  LET up0 == Over(InlineOfServices(s), KeptUpstreams(s))
      sv0 == KeptServices(s, up0)
      service(id) == ServiceOfRoute(s.routes[id], id, s, up0, sv0)
      kept == {id \in DOMAIN s.routes : /\ s.routes[id].uris # <<>>
                                        /\ PluginsTranslate(s.routes[id], s)
                                        /\ service(id) # None}
      direct == {id \in kept : s.routes[id].service = None /\ s.routes[id].upstream # None}
      inline == {id \in kept : s.routes[id].service = None /\ s.routes[id].upstream = None}
      made(u) == [upstream |-> u, plugins |-> <<>>]
  IN  [servers |-> <<<<>>>>,
       plugins |-> NoPlugins,
       global |-> apisixPluginsToRefs(apisixGlobalRulesToPlugins(s.globalRules)),
       upstreams |-> Over([u \in {UpstreamOfRoute(id) : id \in inline} |->
                             apisixUpstreamToConfig(s.routes[Tail(u)].inline)], up0),
       services |-> Over([v \in {ServiceOf(UpstreamOfRoute(id)) : id \in inline} |-> made(Tail(v))],
                         Over(sv0, [v \in {ServiceOf(s.routes[id].upstream) : id \in direct} |-> made(Tail(v))])),
       routes |-> [id \in kept |-> apisixRouteToConfig(s.routes[id], service(id), s)]]

-----------------------------------------------------------------------------
(* Options.Validate. A configuration is [servers, plugins, global, upstreams, *)
(* services, routes]; servers has the plugins of each server. A reference to  *)
(* a plugin is [use, name, valid, params], where use is the key of a          *)
(* definition in plugins or NoName.                                           *)

validatePluginRefs(o, refs) ==
  \A ref \in Range(refs) : IF ref.use # NoName THEN ref.use \in DOMAIN o.plugins ELSE ref.name # NoName

Validate(o) ==
  /\ o.servers # <<>>
  /\ \A refs \in Range(o.servers) \cup {o.global} : validatePluginRefs(o, refs)
  /\ \A r \in DOMAIN o.routes : /\ o.routes[r].paths # <<>>
                                /\ o.routes[r].service \in DOMAIN o.services
                                /\ validatePluginRefs(o, o.routes[r].plugins)
  /\ \A v \in DOMAIN o.services : /\ o.services[v].upstream \in DOMAIN o.upstreams
                                  /\ validatePluginRefs(o, o.services[v].plugins)
  /\ \A u \in DOMAIN o.upstreams : /\ o.upstreams[u].endpoints # <<>>
                                   /\ o.upstreams[u].scheme /\ o.upstreams[u].passHost
                                   /\ NoAddress \notin Range(o.upstreams[u].endpoints)
                                   /\ validatePluginRefs(o, o.upstreams[u].plugins)

-----------------------------------------------------------------------------
(* What the content of etcd asks for *)

\* The upstream that a service or route x of etcd's content c names itself: by
\* reference or inline.
OwnUpstream(c, x) ==
  IF x.upstream = None THEN x.inline
  ELSE IF x.upstream \in DOMAIN c.upstreams THEN c.upstreams[x.upstream] ELSE NoInline

\* The one that the route r names, through its service or itself.
NamedUpstream(c, r) ==
  OwnUpstream(c, IF c.routes[r].service = None THEN c.routes[r] ELSE c.services[c.routes[r].service])

=============================================================================
