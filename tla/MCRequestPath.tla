----------------------------- MODULE MCRequestPath -----------------------------
(* RequestPath for TLC. *)
EXTENDS RequestPath

NoParams == [empty |-> TRUE]
P == [decodes |-> TRUE, valid |-> TRUE, disabled |-> FALSE,
      uri |-> <<>>, regex |-> <<>>, edits |-> NoEdits, params |-> NoParams]
Ref(n, params) == [use |-> "", name |-> n, valid |-> TRUE, params |-> params]
Use(n) == [use |-> n, name |-> "", valid |-> TRUE, params |-> NoParams]
Uri(op, pre) == [op |-> op, pre |-> pre, star |-> FALSE, post |-> <<>>, valid |-> TRUE]
Up(nodes) == [nodes |-> nodes, scheme |-> TRUE, passHost |-> TRUE]

MCpluginNames == <<"auth", "limit-count", "proxy-rewrite", "request-id", "response-rewrite", "unknown">>

\* Built-in plugins, several with equal priority and one that aborts, and one of
\* a user that returns without calling Next and is not for services.
MCregistry ==
  LET everywhere == {"global", "server", "route", "service", "upstream"}
  IN  "auth" :> [priority |-> 2000, scopes |-> everywhere \ {"service"}, acts |-> {"return"}]
        @@ "limit_count" :> [priority |-> 1100, scopes |-> everywhere, acts |-> {"next", "abort"}]
        @@ "request_id" :> [priority |-> 1200, scopes |-> everywhere, acts |-> {"next"}]
        @@ "request_transformer" :> [priority |-> 100, scopes |-> everywhere, acts |-> {"next"}]
        @@ [n \in {"rewrite_path_regex", "replace_path", "strip_prefix", "add_prefix", "response_transformer"} |->
              [priority |-> 0, scopes |-> everywhere, acts |-> {"next"}]]

Slash == <<"/">>
SlashA == <<"/", "a">>
SlashACB == <<"/", "a", "c", "b">>
SlashASlashB == <<"/", "a", "/", "b">>

Route(uris, service, upstream, inline) ==
  [uris |-> uris, hosts |-> <<>>, methods |-> <<>>, service |-> service, upstream |-> upstream,
   inline |-> inline, plugins |-> NoPlugins, pluginConfig |-> None]
Service(upstream, inline) ==
  [upstream |-> upstream, inline |-> inline, plugins |-> NoPlugins, pluginConfig |-> None]

\* Templates, transformations and the IDs of two headers.
Text(t) == <<[var |-> "", key |-> t]>>
Group == <<[var |-> "capture", key |-> <<1>>]>>
Header(name) == <<"header", name>>
Sets(field, template) == [NoEdits EXCEPT !.set = field :> template]
Edits == [Sets(Header("a"), Text(SlashA)) EXCEPT
            !.method = Text(<<"POST">>), !.host = Text(<<"z">>), !.remove = <<Header("a")>>,
            !.add = <<"query", "q">> :> <<[var |-> "uri", key |-> <<>>]>>]
ID(header) == [P EXCEPT !.params = [header |-> header, include |-> TRUE]]

Star(pre, post) == [op |-> "", pre |-> pre, star |-> TRUE, post |-> post, valid |-> TRUE]

\* A service with plugins, a service and a route that cannot be used, a route to
\* an upstream and one with an inline upstream.
Mixed ==
  [decodes |-> TRUE,
   upstreams |-> <<"u1">> :> Up(<<"a", NoAddress, "b">>) @@ <<"u2">> :> Up(<<NoAddress>>),
   services |-> <<"s1">> :> [Service(<<"u1">>, NoInline) EXCEPT
                               !.plugins = "limit-count" :> P @@ "unknown" :> P]
                 @@ <<"s2">> :> Service(<<"u2">>, NoInline),
   routes |-> <<"r1">> :> [Route(<<Uri("", SlashA)>>, <<"s1">>, None, NoInline) EXCEPT
                             !.plugins = "proxy-rewrite" :> [P EXCEPT !.uri = Text(SlashACB),
                                                                      !.edits = Edits]
                                           @@ "auth" :> P,
                             !.pluginConfig = <<"p">>]
               @@ <<"r2">> :> [Route(<<Star(Slash, <<>>)>>, None, <<"u1">>, NoInline) EXCEPT !.methods = <<"PUT">>]
               @@ <<"r3">> :> Route(<<Uri("", SlashA)>>, <<"s2">>, None, NoInline)
               @@ <<"r4">> :> Route(<<Star(SlashA, <<"b">>)>>, None, None, Up(<<"c">>)),
   pluginConfigs |-> <<"p">> :> ("auth" :> [P EXCEPT !.disabled = TRUE] @@ "proxy-rewrite" :> [P EXCEPT !.regex = <<[pre |-> Slash, replacement |-> Group]>>]),
   globalRules |-> <<"auth" :> P, "auth" :> [P EXCEPT !.disabled = TRUE], "limit-count" :> P @@ "request-id" :> ID("x")>>]

\* A service with an inline upstream, a route with hosts, one without plugin_config.
\* Route and service make an ID each, use the groups of the route's expression and
\* set a status.
Hosted ==
  [Mixed EXCEPT
     !.services = <<"s3">> :> [Service(None, Up(<<"d">>)) EXCEPT
                                 !.plugins = "proxy-rewrite" :> [P EXCEPT !.edits = Sets(Header("b"), Group)]
                                               @@ "request-id" :> ID("y")
                                               @@ "response-rewrite" :> [P EXCEPT !.edits.status = 201]],
     !.routes = <<"r1">> :> [Route(<<Star(SlashA, <<>>)>>, <<"s3">>, None, NoInline) EXCEPT
                               !.hosts = <<[wild |-> "*.", labels |-> <<"x">>]>>,
                               !.plugins = "proxy-rewrite" :>
                                             [P EXCEPT !.regex = <<[pre |-> Slash, replacement |-> Text(SlashA) \o Group]>>,
                                                       !.edits = Sets(Header("a"), Group)]
                                             @@ "request-id" :> ID("x")
                                             @@ "response-rewrite" :> [P EXCEPT !.edits.status = 202]]
                  @@ <<"r2">> :> [Route(<<Uri("", SlashA)>>, <<"s3">>, None, NoInline) EXCEPT
                                    !.pluginConfig = <<"gone">>],
     !.globalRules = <<>>]

\* One inline upstream with an unsupported scheme.
Unsupported ==
  [Hosted EXCEPT !.services = <<"s3">> :> Service(None, [Up(<<"d">>) EXCEPT !.scheme = FALSE])]

\* A plugin that the scope does not allow.
Refusing ==
  [Hosted EXCEPT !.services = <<"s3">> :> [Service(None, Up(<<"d">>)) EXCEPT !.plugins = "auth" :> P]]

MCSnapshots == [mixed |-> Mixed, hosted |-> Hosted, unsupported |-> Unsupported,
                refusing |-> Refusing, malformed |-> [Hosted EXCEPT !.decodes = FALSE]]

FileUp(endpoints) == [endpoints |-> endpoints, scheme |-> TRUE, passHost |-> TRUE, balancer |-> TRUE,
                      plugins |-> <<Ref("limit_count", NoParams)>>]
FileRoute(paths, methods, priority, service) ==
  [paths |-> paths, hosts |-> <<>>, methods |-> methods, priority |-> priority,
   service |-> service, plugins |-> <<>>]

\* Priorities against kinds and lengths of paths, two routes with equal scores,
\* and plugins of a server and of an upstream.
File ==
  [servers |-> <<<<Ref("strip_prefix", [prefixes |-> <<SlashA>>]), Use("shared"), Ref("auth", NoParams)>>>>,
   plugins |-> [shared |-> [name |-> "add_prefix", valid |-> TRUE, params |-> [prefix |-> Text(<<"b">>)]]],
   global |-> <<>>,
   upstreams |-> <<"u1">> :> FileUp(<<"e", "f">>),
   services |-> <<"s1">> :> [upstream |-> <<"u1">>, plugins |-> <<>>],
   routes |-> <<"r1">> :> FileRoute(<<Uri("", Slash), Uri("=", SlashACB)>>, <<>>, 0, <<"s1">>)
               @@ <<"r2">> :> FileRoute(<<Uri("", SlashA)>>, <<"GET", "PUT">>, 0, <<"s1">>)
               @@ <<"r3">> :> FileRoute(<<Uri("", SlashA)>>, <<"GET">>, 0, <<"s1">>)]

\* A higher priority on the less specific route.
Ranked ==
  [File EXCEPT !.routes =
     <<"r1">> :> FileRoute(<<Uri("", Slash)>>, <<>>, 1, <<"s1">>)
       @@ <<"r4">> :> FileRoute(<<Uri("=", SlashA), Uri("", SlashACB)>>, <<>>, 0, <<"s1">>)]

Dangling == [File EXCEPT !.routes = <<"r1">> :> FileRoute(<<Uri("", Slash)>>, <<>>, 0, <<"s2">>)]

MCFileOptions == [file |-> File, ranked |-> Ranked, dangling |-> Dangling]

\* The endpoints of the file have equal weights, those of etcd have not.
MCweight == [a \in {"a", "b", "c", "d", "e", "f"} |-> IF a = "b" THEN 2 ELSE 1]

Request(method, host, path, fields) == [method |-> method, host |-> host, path |-> path, fields |-> fields]
MCRequests == {Request("GET", <<>>, SlashA, NoPlugins), Request("PUT", <<"y", "x">>, SlashACB, NoPlugins),
               Request("GET", <<"y", "x">>, SlashASlashB, Header("x") :> <<<<"mine">>>>)}

Symmetry == Permutations(Workers)
=============================================================================
