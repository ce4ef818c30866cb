---------------------------------- MODULE Trace ----------------------------------
(***************************************************************************)
(* The history of a request: when a plugin was entered, and when it        *)
(* returned.                                                               *)
(***************************************************************************)
EXTENDS Compiler

IsPlugin(h) == h.name \in DOMAIN registry
Enters(h) == [dir |-> "in", handler |-> h]
Leaves(h) == [dir |-> "out", handler |-> h]

\* The plugins in the order in which they were entered.
Entered(trace) ==
  LET ins == At(trace, {i \in DOMAIN trace : trace[i].dir = "in"}) IN [i \in DOMAIN ins |-> ins[i].handler]

ScopeRank == [global |-> 1, server |-> 2, route |-> 3, service |-> 4, upstream |-> 5]

\* The order of the plugins: by scope, by descending priority, and then as in the
\* configuration.
RunsFirst(h, k) ==
  \/ ScopeRank[h.scope] < ScopeRank[k.scope]
  \/ /\ h.scope = k.scope
     /\ \/ registry[h.name].priority > registry[k.name].priority
        \/ registry[h.name].priority = registry[k.name].priority /\ h.at < k.at

RunsInOrder(trace) ==
  LET ran == Entered(trace) IN \A i, j \in DOMAIN ran : i < j => RunsFirst(ran[i], ran[j])

\* Every plugin returns once, those that were entered last first.
Unwinds(trace) ==
  LET ins == {i \in DOMAIN trace : trace[i].dir = "in"}
      leaves(i) == {n \in DOMAIN trace : trace[n] = Leaves(trace[i].handler)}
  IN  /\ \A i \in ins : Cardinality(leaves(i)) = 1
      /\ \A i, j \in ins : i < j => Min(leaves(i)) < j \/ Min(leaves(j)) < Min(leaves(i))

\* The plugins that the configuration gives a route.
Configured(o, r) ==
  LET of(refs, scope) == {Built(o, scope, refs, i) :
                            i \in {j \in DOMAIN refs : resolve(o, refs[j]).name \in DOMAIN registry}}
      service == o.services[o.routes[r].service]
  IN  of(o.global, "global") \cup of(o.servers[1], "server") \cup of(o.routes[r].plugins, "route")
        \cup of(service.plugins, "service")
        \cup of(o.upstreams[service.upstream].plugins, "upstream")

=============================================================================
