-------------------------------- MODULE Router --------------------------------
(***************************************************************************)
(* The router (internal/router): which route serves a request.             *)
(*                                                                         *)
(* A path is a sequence of characters, a host a sequence of labels. A path *)
(* of a route is [op, pre, star, post, valid]: its operator ("=" exact,    *)
(* "~" regular expression, "" prefix), the text before and after a         *)
(* wildcard, and whether its expression compiles. The expressions are      *)
(* those of apisixWildcardToRegex, ^pre[^/]+post$. A host of a route is    *)
(* [wild, labels] with wild "*." or ".*" for a wildcard in front or at the *)
(* end. Methods are in upper case.                                         *)
(***************************************************************************)
EXTENDS Order

\* The text of a path is shorter than what the score of a kind of paths is apart
\* from that of the next one.
MaxPath == 100000
IsPath(raw) ==
  /\ raw = [op |-> raw.op, pre |-> raw.pre, star |-> raw.star, post |-> raw.post, valid |-> raw.valid]
  /\ IsSequence(raw.pre) /\ IsSequence(raw.post) /\ Len(raw.pre) + Len(raw.post) + 7 < MaxPath

\* compilePath. The specificity is the length of the text or the expression;
\* an expression has 7 characters more than the text around its wildcard.
compilePath(raw) ==
  [kind |-> CASE raw.op = "=" -> "exact" [] raw.op = "~" -> "regex" [] OTHER -> "prefix",
   pre |-> raw.pre, post |-> raw.post,
   specificity |-> IF raw.op = "~" THEN Len(raw.pre) + Len(raw.post) + 7 ELSE Len(raw.pre)]

\* compileRoute, Add: a route needs a path, and its expressions must compile.
Compiles(route) ==
  /\ route.paths # <<>>
  /\ \A i \in DOMAIN route.paths : route.paths[i].valid

compileRoute(id, route) ==
  [id |-> id, route |-> route, paths |-> [i \in DOMAIN route.paths |-> compilePath(route.paths[i])]]

score(p) ==
  CASE p.kind = "exact"  -> 300000 + p.specificity
    [] p.kind = "regex"  -> 200000 + p.specificity
    [] p.kind = "prefix" -> 100000 + p.specificity

\* Does a compiled path match?
Hits(p, path) ==
  CASE p.kind = "exact"  -> path = p.pre
    [] p.kind = "prefix" -> IsPrefix(p.pre, path)
    [] p.kind = "regex"  ->
         /\ IsPrefix(p.pre, path) /\ IsSuffix(p.post, path)
         /\ Len(path) > Len(p.pre) + Len(p.post)
         /\ \A i \in (Len(p.pre) + 1)..(Len(path) - Len(p.post)) : path[i] # "/"

\* The score of the best path of a route that matches; 0 if none does.
matchPath(entry, path) ==
  Max({0} \cup {score(p) : p \in {q \in Range(entry.paths) : Hits(q, path)}})

matchMethod(methods, method) == methods = <<>> \/ method \in Range(methods)

\* "*.example.com" and "example.*" stand for at least one more label.
matchHost(hosts, host) ==
  \/ hosts = <<>>
  \/ \E h \in Range(hosts) :
       CASE h.wild = ""   -> host = h.labels
         [] h.wild = "*." -> IsSuffix(h.labels, host) /\ Len(host) > Len(h.labels)
         [] h.wild = ".*" -> IsPrefix(h.labels, host) /\ Len(host) > Len(h.labels)

-----------------------------------------------------------------------------
(* The two ways to find the route. Both return its index, or 0. *)

PriorityWeight == 1000000

\* The scan of Match: the highest score, and the first of those that have it.
Total(routes, i, path) == routes[i].route.priority * PriorityWeight + matchPath(routes[i], path)
matchSlow(routes, method, host, path) ==
  LET found == {i \in DOMAIN routes : /\ matchMethod(routes[i].route.methods, method)
                                      /\ matchHost(routes[i].route.hosts, host)
                                      /\ matchPath(routes[i], path) # 0}
      best == {i \in found : \A j \in found : Total(routes, j, path) <= Total(routes, i, path)}
  IN  IF found = {} THEN 0 ELSE Min(best)

AnyMethod == ""

\* rebuildFastRoutes: an entry for every path and method of every route, for any
\* method if the route has none.
Entry(routes, i, p, method) ==
  [path |-> p, method |-> method, index |-> i, score |-> routes[i].route.priority * PriorityWeight + score(p)]
EntriesOfPath(routes, i, p) ==
  LET methods == routes[i].route.methods
  IN  IF methods = <<>> THEN <<Entry(routes, i, p, AnyMethod)>>
      ELSE [m \in DOMAIN methods |-> Entry(routes, i, p, methods[m])]
EntriesOfRoute(routes, i) ==
  Flatten([k \in DOMAIN routes[i].paths |-> EntriesOfPath(routes, i, routes[i].paths[k])])
fastEntries(routes) == Flatten([i \in DOMAIN routes |-> EntriesOfRoute(routes, i)])

\* By descending score and, among equals, in the order of the routes.
rebuildFastRoutes(routes) ==
  LET entries == fastEntries(routes)
      before(i, j) == \/ entries[i].score > entries[j].score
                      \/ entries[i].score = entries[j].score /\ i < j
      order == InOrder(DOMAIN entries, before)
  IN  [n \in DOMAIN order |-> entries[order[n]]]

\* Only routes without hosts and without expressions can be found this way.
fastEnabled(routes) ==
  \A i \in DOMAIN routes : /\ routes[i].route.hosts = <<>>
                           /\ \A p \in Range(routes[i].paths) : p.kind # "regex"

\* The first entry that matches.
matchFast(routes, method, path) ==
  LET entries == rebuildFastRoutes(routes)
      hits == {n \in DOMAIN entries : /\ entries[n].method \in {AnyMethod, method}
                                      /\ Hits(entries[n].path, path)}
  IN  IF hits = {} THEN 0 ELSE entries[Min(hits)].index

Match(routes, method, host, path) ==
  IF fastEnabled(routes) /\ host = <<>>
    THEN matchFast(routes, method, path)
    ELSE matchSlow(routes, method, host, path)
-----------------------------------------------------------------------------
(* What Match promises for a request q *)

Candidates(router, q) ==
  {i \in DOMAIN router : /\ matchMethod(router[i].route.methods, q.method)
                         /\ matchHost(router[i].route.hosts, q.host)
                         /\ \E p \in Range(router[i].paths) : Hits(p, q.path)}

Strength(kind) == CASE kind = "exact" -> 3 [] kind = "regex" -> 2 [] kind = "prefix" -> 1

\* A route with path p is preferred to one with path r.
Preferred(route, p, other, r) ==
  \/ route.priority > other.priority
  \/ /\ route.priority = other.priority
     /\ \/ Strength(p.kind) > Strength(r.kind)
        \/ p.kind = r.kind /\ p.specificity > r.specificity

\* The route that Match finds is one that matches, and none is preferred to it.
BestFor(router, q) ==
  LET i == Match(router, q.method, q.host, q.path)
      hits(j) == {p \in Range(router[j].paths) : Hits(p, q.path)}
  IN  IF i = 0 THEN Candidates(router, q) = {}
      ELSE /\ i \in Candidates(router, q)
           /\ \A j \in Candidates(router, q) : \A r \in hits(j) :
                \E p \in hits(i) : ~Preferred(router[j].route, r, router[i].route, p)

=============================================================================
