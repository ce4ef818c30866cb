---------------------------- MODULE MCControlPlane ----------------------------
(* ControlPlane for TLC: two upstreams, a service and a route that refers to it. *)
EXTENDS ControlPlane, TLC

Body(refs) == [refs |-> refs, decodes |-> TRUE, complete |-> TRUE]

MCResources == {"u1", "u2", "s1", "r1"}
MCkind == [x \in MCResources |->
             CASE x \in {"u1", "u2"} -> "upstreams" [] x = "s1" -> "services" [] OTHER -> "routes"]

\* An upstream may be written without nodes, or with a field of another type; the
\* service changes its upstream.
MCBodies ==
  [x \in MCResources |->
     CASE x = "u1" -> {Body({}), [Body({}) EXCEPT !.complete = FALSE]}
       [] x = "u2" -> {Body({}), [Body({}) EXCEPT !.decodes = FALSE]}
       [] x = "s1" -> {Body({"u1"}), Body({"u2"})}
       [] OTHER -> {Body({"s1"})}]
MCPatches ==
  [x \in MCResources |-> IF x = "s1" THEN {[refs |-> {"u2"}]} ELSE {}]

Chain(u) == "u1" :> Body({}) @@ "s1" :> Body({u}) @@ "r1" :> Body({"s1"})
MCInitialStores == {Empty, Chain("u1")}

\* A whole configuration, a part that manages every kind, and nothing at all.
MCBundles ==
  {[resources |-> "u2" :> Body({}) @@ "s1" :> Body({"u2"}) @@ "r1" :> Body({"s1"}), managed |-> {}],
   [resources |-> "u1" :> Body({}) @@ "s1" :> Body({"u1"}), managed |-> Kinds],
   [resources |-> Empty, managed |-> {}]}

Symmetry == Permutations(Clients)
=============================================================================
