----------------------------- MODULE MCBundleSync -----------------------------
(* BundleSync for TLC: two upstreams and a service; two bundles. *)
EXTENDS BundleSync, TLC

Body(refs) == [refs |-> refs, decodes |-> TRUE, complete |-> TRUE]

MCResources == {"u1", "u2", "s1"}
MCkind == [x \in MCResources |-> IF x = "s1" THEN "services" ELSE "upstreams"]
MCBodies == [x \in MCResources |-> IF x = "u1" THEN {Body({})} ELSE {}]
MCPatches == [x \in MCResources |-> {}]
MCInitialStores == {"u1" :> Body({}) @@ "s1" :> Body({"u1"})}

\* The service moves to another upstream; a bundle manages both kinds and has no
\* service. The other client imports nothing.
MCFiles ==
  {[resources |-> "u2" :> Body({}) @@ "s1" :> Body({"u2"}), managed |-> {}],
   [resources |-> "u1" :> Body({}), managed |-> Kinds]}
=============================================================================
