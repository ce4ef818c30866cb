----------------------------- MODULE MCUpstream -----------------------------
(* Upstream for TLC. *)
EXTENDS Upstream

CONSTANTS r1, r2, o1

\* One request has no limit at all, the other only through its upstream.
MCServiceTimeout == [r \in {r1, r2} |-> [connect |-> 0, read |-> 0, write |-> 0]]
MCUpstreamTimeout == [r \in {r1, r2} |-> [connect |-> 0, read |-> 0, write |-> IF r = r2 THEN 1 ELSE 0]]
MCAnswers == [r \in {r1, r2} |-> {"2xx", IF r = r1 THEN "4xx" ELSE "5xx"}]
MCRoute == [r \in {r1, r2} |-> "route"]
=============================================================================
