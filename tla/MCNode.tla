-------------------------------- MODULE MCNode --------------------------------
(* The parts of a gateway process that share no state with each other, for TLC: *)
(* the watch of the configuration, limit_count and the access log. A behaviour  *)
(* is one of a single part while the others stay where they are, which leaves   *)
(* out nothing: no step of a part reads or changes anything of another one.     *)
EXTENDS ConfigWatch, LimitCount, AccessLog

VARIABLE part

\* The first configuration is served and watched, and nothing happens to it.
Watching ==
  /\ kinds = <<"good">> /\ streamUp = TRUE /\ sent = 1 /\ watchCh = <<>> /\ breaks = 0
  /\ wpc = "select" /\ notified = 0 /\ loaded = 0 /\ seen = 1 /\ serving = 1 /\ gap = {}
  /\ cancelled = FALSE /\ errCh = <<>> /\ running = TRUE /\ mpc = "select"

NodeInit ==
  /\ part \in {"watch", "limit_count", "access_log"}
  /\ IF part = "watch" THEN Init ELSE Watching
  /\ LimitInit /\ (part # "limit_count" => now = TimeWindow)
  /\ LogInit /\ (part # "access_log" => target = [c \in Closers |-> CHOOSE w \in Writers : TRUE])

\* A part that cannot go on is an error, except when the process has ended.
NodeNext ==
  /\ \/ part = "watch" /\ Next /\ UNCHANGED <<limitVars, logVars>>
     \/ part = "watch" /\ ~Alive /\ UNCHANGED <<vars, limitVars, logVars>>
     \/ part = "limit_count" /\ LimitNext /\ UNCHANGED <<vars, logVars>>
     \/ part = "access_log" /\ LogNext /\ UNCHANGED <<vars, limitVars>>
  /\ UNCHANGED part

NodeSpec == NodeInit /\ [][NodeNext]_<<vars, limitVars, logVars, part>>

\* A part that stays where it is has no step that fairness would ask for.
NodeFairSpec == NodeSpec /\ Fairness /\ LogFairness
=============================================================================
