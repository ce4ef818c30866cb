--------------------------- MODULE SnapshotRegister ---------------------------
(***************************************************************************)
(* What the gateway promises to requests and to the resources of its       *)
(* configurations, without counters, channels or goroutines: a register    *)
(* that holds the installed snapshot. A request chooses what the register  *)
(* holds, possibly several times, and is served with its last choice. A    *)
(* snapshot is installed at most once, its close begins only when it has   *)
(* been replaced or removed, and no request begins on it from then on.     *)
(***************************************************************************)
CONSTANTS Requests, Snapshots, None

VARIABLES
  register,   \* the installed snapshot, None after the shutdown
  life,       \* where each snapshot is in its life
  stage,      \* where each request is
  choice      \* the snapshot it chose

registerVars == <<register, life, stage, choice>>

Init ==
  /\ register \in Snapshots
  /\ life = [s \in Snapshots |-> IF s = register THEN "installed" ELSE "unbuilt"]
  /\ stage = [r \in Requests |-> "idle"]
  /\ choice = [r \in Requests |-> None]

-----------------------------------------------------------------------------
(* Requests *)

Arrive(r) ==
  /\ stage[r] = "idle"
  /\ stage' = [stage EXCEPT ![r] = "choosing"]
  /\ UNCHANGED <<register, life, choice>>

\* An empty register answers the request.
Choose(r) ==
  /\ stage[r] = "choosing"
  /\ choice' = [choice EXCEPT ![r] = register]
  /\ stage' = [stage EXCEPT ![r] = IF register = None THEN "answered" ELSE @]
  /\ UNCHANGED <<register, life>>

\* The choice may have been replaced since, but nobody has begun to close it.
Begin(r) ==
  /\ stage[r] = "choosing" /\ choice[r] # None
  /\ life[choice[r]] \in {"installed", "retired"}
  /\ stage' = [stage EXCEPT ![r] = "serving"]
  /\ UNCHANGED <<register, life, choice>>

End(r) ==
  /\ stage[r] = "serving"
  /\ stage' = [stage EXCEPT ![r] = "answered"]
  /\ UNCHANGED <<register, life, choice>>

Leave(r) ==
  /\ stage[r] = "answered"
  /\ stage' = [stage EXCEPT ![r] = "idle"]
  /\ choice' = [choice EXCEPT ![r] = None]
  /\ UNCHANGED <<register, life>>

-----------------------------------------------------------------------------
(* Snapshots *)

Build(s) ==
  /\ life[s] = "unbuilt"
  /\ life' = [life EXCEPT ![s] = "fresh"]
  /\ UNCHANGED <<register, stage, choice>>

\* The snapshots after the installed one has been taken out of the register.
Retired == [s \in Snapshots |-> IF s = register THEN "retired" ELSE life[s]]

Install(s) ==
  /\ life[s] = "fresh"
  /\ register' = s
  /\ life' = [Retired EXCEPT ![s] = "installed"]
  /\ UNCHANGED <<stage, choice>>

Remove ==
  /\ register' = None
  /\ life' = Retired
  /\ UNCHANGED <<stage, choice>>

BeginClose(s) ==
  /\ life[s] = "retired"
  /\ life' = [life EXCEPT ![s] = "closing"]
  /\ UNCHANGED <<register, stage, choice>>

EndClose(s) ==
  /\ life[s] = "closing"
  /\ life' = [life EXCEPT ![s] = "closed"]
  /\ UNCHANGED <<register, stage, choice>>

-----------------------------------------------------------------------------
Next ==
  \/ \E r \in Requests : Arrive(r) \/ Choose(r) \/ Begin(r) \/ End(r) \/ Leave(r)
  \/ \E s \in Snapshots : Build(s) \/ Install(s) \/ BeginClose(s) \/ EndClose(s)
  \/ Remove

Spec == Init /\ [][Next]_registerVars

=============================================================================
