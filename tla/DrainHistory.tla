------------------------------ MODULE DrainHistory ------------------------------
(***************************************************************************)
(* RuntimeSnapshot with a history variable: staleRelease[s] records whether, *)
(* when Close() moved s from open to closing, some release() of s stood     *)
(* between its Add(-1), which had returned 0, and its load of the state.    *)
(* Such a release still signals the drain although new requests may have    *)
(* acquired s since its count was zero. The module states that this is the  *)
(* only way in which the closers can run under a request.                   *)
(***************************************************************************)
EXTENDS RuntimeSnapshot

VARIABLE staleRelease

historyVars == <<built, state, inFlight, drainSignaled, drainedCh, closedCh,
                 closersRun, pc, held, cpc, target, staleRelease>>

StaleReleasers(s) == {r \in Requests : held[r] = s /\ pc[r] = "relLoad"}

HInit ==
  /\ Init
  /\ staleRelease = [s \in Snapshots |-> FALSE]

\* The CAS from open to closing takes the record; no other step touches it.
HNext ==
  /\ Next
  /\ staleRelease' =
       [s \in Snapshots |->
          IF state[s] = "open" /\ state'[s] = "closing"
            THEN StaleReleasers(s) # {}
            ELSE staleRelease[s]]

HSpec == HInit /\ [][HNext]_historyVars

HFairSpec == HSpec /\ Fairness

HTypeOK == staleRelease \in [Snapshots -> BOOLEAN]

\* Apart from a release() that Close() overtook, the claim of Close() holds:
\* the closers of a snapshot run only when no request uses it.
CleanDrain ==
  \A s \in Snapshots : closersRun[s] > 0 /\ ~staleRelease[s] => Users(s) = {}

-----------------------------------------------------------------------------
(* The inductive invariant behind CleanDrain. *)

\* Some goroutine has read a zero count of s and is on its way to signal the
\* drain, or it has been signalled.
DrainSeen(s) ==
  \/ drainSignaled[s]
  \/ \E r \in Requests : held[r] = s /\ pc[r] \in {"relLoad", "sigCAS", "sigClose"}
  \/ \E c \in Closers : target[c] = s /\ cpc[c] \in {"sigCAS", "sigClose"}

\* A zero count read after the CAS is final.
DrainInv ==
  \A s \in Snapshots :
    ~staleRelease[s] /\ state[s] # "open" /\ DrainSeen(s) => Users(s) = {}

HistoryInv ==
  /\ SnapshotInv
  /\ HTypeOK
  /\ DrainInv

=============================================================================
