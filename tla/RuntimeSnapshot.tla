---------------------------- MODULE RuntimeSnapshot ----------------------------
(***************************************************************************)
(* The lifetime of runtime snapshots (internal/gateway/gateway.go): the    *)
(* reference count taken by acquire() and given back by release(), and     *)
(* Close(), which stops new acquisitions, waits for the count to drain and *)
(* then closes the plugin resources of the snapshot.                       *)
(*                                                                         *)
(* Every load, store, add or compare-and-swap of a sync/atomic value, and  *)
(* every close of or receive from a channel, is one step: Go's atomics are *)
(* sequentially consistent, so these are the interleavings of the program. *)
(***************************************************************************)
EXTENDS Integers, FiniteSets

CONSTANTS
  Requests,   \* goroutines that call acquire() and release()
  Closers,    \* goroutines that call Close()
  Snapshots,  \* the snapshots that may be allocated
  None        \* the nil pointer

ASSUME RequestsAssumption == IsFiniteSet(Requests)
ASSUME NoneAssumption == None \notin Snapshots

VARIABLES
  built,          \* snapshots allocated so far
  state,          \* RuntimeSnapshot.state
  inFlight,       \* RuntimeSnapshot.inFlight
  drainSignaled,  \* RuntimeSnapshot.drainSignaled
  drainedCh,      \* number of close(drainedCh) calls; a second one panics
  closedCh,       \* number of close(closedCh) calls; a second one panics
  closersRun,     \* number of times the closers of the snapshot were run
  pc,             \* where each request goroutine is in acquire()/release()
  held,           \* the snapshot whose acquire()/release() it executes
  cpc,            \* where each closer goroutine is in Close()
  target          \* the snapshot it closes

fields == <<built, state, inFlight, drainSignaled, drainedCh, closedCh, closersRun>>
requestVars == <<pc, held>>
closerVars == <<cpc, target>>
snapshotVars == <<built, state, inFlight, drainSignaled, drainedCh, closedCh,
                  closersRun, pc, held, cpc, target>>

RequestLabels == {"idle", "acqAdd", "acqRecheck", "undo", "using",
                  "relLoad", "sigCAS", "sigClose"}
CloserLabels == {"idle", "drainLoad", "sigCAS", "sigClose", "wait", "close",
                 "store", "closeCh", "waitClosed"}

TypeOK ==
  /\ built \subseteq Snapshots
  /\ state \in [Snapshots -> {"open", "closing", "closed"}]
  /\ inFlight \in [Snapshots -> Int]
  /\ drainSignaled \in [Snapshots -> BOOLEAN]
  /\ drainedCh \in [Snapshots -> Nat]
  /\ closedCh \in [Snapshots -> Nat]
  /\ closersRun \in [Snapshots -> Nat]
  /\ pc \in [Requests -> RequestLabels]
  /\ held \in [Requests -> Snapshots \cup {None}]
  /\ cpc \in [Closers -> CloserLabels]
  /\ target \in [Closers -> Snapshots \cup {None}]

Init ==
  /\ built \in SUBSET Snapshots
  /\ state = [s \in Snapshots |-> "open"]
  /\ inFlight = [s \in Snapshots |-> 0]
  /\ drainSignaled = [s \in Snapshots |-> FALSE]
  /\ drainedCh = [s \in Snapshots |-> 0]
  /\ closedCh = [s \in Snapshots |-> 0]
  /\ closersRun = [s \in Snapshots |-> 0]
  /\ pc = [r \in Requests |-> "idle"]
  /\ held = [r \in Requests |-> None]
  /\ cpc = [c \in Closers |-> "idle"]
  /\ target = [c \in Closers |-> None]

At(r, label) == pc' = [pc EXCEPT ![r] = label] /\ UNCHANGED held
Return(r) == pc' = [pc EXCEPT ![r] = "idle"] /\ held' = [held EXCEPT ![r] = None]
CAt(c, label) == cpc' = [cpc EXCEPT ![c] = label] /\ UNCHANGED target
CReturn(c) == cpc' = [cpc EXCEPT ![c] = "idle"] /\ target' = [target EXCEPT ![c] = None]

-----------------------------------------------------------------------------
(* Allocation: the fields of a fresh snapshot are those of Init. *)

newRuntimeSnapshot(s) ==
  /\ s \notin built
  /\ built' = built \cup {s}
  /\ UNCHANGED <<state, inFlight, drainSignaled, drainedCh, closedCh, closersRun>>
  /\ UNCHANGED <<requestVars, closerVars>>

-----------------------------------------------------------------------------
(* acquire() *)

\* The first load of the state: a snapshot that is not open is refused.
AcquireLoad(r, s) ==
  /\ pc[r] = "idle"
  /\ s \in built
  /\ IF state[s] = "open"
       THEN /\ pc' = [pc EXCEPT ![r] = "acqAdd"]
            /\ held' = [held EXCEPT ![r] = s]
       ELSE UNCHANGED requestVars
  /\ UNCHANGED <<fields, closerVars>>

AcquireAdd(r) ==
  /\ pc[r] = "acqAdd"
  /\ inFlight' = [inFlight EXCEPT ![held[r]] = @ + 1]
  /\ At(r, "acqRecheck")
  /\ UNCHANGED <<built, state, drainSignaled, drainedCh, closedCh, closersRun, closerVars>>

\* The double-check: a Close() that came in between makes acquire() undo its
\* increment through release().
AcquireRecheckMissing(r) ==
  /\ pc[r] = "acqRecheck"
  /\ At(r, "using")
  /\ UNCHANGED <<fields, closerVars>>
AcquireRecheck(r) ==
  /\ pc[r] = "acqRecheck"
  /\ At(r, IF state[held[r]] = "open" THEN "using" ELSE "undo")
  /\ UNCHANGED <<fields, closerVars>>

-----------------------------------------------------------------------------
(* release(), called by a request that is done or by a failed acquire() *)

ReleaseAddTwice(r) ==
  /\ pc[r] \in {"using", "undo"}
  /\ inFlight' = [inFlight EXCEPT ![held[r]] = IF pc[r] = "undo" THEN @ - 2 ELSE @ - 1]
  /\ IF inFlight'[held[r]] = 0 THEN At(r, "relLoad") ELSE Return(r)
  /\ UNCHANGED <<built, state, drainSignaled, drainedCh, closedCh, closersRun, closerVars>>
ReleaseAdd(r) ==
  /\ pc[r] \in {"using", "undo"}
  /\ inFlight' = [inFlight EXCEPT ![held[r]] = @ - 1]
  /\ IF inFlight'[held[r]] = 0 THEN At(r, "relLoad") ELSE Return(r)
  /\ UNCHANGED <<built, state, drainSignaled, drainedCh, closedCh, closersRun, closerVars>>

ReleaseLoad(r) ==
  /\ pc[r] = "relLoad"
  /\ IF state[held[r]] = "closing" THEN At(r, "sigCAS") ELSE Return(r)
  /\ UNCHANGED <<fields, closerVars>>

-----------------------------------------------------------------------------
(* signalDrained(), by a request (from release) or by a closer (from Close) *)

SignalCASLoadStore(r) ==
  /\ pc[r] = "sigCAS"
  /\ drainSignaled' = [drainSignaled EXCEPT ![held[r]] = TRUE]
  /\ At(r, "sigClose")
  /\ UNCHANGED <<built, state, inFlight, drainedCh, closedCh, closersRun, closerVars>>
SignalCAS(r) ==
  /\ pc[r] = "sigCAS"
  /\ drainSignaled' = [drainSignaled EXCEPT ![held[r]] = TRUE]
  /\ IF drainSignaled[held[r]] THEN Return(r) ELSE At(r, "sigClose")
  /\ UNCHANGED <<built, state, inFlight, drainedCh, closedCh, closersRun, closerVars>>

SignalClose(r) ==
  /\ pc[r] = "sigClose"
  /\ drainedCh' = [drainedCh EXCEPT ![held[r]] = @ + 1]
  /\ Return(r)
  /\ UNCHANGED <<built, state, inFlight, drainSignaled, closedCh, closersRun, closerVars>>

CloserSignalCAS(c) ==
  /\ cpc[c] = "sigCAS"
  /\ drainSignaled' = [drainSignaled EXCEPT ![target[c]] = TRUE]
  /\ CAt(c, IF drainSignaled[target[c]] THEN "wait" ELSE "sigClose")
  /\ UNCHANGED <<built, state, inFlight, drainedCh, closedCh, closersRun, requestVars>>

CloserSignalClose(c) ==
  /\ cpc[c] = "sigClose"
  /\ drainedCh' = [drainedCh EXCEPT ![target[c]] = @ + 1]
  /\ CAt(c, "wait")
  /\ UNCHANGED <<built, state, inFlight, drainSignaled, closedCh, closersRun, requestVars>>

-----------------------------------------------------------------------------
(* Close() *)

\* Only the goroutine that moves the state from open to closing goes on; any
\* other waits for it on closedCh.
CloseCAS(c, s) ==
  /\ cpc[c] = "idle"
  /\ s \in built
  /\ target' = [target EXCEPT ![c] = s]
  /\ IF state[s] = "open"
       THEN /\ state' = [state EXCEPT ![s] = "closing"]
            /\ cpc' = [cpc EXCEPT ![c] = "drainLoad"]
       ELSE /\ cpc' = [cpc EXCEPT ![c] = "waitClosed"]
            /\ UNCHANGED state
  /\ UNCHANGED <<built, inFlight, drainSignaled, drainedCh, closedCh, closersRun, requestVars>>

CloseDrainLoadMissing(c) ==
  /\ cpc[c] = "drainLoad"
  /\ CAt(c, "wait")
  /\ UNCHANGED <<fields, requestVars>>
CloseDrainLoadUnchecked(c) ==
  /\ cpc[c] = "drainLoad"
  /\ CAt(c, "sigCAS")
  /\ UNCHANGED <<fields, requestVars>>
CloseDrainLoad(c) ==
  /\ cpc[c] = "drainLoad"
  /\ CAt(c, IF inFlight[target[c]] = 0 THEN "sigCAS" ELSE "wait")
  /\ UNCHANGED <<fields, requestVars>>

CloseAwaitDrain(c) ==
  /\ cpc[c] = "wait"
  /\ drainedCh[target[c]] > 0
  /\ CAt(c, "close")
  /\ UNCHANGED <<fields, requestVars>>

\* The loop over the closers, in reverse order of registration, and
\* s.closers = nil.
CloseResources(c) ==
  /\ cpc[c] = "close"
  /\ closersRun' = [closersRun EXCEPT ![target[c]] = @ + 1]
  /\ CAt(c, "store")
  /\ UNCHANGED <<built, state, inFlight, drainSignaled, drainedCh, closedCh, requestVars>>

CloseStoreClosed(c) ==
  /\ cpc[c] = "store"
  /\ state' = [state EXCEPT ![target[c]] = "closed"]
  /\ CAt(c, "closeCh")
  /\ UNCHANGED <<built, inFlight, drainSignaled, drainedCh, closedCh, closersRun, requestVars>>

CloseClosedChMissing(c) ==
  /\ cpc[c] = "closeCh"
  /\ CReturn(c)
  /\ UNCHANGED <<fields, requestVars>>
CloseClosedCh(c) ==
  /\ cpc[c] = "closeCh"
  /\ closedCh' = [closedCh EXCEPT ![target[c]] = @ + 1]
  /\ CReturn(c)
  /\ UNCHANGED <<built, state, inFlight, drainSignaled, drainedCh, closersRun, requestVars>>

CloseAwaitDrainedInstead(c) ==
  /\ cpc[c] = "waitClosed"
  /\ drainedCh[target[c]] > 0
  /\ CReturn(c)
  /\ UNCHANGED <<fields, requestVars>>
CloseAwaitClosed(c) ==
  /\ cpc[c] = "waitClosed"
  /\ closedCh[target[c]] > 0
  /\ CReturn(c)
  /\ UNCHANGED <<fields, requestVars>>

-----------------------------------------------------------------------------
(* The steps a goroutine takes once it is inside acquire, release or Close. *)

RequestStep(r) ==
  \/ AcquireAdd(r)
  \/ AcquireRecheck(r)
  \/ ReleaseAdd(r)
  \/ ReleaseLoad(r)
  \/ SignalCAS(r)
  \/ SignalClose(r)

CloserStep(c) ==
  \/ CloseDrainLoad(c)
  \/ CloserSignalCAS(c)
  \/ CloserSignalClose(c)
  \/ CloseAwaitDrain(c)
  \/ CloseResources(c)
  \/ CloseStoreClosed(c)
  \/ CloseClosedCh(c)
  \/ CloseAwaitClosed(c)

Next ==
  \/ \E s \in Snapshots : newRuntimeSnapshot(s)
  \/ \E r \in Requests : RequestStep(r) \/ \E s \in Snapshots : AcquireLoad(r, s)
  \/ \E c \in Closers : CloserStep(c) \/ \E s \in Snapshots : CloseCAS(c, s)

Spec == Init /\ [][Next]_snapshotVars

\* The Go scheduler runs every runnable goroutine. Nothing is assumed of the
\* handlers of a request that uses a snapshot: without a configured timeout the
\* upstream may keep it waiting forever.
Fairness ==
  /\ \A r \in Requests : WF_snapshotVars(pc[r] # "using" /\ RequestStep(r))
  /\ \A c \in Closers : WF_snapshotVars(CloserStep(c))

FairSpec == Spec /\ Fairness

-----------------------------------------------------------------------------
(* Properties *)

\* The requests between the increment and the decrement of inFlight, and those
\* whose handlers run on the snapshot.
Counted(s) == {r \in Requests : held[r] = s /\ pc[r] \in {"acqRecheck", "undo", "using"}}
Users(s) == {r \in Requests : held[r] = s /\ pc[r] = "using"}

\* inFlight is exactly the number of requests between the Add(1) of acquire and
\* the Add(-1) of release, whichever of the two release paths they take. In
\* particular it never goes negative.
InFlightExact == \A s \in Snapshots : inFlight[s] = Cardinality(Counted(s))

\* Neither channel of a snapshot is closed twice, which would panic, and its
\* closers run at most once, and only after the drain signal: the CAS on
\* drainSignaled and the CAS on state each have one winner.
CloseOnce ==
  \A s \in Snapshots :
    /\ drainedCh[s] <= 1 /\ closedCh[s] <= 1 /\ closersRun[s] <= 1
    /\ closersRun[s] <= drainedCh[s] /\ closedCh[s] <= closersRun[s]

\* The goroutines that are bound to look at the drain condition of s, or to
\* close drainedCh, before they return.
Wakers(s) ==
  Counted(s)
    \cup {r \in Requests : held[r] = s /\ pc[r] \in {"relLoad", "sigCAS", "sigClose"}}
    \cup {c \in Closers : target[c] = s /\ cpc[c] \in {"drainLoad", "sigCAS", "sigClose"}}

\* No lost wakeup: while Close() of a snapshot is not finished and drainedCh is
\* still open, some goroutine is going to look at the drain condition or close
\* the channel. This is the argument that the two checks, in Close after the
\* CAS and in release after the decrement, cannot both miss.
NoLostWakeup ==
  \A s \in Snapshots : state[s] = "closing" /\ drainedCh[s] = 0 => Wakers(s) # {}

\* A Close() that lost the CAS returns only after the winner has run the
\* closers and published the closed state.
LoserSeesClosed ==
  [][\A c \in Closers :
       cpc[c] = "waitClosed" /\ cpc'[c] = "idle"
         => state[target[c]] = "closed" /\ closersRun[target[c]] = 1]_snapshotVars

\* Once a snapshot is closing, no request starts to use it: the set of its
\* users only shrinks. This is the double-check of acquire().
DrainOnlyShrinks ==
  [][\A s \in Snapshots : state[s] # "open" => Users(s)' \subseteq Users(s)]_snapshotVars

\* "so the snapshot is never used after this point" (gateway.go:275-276): the
\* closers of a snapshot run only when no request uses it.
NeverUsedAfterClose ==
  \A s \in Snapshots : closersRun[s] > 0 => Users(s) = {}

\* No request uses a snapshot forever.
RequestsEnd == \A r \in Requests : []<>(pc[r] # "using")

\* Every Close() returns, whoever else is closing the same snapshot, provided that
\* the requests it waits for end (gateway.go:280): nothing else keeps it, neither
\* a drain signal that was missed nor another Close().
CloseReturns == RequestsEnd => \A c \in Closers : cpc[c] # "idle" ~> cpc[c] = "idle"

-----------------------------------------------------------------------------
(* The inductive invariant behind the safety properties. *)

\* A goroutine inside acquire, release or Close works on an allocated snapshot.
OnBuilt ==
  /\ \A r \in Requests : pc[r] # "idle" => held[r] \in built
  /\ \A c \in Closers : cpc[c] # "idle" => target[c] \in built

\* The winner of the CAS on state, until Close() returns.
Owns(c, s) == target[c] = s /\ cpc[c] \notin {"idle", "waitClosed"}

\* A snapshot has at most one owner, and its state tells how far the owner is.
OwnerInv ==
  /\ \A s \in Snapshots : \A c, d \in Closers : Owns(c, s) /\ Owns(d, s) => c = d
  /\ \A s \in Snapshots : \A c \in Closers :
       Owns(c, s) => state[s] = IF cpc[c] = "closeCh" THEN "closed" ELSE "closing"

\* How often each one-shot effect has happened, by state and by owner.
OnceInv ==
  \A s \in Snapshots :
    /\ state[s] = "open" => ~drainSignaled[s] /\ closersRun[s] = 0
    /\ state[s] # "closed" => closedCh[s] = 0
    /\ state[s] = "closed" => closersRun[s] = 1
    /\ closersRun[s] <= 1 /\ closedCh[s] <= 1
    /\ closersRun[s] = 1 => drainedCh[s] = 1
    /\ \A c \in Closers : Owns(c, s) =>
         /\ cpc[c] \notin {"store", "closeCh"} => closersRun[s] = 0
         /\ cpc[c] = "store" => closersRun[s] = 1
         /\ cpc[c] = "close" => drainedCh[s] = 1
         /\ cpc[c] = "closeCh" => closedCh[s] = 0

\* Between a successful CAS on drainSignaled and the close of drainedCh.
Signals(r, s) == held[r] = s /\ pc[r] = "sigClose"
CSignals(c, s) == target[c] = s /\ cpc[c] = "sigClose"

\* drainedCh is closed by the one goroutine that set drainSignaled, and a
\* request signals only a snapshot that is no longer open.
SignalOnce(s) ==
  /\ drainedCh[s] \in {0, 1}
  /\ drainedCh[s] = 1 => drainSignaled[s]
  /\ \A r \in Requests : Signals(r, s) =>
       /\ drainSignaled[s] /\ drainedCh[s] = 0
       /\ \A q \in Requests : Signals(q, s) => q = r
       /\ \A c \in Closers : ~CSignals(c, s)
  /\ \A c \in Closers : CSignals(c, s) => drainSignaled[s] /\ drainedCh[s] = 0
  /\ drainSignaled[s] /\ drainedCh[s] = 0 =>
       \/ \E r \in Requests : Signals(r, s)
       \/ \E c \in Closers : CSignals(c, s)

SignalInv ==
  /\ \A s \in Snapshots : SignalOnce(s)
  /\ \A r \in Requests : pc[r] \in {"sigCAS", "sigClose"} => state[held[r]] # "open"

\* While a closing snapshot is not signalled, some goroutine is still going to
\* look at its drain condition.
WakeInv ==
  \A s \in Snapshots :
    state[s] = "closing" /\ ~drainSignaled[s] =>
      \/ inFlight[s] # 0
      \/ \E r \in Requests : held[r] = s /\ pc[r] \in {"relLoad", "sigCAS"}
      \/ \E c \in Closers : target[c] = s /\ cpc[c] \in {"drainLoad", "sigCAS"}

SnapshotInv ==
  /\ TypeOK
  /\ OnBuilt
  /\ InFlightExact
  /\ OwnerInv
  /\ OnceInv
  /\ SignalInv
  /\ WakeInv

=============================================================================
