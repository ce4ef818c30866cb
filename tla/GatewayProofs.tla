----------------------------- MODULE GatewayProofs -----------------------------
(***************************************************************************)
(* Proofs about Gateway, for any finite set of requests, any set of        *)
(* snapshots and any numbers of concurrent reloads and shutdowns: the      *)
(* gateway that uses the snapshot protocol of SnapshotProofs, and the      *)
(* register it implements.                                                 *)
(***************************************************************************)
EXTENDS Gateway, SnapshotProofs

USE DEF fields, requestVars, closerVars, At, Return, CAt, CReturn

\* Every step of ServeHTTP, Reload and ShutdownContext is a step of the snapshot
\* protocol, or does not touch a snapshot.
LEMMA StepRefines == GTypeOK /\ [GNext]_vars => [Next]_snapshotVars
<1> SUFFICES ASSUME GTypeOK, [GNext]_vars PROVE [Next]_snapshotVars
  OBVIOUS
<1>1. ASSUME NEW r \in Requests, Arrive(r) \/ LoadSnapshot(r) \/ Serve(r) \/ Finish(r)
      PROVE  UNCHANGED snapshotVars
  BY <1>1 DEF Arrive, LoadSnapshot, Serve, Finish
<1>2. ASSUME NEW r \in Requests, TryAcquire(r)
      PROVE  [Next]_snapshotVars
  <2>1. AcquireLoad(r, loaded[r])
    BY <1>2 DEF TryAcquire
  <2>2. loaded[r] \in Snapshots
    BY <2>1 DEF AcquireLoad, GTypeOK, TypeOK
  <2> QED
    BY <2>1, <2>2 DEF Next
<1>3. ASSUME NEW r \in Requests, CountAcquire(r) \/ ConfirmAcquire(r) \/ Release(r)
      PROVE  [Next]_snapshotVars
  BY <1>3 DEF CountAcquire, ConfirmAcquire, Release, Next, RequestStep
<1>4. ASSUME NEW c \in Closers, \/ StartReload(c) \/ CompileFails(c) \/ SwapFresh(c)
                                \/ ServerStopped(c) \/ SwapNil(c) \/ CloseReturned(c)
      PROVE  UNCHANGED snapshotVars
  BY <1>4 DEF StartReload, CompileFails, SwapFresh, ServerStopped, SwapNil, CloseReturned
<1>5. ASSUME NEW c \in Closers, NEW s \in Snapshots, CompileSucceeds(c, s)
      PROVE  [Next]_snapshotVars
  BY <1>5 DEF CompileSucceeds, Next
<1>6. ASSUME NEW c \in Closers, CallClose(c)
      PROVE  [Next]_snapshotVars
  <2>1. CloseCAS(c, old[c])
    BY <1>6 DEF CallClose
  <2>2. old[c] \in Snapshots
    BY <2>1 DEF CloseCAS, GTypeOK, TypeOK
  <2> QED
    BY <2>1, <2>2 DEF Next
<1>7. ASSUME NEW c \in Closers, CloseProgress(c)
      PROVE  [Next]_snapshotVars
  BY <1>7 DEF CloseProgress, Next
<1>8. CASE UNCHANGED vars
  BY <1>8 DEF vars, snapshotVars
<1> QED
  BY <1>1, <1>2, <1>3, <1>4, <1>5, <1>6, <1>7, <1>8, ReloadersAssumption
     DEF GNext, ServeStep, ReloadStep, StopStep, CloseStep, Stoppers

\* The variables keep their types in every step.
LEMMA GTypeStep ==
  ASSUME GTypeOK, TypeOK', [GNext]_vars
  PROVE  GTypeOK'
<1>1. ASSUME NEW r \in Requests, Arrive(r) \/ ServeStep(r)
      PROVE  GTypeOK'
  BY <1>1 DEF GTypeOK, Pointers, Phases, Arrive, ServeStep, LoadSnapshot, TryAcquire,
     CountAcquire, ConfirmAcquire, Serve, Release, Finish, gatewayVars
<1>2. ASSUME NEW c \in Closers, CloseStep(c)
      PROVE  GTypeOK'
  BY <1>2 DEF GTypeOK, Pointers, GatewayLabels, CloseStep, CallClose, CloseProgress,
     CloseReturned, gatewayVars
<1>3. ASSUME NEW c \in Closers, NEW s \in Snapshots, CompileSucceeds(c, s)
      PROVE  GTypeOK'
  BY <1>3 DEF GTypeOK, Pointers, GatewayLabels, CompileSucceeds
<1>4. ASSUME NEW c \in Closers, \/ StartReload(c) \/ CompileFails(c) \/ SwapFresh(c)
                                \/ ServerStopped(c) \/ SwapNil(c)
      PROVE  GTypeOK'
  BY <1>4 DEF GTypeOK, Pointers, GatewayLabels, StartReload, CompileFails, SwapFresh,
     ServerStopped, SwapNil
<1>5. CASE UNCHANGED vars
  BY <1>5 DEF vars, GTypeOK
<1> QED
  BY <1>1, <1>2, <1>3, <1>4, <1>5, ReloadersAssumption
     DEF GNext, ReloadStep, StopStep, Stoppers

\* What a request loaded was installed at that time, so no Reload holds it as its
\* fresh snapshot any more, and what it acquires is what it loaded.
LoadedInv ==
  /\ \A r \in Requests : phase[r] \in {"acquire", "serve"} => loaded[r] # None
  /\ \A r \in Requests : loaded[r] # None =>
       loaded[r] \in built /\ \A c \in Closers : fresh[c] # loaded[r]
  /\ \A r \in Requests : phase[r] = "acquire" /\ pc[r] # "idle" => held[r] = loaded[r]

\* The second half of the inductive invariant is preserved by every step.
LEMMA LoadedStep ==
  ASSUME GatewayInv, LoadedInv, [GNext]_vars
  PROVE  LoadedInv'
<1> USE NoneAssumption, ReloadersAssumption
<1> USE DEF GatewayInv, GTypeOK, TypeOK, Pointers, Phases, LoadedInv, At, Return
<1>1. ASSUME NEW r \in Requests, Arrive(r) \/ Serve(r) \/ Finish(r)
      PROVE  LoadedInv'
  BY <1>1 DEF Arrive, Serve, Finish, snapshotVars, requestVars, fields
<1>2. ASSUME NEW r \in Requests, LoadSnapshot(r)
      PROVE  LoadedInv'
  BY <1>2 DEF LoadSnapshot, snapshotVars, requestVars, fields, CurrentIsOpen,
     OwnershipInv, FreshOwned
<1>3. ASSUME NEW r \in Requests, TryAcquire(r)
      PROVE  LoadedInv'
  BY <1>3 DEF TryAcquire, AcquireLoad, fields, requestVars
<1>4. ASSUME NEW r \in Requests, CountAcquire(r) \/ ConfirmAcquire(r)
      PROVE  LoadedInv'
  BY <1>4 DEF CountAcquire, ConfirmAcquire, AcquireAdd, AcquireRecheck, gatewayVars, fields
<1>5. ASSUME NEW r \in Requests, Release(r)
      PROVE  LoadedInv'
  <2>1. phase[r] # "acquire" /\ UNCHANGED <<built, phase, loaded, fresh>>
    BY <1>5 DEF Release, ReleaseAdd, ReleaseLoad, SignalCAS, SignalClose, gatewayVars, fields
  <2> HIDE DEF LoadedInv
  <2>2. \A q \in Requests : q # r => pc'[q] = pc[q] /\ held'[q] = held[q]
    BY <1>5 DEF Release, ReleaseAdd, ReleaseLoad, SignalCAS, SignalClose, fields
  <2> USE DEF LoadedInv
  <2> QED
    BY <2>1, <2>2
<1>6. ASSUME NEW c \in Closers, \/ StartReload(c) \/ CompileFails(c) \/ ServerStopped(c)
                                \/ SwapFresh(c) \/ SwapNil(c) \/ CloseReturned(c)
      PROVE  LoadedInv'
  BY <1>6 DEF StartReload, CompileFails, ServerStopped, SwapFresh, SwapNil, CloseReturned,
     snapshotVars, requestVars, fields
<1>7. ASSUME NEW c \in Closers, NEW s \in Snapshots, CompileSucceeds(c, s)
      PROVE  LoadedInv'
  BY <1>7 DEF CompileSucceeds, newRuntimeSnapshot, requestVars
<1>8. ASSUME NEW c \in Closers, CallClose(c)
      PROVE  LoadedInv'
  BY <1>8 DEF CallClose, CloseCAS, requestVars
<1>9. ASSUME NEW c \in Closers, CloseProgress(c)
      PROVE  LoadedInv'
  <2>1. UNCHANGED gatewayVars
    BY <1>9 DEF CloseProgress
  <2> HIDE DEF GatewayInv, GTypeOK, TypeOK, LoadedInv
  <2>2. UNCHANGED <<built, pc, held>>
    BY <1>9 DEF CloseProgress, CloserStep, CloseDrainLoad, CloserSignalCAS,
       CloserSignalClose, CloseAwaitDrain, CloseResources, CloseStoreClosed, CloseClosedCh,
       CloseAwaitClosed, requestVars, fields
  <2> QED
    BY <2>1, <2>2 DEF LoadedInv, gatewayVars
<1>10. CASE UNCHANGED vars
  BY <1>10 DEF vars
<1> QED
  BY Zenon, <1>1, <1>2, <1>3, <1>4, <1>5, <1>6, <1>7, <1>8, <1>9, <1>10
     DEF GNext, ServeStep, ReloadStep, StopStep, CloseStep, Stoppers

\* What the ownership of snapshots depends on.
ownership == <<built, state, cpc, current, gpc, fresh, old>>

\* ServeHTTP never changes who owns a snapshot, nor its state.
LEMMA ServeFrame ==
  ASSUME NEW r \in Requests, Arrive(r) \/ ServeStep(r)
  PROVE  UNCHANGED ownership
BY Zenon DEF ownership, Arrive, ServeStep, LoadSnapshot, TryAcquire, CountAcquire,
   ConfirmAcquire, Serve, Release, Finish, gatewayVars, AcquireLoad, AcquireAdd,
   AcquireRecheck, ReleaseAdd, ReleaseLoad, SignalCAS, SignalClose, snapshotVars

\* The safety properties together with the ownership of snapshots.
Ownership == CurrentIsOpen /\ OwnershipInv /\ NoLeak /\ CloseUncontended

\* A step of Close changes the state of a snapshot only from closing to closed,
\* and its last step makes the goroutine idle.
LEMMA CloserFrame ==
  ASSUME SnapshotInv, NEW c \in Closers, CloserStep(c)
  PROVE  /\ UNCHANGED built
         /\ \A s \in Snapshots : state'[s] = "open" <=> state[s] = "open"
         /\ \A d \in Closers : d # c => cpc'[d] = cpc[d]
         /\ cpc'[c] # "waitClosed"
<1> USE DEF SnapshotInv, TypeOK, CloserLabels
<1>1. CASE CloseStoreClosed(c)
  <2>1. target[c] \in Snapshots
    BY <1>1 DEF CloseStoreClosed, OnBuilt
  <2>2. state[target[c]] # "open"
    BY <1>1, <2>1 DEF CloseStoreClosed, OwnerInv, Owns
  <2> QED
    BY <1>1, <2>1, <2>2 DEF CloseStoreClosed
<1>2. CASE ~CloseStoreClosed(c)
  BY <1>2 DEF CloserStep, CloseDrainLoad, CloserSignalCAS, CloserSignalClose,
     CloseAwaitDrain, CloseResources, CloseClosedCh, CloseAwaitClosed
<1> QED
  BY <1>1, <1>2

\* A snapshot has one owner before and after every step of Reload and
\* ShutdownContext.
LEMMA OwnershipStep ==
  ASSUME SnapshotInv, GTypeOK, Ownership, [GNext]_vars
  PROVE  Ownership'
<1> USE NoneAssumption, ReloadersAssumption
<1> USE DEF GTypeOK, TypeOK, Pointers
<1>1. ASSUME UNCHANGED ownership
      PROVE  Ownership'
  BY <1>1 DEF ownership, Ownership, CurrentIsOpen, OwnershipInv, FreshOwned, OldOwned, Free, NoLeak,
     CloseUncontended
<1>2. ASSUME NEW c \in Closers, CallClose(c)
      PROVE  Ownership'
  <2>1. old[c] \in built /\ state[old[c]] = "open" /\ gpc[c] = "closeOld"
    BY <1>2 DEF CallClose, Ownership, OwnershipInv, FreshOwned, OldOwned, Free
  <2>2. /\ state' = [state EXCEPT ![old[c]] = "closing"]
        /\ cpc' = [cpc EXCEPT ![c] = "drainLoad"]
        /\ gpc' = [gpc EXCEPT ![c] = "closing"]
        /\ UNCHANGED <<built, current, fresh, old>>
    BY <1>2, <2>1 DEF CallClose, CloseCAS
  <2>3. CurrentIsOpen'
    BY <2>1, <2>2 DEF Ownership, CurrentIsOpen, OwnershipInv, OldOwned
  <2>4. OwnershipInv'
    <3>1. FreshOwned'
      BY <2>1, <2>2 DEF Ownership, OwnershipInv, FreshOwned, OldOwned, Free
    <3>2. OldOwned'
      BY <2>1, <2>2 DEF Ownership, OwnershipInv, FreshOwned, OldOwned, Free, CurrentIsOpen
    <3> QED
      BY <2>1, <2>2, <3>1, <3>2 DEF Ownership, OwnershipInv, FreshOwned, Free
  <2>5. NoLeak'
    BY <2>1, <2>2 DEF Ownership, NoLeak
  <2>6. CloseUncontended'
    BY <2>2 DEF Ownership, CloseUncontended
  <2> QED
    BY <2>3, <2>4, <2>5, <2>6 DEF Ownership
<1>3. ASSUME NEW c \in Closers, CloseProgress(c)
      PROVE  Ownership'
  <2>1. /\ UNCHANGED <<built, current, gpc, fresh, old>>
        /\ \A s \in Snapshots : state'[s] = "open" <=> state[s] = "open"
        /\ \A d \in Closers : d # c => cpc'[d] = cpc[d]
        /\ cpc'[c] # "waitClosed"
        /\ gpc[c] = "closing"
    BY <1>3, CloserFrame DEF CloseProgress, gatewayVars
  <2>2. CurrentIsOpen'
    BY <2>1 DEF Ownership, CurrentIsOpen
  <2>3. OwnershipInv'
    <3>1. \A s \in Snapshots : Free(s)' <=> Free(s)
      BY <2>1 DEF Free
    <3>2. FreshOwned'
      <4>1. FreshOwned /\ \A d \in Closers : fresh[d] # None => fresh[d] \in Snapshots
        BY DEF Ownership, OwnershipInv
      <4>2. gpc' = gpc /\ fresh' = fresh /\ current' = current
        BY <2>1
      <4> QED
        BY ONLY <3>1, <4>1, <4>2 DEF FreshOwned, Free
    <3>3. OldOwned'
      <4>1. OldOwned /\ \A d \in Closers : old[d] # None => old[d] \in Snapshots
        BY DEF Ownership, OwnershipInv
      <4>2. \A d \in Closers : gpc[d] = "closeOld" => old[d] \in Snapshots
        BY <4>1 DEF OldOwned, Free
      <4>3. gpc' = gpc /\ fresh' = fresh /\ current' = current /\ old' = old
        BY <2>1
      <4> QED
        BY ONLY <3>1, <4>1, <4>2, <4>3 DEF OldOwned, Free
    <3>4. \A d \in Reloaders : gpc'[d] = "swap" => fresh'[d] # None
      BY <2>1 DEF Ownership, OwnershipInv
    <3>5. \A d \in Closers : gpc'[d] # "closing" => cpc'[d] = "idle"
      BY <2>1 DEF Ownership, OwnershipInv
    <3>6. \A s \in Snapshots \ built' : state'[s] = "open"
      BY <2>1 DEF Ownership, OwnershipInv
    <3> QED
      BY <3>2, <3>3, <3>4, <3>5, <3>6 DEF OwnershipInv
  <2>4. NoLeak'
    <3>1. built \subseteq Snapshots
      OBVIOUS
    <3> QED
      BY <2>1, <3>1 DEF Ownership, NoLeak
  <2>5. CloseUncontended'
    BY <2>1 DEF Ownership, CloseUncontended
  <2> QED
    BY <2>2, <2>3, <2>4, <2>5 DEF Ownership
<1>4. ASSUME NEW c \in Closers, CloseReturned(c)
      PROVE  Ownership'
  <2>1. /\ UNCHANGED <<built, state, cpc, current, fresh>> /\ cpc[c] = "idle" /\ gpc[c] = "closing"
        /\ \A d \in Closers : d # c => gpc'[d] = gpc[d] /\ old'[d] = old[d]
        /\ gpc'[c] \in {"idle", "stopped"}
    BY <1>4 DEF CloseReturned, snapshotVars, fields, closerVars
  <2>2. CurrentIsOpen' /\ CloseUncontended'
    BY <2>1 DEF Ownership, CurrentIsOpen, CloseUncontended
  <2>3. FreshOwned'
    BY <2>1 DEF Ownership, OwnershipInv, FreshOwned, Free
  <2>4. OldOwned'
    <3>1. OldOwned /\ \A d \in Closers : gpc'[d] = "closeOld" => d # c
      BY <2>1 DEF Ownership, OwnershipInv
    <3>2. built' = built /\ state' = state /\ current' = current /\ fresh' = fresh
      BY <2>1
    <3>3. ASSUME NEW d \in Closers, gpc'[d] = "closeOld"
          PROVE  gpc[d] = "closeOld" /\ old'[d] = old[d]
      BY Zenon, <2>1, <3>1, <3>3
    <3> QED
      BY ONLY <3>1, <3>2, <3>3 DEF OldOwned, Free
  <2>5. OwnershipInv'
    BY <2>1, <2>3, <2>4 DEF Ownership, OwnershipInv
  <2>6. NoLeak'
    <3>1. NoLeak /\ \A d \in Closers : gpc[d] = "closeOld" => d # c
      BY <2>1 DEF Ownership
    <3> QED
      BY ONLY <2>1, <3>1 DEF NoLeak
  <2> QED
    BY <2>2, <2>5, <2>6 DEF Ownership
<1>5. ASSUME NEW c \in Closers, StartReload(c) \/ CompileFails(c)
      PROVE  Ownership'
  <2>1. /\ UNCHANGED <<built, state, cpc, current, fresh, old>>
        /\ gpc'[c] # "closeOld" /\ gpc[c] # "closeOld" /\ gpc[c] # "closing" /\ gpc'[c] # "swap" /\ gpc[c] # "swap"
        /\ \A d \in Closers : d # c => gpc'[d] = gpc[d]
    BY <1>5 DEF StartReload, CompileFails, snapshotVars
  <2>2. CurrentIsOpen' /\ CloseUncontended'
    BY <2>1 DEF Ownership, CurrentIsOpen, CloseUncontended
  <2>3. FreshOwned'
    BY <2>1 DEF Ownership, OwnershipInv, FreshOwned, Free
  <2>4. OldOwned'
    BY <2>1 DEF Ownership, OwnershipInv, OldOwned, Free
  <2>5. OwnershipInv'
    BY <2>1, <2>3, <2>4 DEF Ownership, OwnershipInv
  <2>6. NoLeak'
    BY <2>1 DEF Ownership, NoLeak
  <2> HIDE DEF GTypeOK, TypeOK, Pointers
  <2> QED
    BY <2>2, <2>5, <2>6 DEF Ownership
<1>6. ASSUME NEW c \in Reloaders, NEW s \in Snapshots, CompileSucceeds(c, s)
      PROVE  Ownership'
  <2>1. state[s] = "open" /\ fresh[c] = None
    BY <1>6 DEF CompileSucceeds, newRuntimeSnapshot, Ownership, OwnershipInv, FreshOwned, OldOwned
  <2>2. /\ s \notin built /\ built' = built \cup {s} /\ UNCHANGED <<state, cpc, current, old>>
        /\ gpc' = [gpc EXCEPT ![c] = "swap"]
        /\ fresh' = [fresh EXCEPT ![c] = s]
    BY <1>6 DEF CompileSucceeds, newRuntimeSnapshot
  <2>3. CurrentIsOpen'
    BY <2>2 DEF Ownership, CurrentIsOpen
  <2>4. OwnershipInv'
    BY <1>6, <2>1, <2>2 DEF CompileSucceeds, Ownership, OwnershipInv, FreshOwned, OldOwned, Free, CurrentIsOpen
  <2>5. NoLeak'
    BY <1>6, <2>1, <2>2 DEF CompileSucceeds, Ownership, NoLeak
  <2>6. CloseUncontended'
    BY <2>2 DEF Ownership, CloseUncontended
  <2> QED
    BY <2>3, <2>4, <2>5, <2>6 DEF Ownership
<1>7. ASSUME NEW c \in Reloaders, SwapFresh(c)
      PROVE  Ownership'
  <2>1. fresh[c] # None /\ Free(fresh[c]) /\ fresh[c] # current
    BY <1>7 DEF SwapFresh, Ownership, OwnershipInv, FreshOwned, OldOwned
  <2>2. /\ UNCHANGED <<built, state, cpc>> /\ gpc[c] = "swap"
        /\ current' = fresh[c]
        /\ fresh' = [fresh EXCEPT ![c] = None]
        /\ old' = [old EXCEPT ![c] = current]
        /\ gpc' = [gpc EXCEPT ![c] = IF current = None THEN "idle" ELSE "closeOld"]
    BY <1>7 DEF SwapFresh, snapshotVars
  <2>3. CurrentIsOpen'
    BY <2>1, <2>2 DEF CurrentIsOpen, Free
  <2>4. OwnershipInv'
    <3>0. /\ \A d \in Closers : d # c => fresh'[d] = fresh[d] /\ gpc'[d] = gpc[d] /\ old'[d] = old[d]
          /\ fresh'[c] = None /\ old'[c] = current /\ gpc'[c] \in {"idle", "closeOld"}
          /\ gpc'[c] = "closeOld" => current # None
      BY <2>2
    <3>1. FreshOwned'
      <4>1. FreshOwned /\ c \in Closers /\ built' = built /\ state' = state /\ current' = fresh[c]
        BY <2>2 DEF Ownership, OwnershipInv
      <4>2. \A d \in Closers : fresh'[d] # None => d # c
        BY <3>0
      <4> SUFFICES ASSUME NEW d \in Closers, fresh'[d] # None
                   PROVE  /\ d \in Reloaders /\ gpc'[d] = "swap" /\ Free(fresh[d])'
                          /\ fresh'[d] # current'
                          /\ \A e \in Closers : fresh'[e] = fresh'[d] => e = d
        BY Zenon DEF FreshOwned
      <4>3. d # c /\ fresh'[d] = fresh[d] /\ gpc'[d] = gpc[d]
        BY Zenon, <3>0, <4>2
      <4>4. /\ d \in Reloaders /\ gpc[d] = "swap" /\ Free(fresh[d])
            /\ \A e \in Closers : fresh[e] = fresh[d] => e = d
        BY Zenon, <4>1, <4>3 DEF FreshOwned
      <4>5. Free(fresh[d])'
        BY Zenon, <4>1, <4>3, <4>4 DEF Free
      <4>6. fresh'[d] # current'
        BY Zenon, <4>1, <4>3, <4>4
      <4>7. \A e \in Closers : fresh'[e] = fresh'[d] => e = d
        BY Zenon, <3>0, <4>3, <4>4
      <4> QED
        BY Zenon, <4>3, <4>4, <4>5, <4>6, <4>7
    <3>2. OldOwned'
      BY <2>1, <2>2 DEF Ownership, OwnershipInv, FreshOwned, OldOwned, Free, CurrentIsOpen
    <3>3. \A d \in Reloaders : gpc'[d] = "swap" => fresh'[d] # None
      <4>1. \A d \in Reloaders : d \in Closers /\ (gpc[d] = "swap" => fresh[d] # None)
        BY Zenon, ReloadersAssumption DEF Ownership, OwnershipInv
      <4> QED
        BY ONLY <3>0, <4>1
    <3>4. \A d \in Closers : gpc'[d] # "closing" => cpc'[d] = "idle"
      BY <2>2, <3>0 DEF Ownership, OwnershipInv
    <3>5. \A s \in Snapshots \ built' : state'[s] = "open"
      BY <2>2 DEF Ownership, OwnershipInv
    <3> QED
      BY Zenon, <3>1, <3>2, <3>3, <3>4, <3>5 DEF OwnershipInv
  <2>5. NoLeak'
    BY <2>1, <2>2 DEF Ownership, NoLeak
  <2>6. CloseUncontended'
    BY <2>2 DEF Ownership, CloseUncontended
  <2> HIDE DEF GTypeOK, TypeOK, Pointers
  <2> QED
    BY <2>3, <2>4, <2>5, <2>6 DEF Ownership
<1>8. ASSUME NEW c \in Stoppers, ServerStopped(c)
      PROVE  Ownership'
  <2>1. /\ UNCHANGED <<built, state, cpc, current, fresh, old>>
        /\ gpc'[c] # "closeOld" /\ gpc[c] # "closeOld" /\ gpc[c] # "closing" /\ c \notin Reloaders
        /\ \A d \in Closers : d # c => gpc'[d] = gpc[d]
    BY <1>8 DEF ServerStopped, Stoppers, snapshotVars
  <2>2. CurrentIsOpen' /\ CloseUncontended'
    BY <2>1 DEF Ownership, CurrentIsOpen, CloseUncontended
  <2>3. FreshOwned'
    BY <2>1 DEF Ownership, OwnershipInv, FreshOwned, Free
  <2>4. OldOwned'
    BY <2>1 DEF Ownership, OwnershipInv, OldOwned, Free
  <2>5. OwnershipInv'
    <3>1. \A d \in Reloaders : gpc'[d] = "swap" => fresh'[d] # None
      <4>1. \A d \in Reloaders : d \in Closers /\ (gpc[d] = "swap" => fresh[d] # None)
        BY Zenon, ReloadersAssumption DEF Ownership, OwnershipInv
      <4> QED
        BY ONLY <2>1, <4>1
    <3>2. \A d \in Closers : gpc'[d] # "closing" => cpc'[d] = "idle"
      BY <2>1 DEF Ownership, OwnershipInv
    <3>3. \A s \in Snapshots \ built' : state'[s] = "open"
      BY <2>1 DEF Ownership, OwnershipInv
    <3> QED
      BY Zenon, <2>3, <2>4, <3>1, <3>2, <3>3 DEF OwnershipInv
  <2>6. NoLeak'
    <3>1. NoLeak
      BY DEF Ownership
    <3>2. \A d \in Closers : gpc[d] = "closeOld" => gpc'[d] = "closeOld"
      BY Zenon, <2>1
    <3> QED
      BY ONLY <2>1, <3>1, <3>2 DEF NoLeak
  <2> HIDE DEF GTypeOK, TypeOK, Pointers
  <2> QED
    BY <2>2, <2>5, <2>6 DEF Ownership
<1>9. ASSUME NEW c \in Stoppers, SwapNil(c)
      PROVE  Ownership'
  <2>1. c \in Closers /\ c \notin Reloaders /\ fresh[c] = None
    BY <1>9 DEF Stoppers, Ownership, OwnershipInv, FreshOwned, OldOwned
  <2>2. /\ UNCHANGED <<built, state, cpc, fresh>> /\ gpc[c] = "swap"
        /\ current' = None
        /\ old' = [old EXCEPT ![c] = current]
        /\ gpc' = [gpc EXCEPT ![c] = IF current = None THEN "stopped" ELSE "closeOld"]
    BY <1>9 DEF SwapNil, snapshotVars
  <2>3. CurrentIsOpen'
    BY <2>2 DEF CurrentIsOpen
  <2>4. OwnershipInv'
    BY <2>1, <2>2 DEF Ownership, OwnershipInv, FreshOwned, OldOwned, Free, CurrentIsOpen
  <2>5. NoLeak'
    BY <2>1, <2>2 DEF Ownership, NoLeak
  <2>6. CloseUncontended'
    BY <2>2 DEF Ownership, CloseUncontended
  <2> QED
    BY <2>3, <2>4, <2>5, <2>6 DEF Ownership
<1>10. CASE UNCHANGED vars
  BY <1>1, <1>10 DEF vars, ownership
<1> QED
  BY <1>1, <1>2, <1>3, <1>4, <1>5, <1>6, <1>7, <1>8, <1>9, <1>10, ServeFrame
     DEF GNext, ReloadStep, StopStep, CloseStep, Stoppers

\* The inductive invariant of the gateway holds in every reachable state.
THEOREM GatewayInvariant == GSpec => []GatewayInv
<1>1. GInit => GatewayInv
  <2> SUFFICES ASSUME GInit PROVE GatewayInv
    OBVIOUS
  <2>1. SnapshotInv
    BY InitInv DEF GInit
  <2>2. GTypeOK
    BY <2>1 DEF SnapshotInv, GInit, GTypeOK, Pointers, Phases, GatewayLabels
  <2>3. CurrentIsOpen /\ CloseUncontended
    BY DEF GInit, Init, CurrentIsOpen, CloseUncontended
  <2>4. OwnershipInv
    BY ReloadersAssumption DEF GInit, Init, OwnershipInv, FreshOwned, OldOwned
  <2>5. NoLeak
    BY DEF GInit, NoLeak
  <2> QED
    BY <2>1, <2>2, <2>3, <2>4, <2>5 DEF GatewayInv
<1>2. GatewayInv /\ [GNext]_vars => GatewayInv'
  <2> SUFFICES ASSUME GatewayInv, [GNext]_vars PROVE GatewayInv'
    OBVIOUS
  <2>1. SnapshotInv'
    BY StepRefines, InvStep DEF GatewayInv
  <2>2. GTypeOK'
    BY <2>1, GTypeStep DEF GatewayInv, SnapshotInv
  <2>3. Ownership'
    BY OwnershipStep DEF GatewayInv, Ownership
  <2> QED
    BY <2>1, <2>2, <2>3 DEF GatewayInv, Ownership
<1> QED
  BY <1>1, <1>2, PTL DEF GSpec

\* ServeHTTP only ever loads a snapshot that no one has begun to close.
THEOREM CurrentStaysOpen == GSpec => []CurrentIsOpen
<1>1. GatewayInv => CurrentIsOpen
  BY DEF GatewayInv
<1> QED
  BY <1>1, GatewayInvariant, PTL

\* Whatever the interleaving of any number of Reload and ShutdownContext calls,
\* no open snapshot is lost and no two of them meet in the Close of one snapshot.
THEOREM OwnerIsUnique == GSpec => []OneOwner
<1>1. GatewayInv => OneOwner
  BY DEF GatewayInv, OneOwner
<1> QED
  BY <1>1, GatewayInvariant, PTL

-----------------------------------------------------------------------------
(***************************************************************************)
(* The gateway implements SnapshotRegister.                                *)
(***************************************************************************)

\* The life of every snapshot and the stage of every request, as the register
\* sees them.
lifeMap == [s \in Snapshots |-> Life(s)]
stageMap == [r \in Requests |-> Stage(r)]

\* A step of ServeHTTP is a step of one request of the register, or none.
LEMMA ServeImplements ==
  ASSUME GatewayInv, LoadedInv, NEW r \in Requests, Arrive(r) \/ ServeStep(r)
  PROVE  [Register!Next]_(Register!registerVars)
<1> USE NoneAssumption
<1> USE DEF GatewayInv, GTypeOK, TypeOK, Pointers, Phases, Stage, stageMap, lifeMap
<1>1. lifeMap' = lifeMap /\ current' = current
  BY ServeFrame DEF ownership, Life
<1>2. CASE Arrive(r)
  <2>1. Register!Arrive(r)
    BY Zenon, <1>1, <1>2 DEF Arrive, Register!Arrive
  <2> QED
    BY <2>1 DEF Register!Next
<1>3. CASE LoadSnapshot(r)
  <2>1. Register!Choose(r)
    BY Zenon, <1>1, <1>3 DEF LoadSnapshot, Register!Choose
  <2> QED
    BY <2>1 DEF Register!Next
<1>4. CASE TryAcquire(r) \/ CountAcquire(r) \/ Release(r)
  <2>1. stageMap' = stageMap /\ loaded' = loaded
    BY <1>4 DEF TryAcquire, CountAcquire, Release, gatewayVars
  <2> QED
    BY <1>1, <2>1 DEF Register!registerVars
<1>5. CASE ConfirmAcquire(r)
  <2>1. held[r] = loaded[r] /\ loaded[r] \in built /\ loaded[r] \in Snapshots
    BY <1>5 DEF ConfirmAcquire, AcquireRecheck, LoadedInv
  <2>2. CASE state[held[r]] = "open"
    <3>1. Life(loaded[r]) \in {"installed", "retired"}
      BY <2>1, <2>2 DEF Life, LoadedInv
    <3>2. stageMap' = [stageMap EXCEPT ![r] = "serving"] /\ stageMap[r] = "choosing"
      BY Zenon, <1>5, <2>2 DEF ConfirmAcquire, AcquireRecheck, At
    <3>3. Register!Begin(r)
      BY <1>1, <1>5, <2>1, <3>1, <3>2 DEF ConfirmAcquire, Register!Begin
    <3> QED
      BY <3>3 DEF Register!Next
  <2>3. CASE state[held[r]] # "open"
    <3>1. stageMap' = stageMap /\ loaded' = loaded
      BY <1>5, <2>3 DEF ConfirmAcquire, AcquireRecheck, At
    <3> QED
      BY <1>1, <3>1 DEF Register!registerVars
  <2> QED
    BY <2>2, <2>3
<1>6. CASE Serve(r)
  <2>1. Register!End(r)
    BY Zenon, <1>1, <1>6 DEF Serve, Register!End
  <2> QED
    BY <2>1 DEF Register!Next
<1>7. CASE Finish(r)
  <2>1. Register!Leave(r)
    BY Zenon, <1>1, <1>7 DEF Finish, Register!Leave
  <2> QED
    BY <2>1 DEF Register!Next
<1> QED
  BY <1>2, <1>3, <1>4, <1>5, <1>6, <1>7 DEF ServeStep

\* Compiling, swapping and closing are the steps of a snapshot of the register.
LEMMA OwnerImplements ==
  ASSUME GatewayInv, NEW c \in Closers,
         \/ StartReload(c) \/ CompileFails(c) \/ ServerStopped(c) \/ CloseStep(c)
         \/ c \in Reloaders /\ (SwapFresh(c) \/ \E s \in Snapshots : CompileSucceeds(c, s))
         \/ c \notin Reloaders /\ SwapNil(c)
  PROVE  [Register!Next]_(Register!registerVars)
<1> USE NoneAssumption, ReloadersAssumption
<1> USE DEF GatewayInv, GTypeOK, TypeOK, Pointers, stageMap, lifeMap
<1>1. stageMap' = stageMap /\ loaded' = loaded
  <2>1. UNCHANGED <<phase, loaded>>
    <3> HIDE DEF GatewayInv, GTypeOK, TypeOK, Pointers, stageMap, lifeMap
    <3>1. CASE StartReload(c) \/ CompileFails(c) \/ ServerStopped(c)
      BY Zenon, <3>1 DEF StartReload, CompileFails, ServerStopped
    <3>2. CASE CloseStep(c)
      BY Zenon, <3>2 DEF CloseStep, CallClose, CloseProgress, CloseReturned, gatewayVars
    <3>3. CASE SwapFresh(c) \/ SwapNil(c)
      BY Zenon, <3>3 DEF SwapFresh, SwapNil
    <3>4. ASSUME NEW s \in Snapshots, CompileSucceeds(c, s)
          PROVE  UNCHANGED <<phase, loaded>>
      BY Zenon, <3>4 DEF CompileSucceeds
    <3> QED
      BY Zenon, <3>1, <3>2, <3>3, <3>4
  <2> HIDE DEF GatewayInv
  <2> QED
    BY <2>1 DEF Stage
<1>2. CASE StartReload(c) \/ CompileFails(c) \/ ServerStopped(c) \/ CloseReturned(c)
  <2>1. UNCHANGED <<state, built, fresh, current>>
    BY Zenon, <1>2 DEF StartReload, CompileFails, ServerStopped, CloseReturned, snapshotVars, fields
  <2>2. lifeMap' = lifeMap /\ current' = current
    BY Zenon, <2>1 DEF Life
  <2> QED
    BY <1>1, <2>2 DEF Register!registerVars
<1>3. ASSUME NEW s \in Snapshots, c \in Reloaders, CompileSucceeds(c, s)
      PROVE  Register!Next
  <2>1. state[s] = "open" /\ s \notin built /\ fresh[c] = None
    BY <1>3 DEF CompileSucceeds, newRuntimeSnapshot, OwnershipInv, FreshOwned
  <2>2. /\ built' = built \cup {s} /\ fresh' = [fresh EXCEPT ![c] = s]
        /\ UNCHANGED <<state, current>>
    BY <1>3 DEF CompileSucceeds, newRuntimeSnapshot
  <2>3. s # current
    BY <2>1 DEF CurrentIsOpen
  <2>4. lifeMap' = [lifeMap EXCEPT ![s] = "fresh"]
    BY Zenon, <2>1, <2>2, <2>3 DEF Life
  <2>5. Register!Build(s)
    BY <1>1, <2>1, <2>2, <2>4 DEF Register!Build, Life
  <2> QED
    BY <2>5 DEF Register!Next
<1>4. CASE c \in Reloaders /\ SwapFresh(c)
  <2> DEFINE s == fresh[c]
  <2>1. /\ s # None /\ s \in Snapshots /\ Free(s) /\ s # current
        /\ \A d \in Closers : fresh[d] = s => d = c
    BY <1>4 DEF SwapFresh, OwnershipInv, FreshOwned
  <2>2. /\ UNCHANGED <<built, state>> /\ current' = s
        /\ fresh' = [fresh EXCEPT ![c] = None]
    BY <1>4 DEF SwapFresh, snapshotVars, fields
  <2>3. \A d \in Closers : fresh[d] # current \/ current = None
    BY DEF OwnershipInv, FreshOwned
  <2>4. lifeMap' = [Register!Retired EXCEPT ![s] = "installed"]
    <3>1. ASSUME NEW t \in Snapshots, t = s
          PROVE  Life(t)' = "installed"
      BY <2>1, <2>2, <3>1 DEF Life, Free
    <3>2. ASSUME NEW t \in Snapshots, t # s
          PROVE  Life(t)' = IF t = current THEN "retired" ELSE Life(t)
      BY <2>1, <2>2, <2>3, <3>2 DEF Life, CurrentIsOpen
    <3> QED
      BY Zenon, <2>1, <3>1, <3>2 DEF Register!Retired
  <2>5. Life(s) = "fresh"
    BY <2>1 DEF Life, Free
  <2>6. Register!Install(s)
    BY <1>1, <2>1, <2>2, <2>4, <2>5 DEF Register!Install
  <2> QED
    BY <2>1, <2>6 DEF Register!Next
<1>5. CASE c \notin Reloaders /\ SwapNil(c)
  <2>1. UNCHANGED <<built, state, fresh>> /\ current' = None
    BY <1>5 DEF SwapNil, snapshotVars, fields
  <2>2. \A d \in Closers : fresh[d] # current \/ current = None
    BY DEF OwnershipInv, FreshOwned
  <2>3. lifeMap' = Register!Retired
    BY <2>1, <2>2 DEF Register!Retired, Life, CurrentIsOpen
  <2>4. Register!Remove
    BY <1>1, <2>1, <2>3 DEF Register!Remove
  <2> QED
    BY <2>4 DEF Register!Next
<1>6. CASE CallClose(c)
  <2> DEFINE s == old[c]
  <2>1. /\ s \in Snapshots /\ s \in built /\ state[s] = "open" /\ s # current
        /\ \A d \in Closers : fresh[d] # s
    BY <1>6 DEF CallClose, OwnershipInv, OldOwned, Free
  <2>2. /\ state' = [state EXCEPT ![s] = "closing"]
        /\ UNCHANGED <<built, current, fresh>>
    BY <1>6, <2>1 DEF CallClose, CloseCAS
  <2>3. lifeMap' = [lifeMap EXCEPT ![s] = "closing"]
    BY Zenon, <2>1, <2>2 DEF Life
  <2>4. Register!BeginClose(s)
    BY <1>1, <2>1, <2>2, <2>3 DEF Register!BeginClose, Life
  <2> QED
    BY <2>1, <2>4 DEF Register!Next
<1>7. CASE CloseProgress(c)
  <2>1. UNCHANGED <<current, fresh>>
    BY <1>7 DEF CloseProgress, gatewayVars
  <2>2. CASE CloseStoreClosed(c)
    <3> DEFINE s == target[c]
    <3>1. s \in Snapshots /\ s \in built /\ state[s] = "closing"
      BY Zenon, <2>2 DEF CloseStoreClosed, SnapshotInv, OnBuilt, OwnerInv, Owns
    <3>2. state' = [state EXCEPT ![s] = "closed"] /\ UNCHANGED built
      BY <2>2 DEF CloseStoreClosed
    <3>3. lifeMap' = [lifeMap EXCEPT ![s] = "closed"]
      BY Zenon, <2>1, <3>1, <3>2 DEF Life
    <3>4. Register!EndClose(s)
      BY Zenon, <1>1, <2>1, <3>1, <3>3 DEF Register!EndClose, Life
    <3> QED
      BY <3>1, <3>4 DEF Register!Next
  <2>3. CASE ~CloseStoreClosed(c)
    <3>1. UNCHANGED <<built, state>>
      BY Zenon, <1>7, <2>3 DEF CloseProgress, CloserStep, CloseDrainLoad, CloserSignalCAS,
         CloserSignalClose, CloseAwaitDrain, CloseResources, CloseClosedCh,
         CloseAwaitClosed, fields
    <3>2. lifeMap' = lifeMap
      BY <2>1, <3>1 DEF Life
    <3> QED
      BY <1>1, <2>1, <3>2 DEF Register!registerVars
  <2> QED
    BY <2>2, <2>3
<1> QED
  BY <1>2, <1>3, <1>4, <1>5, <1>6, <1>7 DEF CloseStep

\* The gateway implements the register, whatever the numbers of requests, reloads,
\* shutdowns and snapshots.
THEOREM GatewayImplementsRegister == GSpec => ImplementsRegister
<1>1. GInit => Register!Init
  <2> SUFFICES ASSUME GInit PROVE Register!Init
    OBVIOUS
  <2>1. current \in Snapshots /\ built = {current} /\ state = [s \in Snapshots |-> "open"]
    BY DEF GInit, Init
  <2>2. \A c \in Closers : fresh[c] = None
    BY DEF GInit
  <2>3. lifeMap = [s \in Snapshots |-> IF s = current THEN "installed" ELSE "unbuilt"]
    BY <2>1 DEF lifeMap, Life
  <2>4. stageMap = [r \in Requests |-> "idle"]
    BY DEF stageMap, Stage, GInit
  <2> QED
    BY <2>1, <2>3, <2>4 DEF Register!Init, GInit, lifeMap, stageMap
<1>2. GInit => LoadedInv
  BY NoneAssumption DEF GInit, Init, LoadedInv
<1>3. GatewayInv /\ LoadedInv /\ [GNext]_vars => LoadedInv'
  BY LoadedStep
<1>4. GatewayInv /\ LoadedInv /\ [GNext]_vars => [Register!Next]_(Register!registerVars)
  <2> SUFFICES ASSUME GatewayInv, LoadedInv, [GNext]_vars
               PROVE  [Register!Next]_(Register!registerVars)
    OBVIOUS
  <2>1. CASE UNCHANGED vars
    BY Zenon, <2>1 DEF vars, Register!registerVars, Life, Stage
  <2>2. CASE GNext
    BY <2>2, ServeImplements, OwnerImplements, ReloadersAssumption
       DEF GNext, ReloadStep, StopStep, Stoppers
  <2> QED
    BY <2>1, <2>2
<1> QED
  BY <1>1, <1>2, <1>3, <1>4, GatewayInvariant, PTL DEF GSpec, ImplementsRegister, Register!Spec

=============================================================================
