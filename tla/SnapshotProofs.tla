----------------------------- MODULE SnapshotProofs ----------------------------
(***************************************************************************)
(* Proofs about RuntimeSnapshot and DrainHistory, for any finite set of    *)
(* requests and any sets of goroutines that close and of snapshots: the    *)
(* snapshot protocol by itself and what its drains have seen.              *)
(***************************************************************************)
EXTENDS DrainHistory, FiniteSetTheorems, TLAPS

USE DEF fields, requestVars, closerVars, At, Return, CAt, CReturn

\* Every step of acquire(), release() and Close() preserves the types, and a
\* goroutine inside one of them keeps working on an allocated snapshot.
LEMMA TypeStep ==
  ASSUME TypeOK, OnBuilt, [Next]_snapshotVars
  PROVE  TypeOK' /\ OnBuilt'
<1> USE NoneAssumption DEF TypeOK, OnBuilt, RequestLabels, CloserLabels
<1>1. ASSUME NEW s \in Snapshots, newRuntimeSnapshot(s)
      PROVE  TypeOK' /\ OnBuilt'
  BY <1>1 DEF newRuntimeSnapshot
<1>2. ASSUME NEW r \in Requests, NEW s \in Snapshots, AcquireLoad(r, s)
      PROVE  TypeOK' /\ OnBuilt'
  BY <1>2 DEF AcquireLoad
<1>3. ASSUME NEW r \in Requests, AcquireAdd(r)
      PROVE  TypeOK' /\ OnBuilt'
  BY <1>3 DEF AcquireAdd
<1>4. ASSUME NEW r \in Requests, AcquireRecheck(r)
      PROVE  TypeOK' /\ OnBuilt'
  BY <1>4 DEF AcquireRecheck
<1>5. ASSUME NEW r \in Requests, ReleaseAdd(r)
      PROVE  TypeOK' /\ OnBuilt'
  BY <1>5 DEF ReleaseAdd
<1>6. ASSUME NEW r \in Requests, ReleaseLoad(r)
      PROVE  TypeOK' /\ OnBuilt'
  BY <1>6 DEF ReleaseLoad
<1>7. ASSUME NEW r \in Requests, SignalCAS(r)
      PROVE  TypeOK' /\ OnBuilt'
  BY <1>7 DEF SignalCAS
<1>8. ASSUME NEW r \in Requests, SignalClose(r)
      PROVE  TypeOK' /\ OnBuilt'
  BY <1>8 DEF SignalClose
<1>9. ASSUME NEW c \in Closers, NEW s \in Snapshots, CloseCAS(c, s)
      PROVE  TypeOK' /\ OnBuilt'
  BY <1>9 DEF CloseCAS
<1>10. ASSUME NEW c \in Closers, CloseDrainLoad(c)
      PROVE  TypeOK' /\ OnBuilt'
  BY <1>10 DEF CloseDrainLoad
<1>11. ASSUME NEW c \in Closers, CloserSignalCAS(c)
      PROVE  TypeOK' /\ OnBuilt'
  BY <1>11 DEF CloserSignalCAS
<1>12. ASSUME NEW c \in Closers, CloserSignalClose(c)
      PROVE  TypeOK' /\ OnBuilt'
  BY <1>12 DEF CloserSignalClose
<1>13. ASSUME NEW c \in Closers, CloseAwaitDrain(c)
      PROVE  TypeOK' /\ OnBuilt'
  BY <1>13 DEF CloseAwaitDrain
<1>14. ASSUME NEW c \in Closers, CloseResources(c)
      PROVE  TypeOK' /\ OnBuilt'
  BY <1>14 DEF CloseResources
<1>15. ASSUME NEW c \in Closers, CloseStoreClosed(c)
      PROVE  TypeOK' /\ OnBuilt'
  BY <1>15 DEF CloseStoreClosed
<1>16. ASSUME NEW c \in Closers, CloseClosedCh(c)
      PROVE  TypeOK' /\ OnBuilt'
  BY <1>16 DEF CloseClosedCh
<1>17. ASSUME NEW c \in Closers, CloseAwaitClosed(c)
      PROVE  TypeOK' /\ OnBuilt'
  BY <1>17 DEF CloseAwaitClosed
<1>18. CASE UNCHANGED snapshotVars
  BY <1>18 DEF snapshotVars
<1> QED
  BY Zenon, <1>1, <1>2, <1>3, <1>4, <1>5, <1>6, <1>7, <1>8, <1>9,
     <1>10, <1>11, <1>12, <1>13, <1>14, <1>15, <1>16, <1>17, <1>18 DEF Next, RequestStep, CloserStep

\* The requests counted on a snapshot are finitely many.
LEMMA CountedFinite == \A s \in Snapshots : IsFiniteSet(Counted(s))
  BY RequestsAssumption, FS_Subset DEF Counted

\* The count stays exact: acquire() adds the request it increments for, release()
\* removes the one it decrements for, and no other step changes either side.
LEMMA CountStep ==
  ASSUME TypeOK, OnBuilt, InFlightExact, [Next]_snapshotVars
  PROVE  InFlightExact'
<1> DEFINE Same == \A t \in Snapshots : Counted(t)' = Counted(t) /\ inFlight'[t] = inFlight[t]
<1>0. Same => InFlightExact'
  BY DEF InFlightExact
<1>1. ASSUME NEW s \in Snapshots, newRuntimeSnapshot(s)
      PROVE  InFlightExact'
  BY <1>1, <1>0, NoneAssumption DEF newRuntimeSnapshot, TypeOK, OnBuilt, Counted
<1>2. ASSUME NEW r \in Requests, NEW s \in Snapshots, AcquireLoad(r, s)
      PROVE  InFlightExact'
  BY <1>2, <1>0, NoneAssumption DEF AcquireLoad, TypeOK, OnBuilt, Counted
<1>3. ASSUME NEW r \in Requests, AcquireAdd(r)
      PROVE  InFlightExact'
  <2>1. held[r] \in Snapshots /\ r \notin Counted(held[r])
    BY <1>3 DEF AcquireAdd, TypeOK, OnBuilt, Counted
  <2>2. \A t \in Snapshots : Counted(t)' = IF t = held[r] THEN Counted(t) \cup {r} ELSE Counted(t)
    BY <1>3 DEF AcquireAdd, TypeOK, Counted
  <2>3. \A t \in Snapshots : inFlight'[t] = IF t = held[r] THEN inFlight[t] + 1 ELSE inFlight[t]
    BY <1>3 DEF AcquireAdd, TypeOK
  <2>4. Cardinality(Counted(held[r]) \cup {r}) = Cardinality(Counted(held[r])) + 1
    BY Zenon, <2>1, CountedFinite, FS_AddElement
  <2> QED
    BY <2>1, <2>2, <2>3, <2>4 DEF InFlightExact
<1>4. ASSUME NEW r \in Requests, AcquireRecheck(r)
      PROVE  InFlightExact'
  BY <1>4, <1>0, NoneAssumption DEF AcquireRecheck, TypeOK, OnBuilt, Counted
<1>5. ASSUME NEW r \in Requests, ReleaseAdd(r)
      PROVE  InFlightExact'
  <2>1. held[r] \in Snapshots /\ r \in Counted(held[r])
    BY <1>5 DEF ReleaseAdd, TypeOK, OnBuilt, Counted
  <2>2. \A t \in Snapshots : Counted(t)' = IF t = held[r] THEN Counted(t) \ {r} ELSE Counted(t)
    BY <1>5, NoneAssumption DEF ReleaseAdd, TypeOK, Counted
  <2>3. \A t \in Snapshots : inFlight'[t] = IF t = held[r] THEN inFlight[t] - 1 ELSE inFlight[t]
    BY <1>5 DEF ReleaseAdd, TypeOK
  <2>4. Cardinality(Counted(held[r]) \ {r}) = Cardinality(Counted(held[r])) - 1
    BY Zenon, <2>1, CountedFinite, FS_RemoveElement
  <2> QED
    BY <2>1, <2>2, <2>3, <2>4 DEF InFlightExact
<1>6. ASSUME NEW r \in Requests, ReleaseLoad(r)
      PROVE  InFlightExact'
  BY <1>6, <1>0, NoneAssumption DEF ReleaseLoad, TypeOK, OnBuilt, Counted
<1>7. ASSUME NEW r \in Requests, SignalCAS(r)
      PROVE  InFlightExact'
  BY <1>7, <1>0, NoneAssumption DEF SignalCAS, TypeOK, OnBuilt, Counted
<1>8. ASSUME NEW r \in Requests, SignalClose(r)
      PROVE  InFlightExact'
  BY <1>8, <1>0, NoneAssumption DEF SignalClose, TypeOK, OnBuilt, Counted
<1>9. ASSUME NEW c \in Closers, NEW s \in Snapshots, CloseCAS(c, s)
      PROVE  InFlightExact'
  BY <1>9, <1>0, NoneAssumption DEF CloseCAS, TypeOK, OnBuilt, Counted
<1>10. ASSUME NEW c \in Closers, CloseDrainLoad(c)
      PROVE  InFlightExact'
  BY <1>10, <1>0, NoneAssumption DEF CloseDrainLoad, TypeOK, OnBuilt, Counted
<1>11. ASSUME NEW c \in Closers, CloserSignalCAS(c)
      PROVE  InFlightExact'
  BY <1>11, <1>0, NoneAssumption DEF CloserSignalCAS, TypeOK, OnBuilt, Counted
<1>12. ASSUME NEW c \in Closers, CloserSignalClose(c)
      PROVE  InFlightExact'
  BY <1>12, <1>0, NoneAssumption DEF CloserSignalClose, TypeOK, OnBuilt, Counted
<1>13. ASSUME NEW c \in Closers, CloseAwaitDrain(c)
      PROVE  InFlightExact'
  BY <1>13, <1>0, NoneAssumption DEF CloseAwaitDrain, TypeOK, OnBuilt, Counted
<1>14. ASSUME NEW c \in Closers, CloseResources(c)
      PROVE  InFlightExact'
  BY <1>14, <1>0, NoneAssumption DEF CloseResources, TypeOK, OnBuilt, Counted
<1>15. ASSUME NEW c \in Closers, CloseStoreClosed(c)
      PROVE  InFlightExact'
  BY <1>15, <1>0, NoneAssumption DEF CloseStoreClosed, TypeOK, OnBuilt, Counted
<1>16. ASSUME NEW c \in Closers, CloseClosedCh(c)
      PROVE  InFlightExact'
  BY <1>16, <1>0, NoneAssumption DEF CloseClosedCh, TypeOK, OnBuilt, Counted
<1>17. ASSUME NEW c \in Closers, CloseAwaitClosed(c)
      PROVE  InFlightExact'
  BY <1>17, <1>0, NoneAssumption DEF CloseAwaitClosed, TypeOK, OnBuilt, Counted
<1>18. CASE UNCHANGED snapshotVars
  BY <1>18, <1>0 DEF snapshotVars, Counted
<1> QED
  BY <1>1, <1>2, <1>3, <1>4, <1>5, <1>6, <1>7, <1>8, <1>9,
     <1>10, <1>11, <1>12, <1>13, <1>14, <1>15, <1>16, <1>17, <1>18 DEF Next, RequestStep, CloserStep

\* One goroutine at a time owns the closing of a snapshot, and the state says
\* how far it is: only the CAS from open to closing makes an owner.
LEMMA OwnerStep ==
  ASSUME TypeOK, OnBuilt, OwnerInv, [Next]_snapshotVars
  PROVE  OwnerInv'
<1> USE NoneAssumption DEF TypeOK, OnBuilt, OwnerInv, Owns
<1>1. ASSUME NEW s \in Snapshots, newRuntimeSnapshot(s)
      PROVE  OwnerInv'
  BY <1>1 DEF newRuntimeSnapshot
<1>2. ASSUME NEW r \in Requests, NEW s \in Snapshots, AcquireLoad(r, s)
      PROVE  OwnerInv'
  BY <1>2 DEF AcquireLoad
<1>3. ASSUME NEW r \in Requests, AcquireAdd(r)
      PROVE  OwnerInv'
  BY <1>3 DEF AcquireAdd
<1>4. ASSUME NEW r \in Requests, AcquireRecheck(r)
      PROVE  OwnerInv'
  BY <1>4 DEF AcquireRecheck
<1>5. ASSUME NEW r \in Requests, ReleaseAdd(r)
      PROVE  OwnerInv'
  BY <1>5 DEF ReleaseAdd
<1>6. ASSUME NEW r \in Requests, ReleaseLoad(r)
      PROVE  OwnerInv'
  BY <1>6 DEF ReleaseLoad
<1>7. ASSUME NEW r \in Requests, SignalCAS(r)
      PROVE  OwnerInv'
  BY <1>7 DEF SignalCAS
<1>8. ASSUME NEW r \in Requests, SignalClose(r)
      PROVE  OwnerInv'
  BY <1>8 DEF SignalClose
<1>9. ASSUME NEW c \in Closers, NEW s \in Snapshots, CloseCAS(c, s)
      PROVE  OwnerInv'
  BY <1>9 DEF CloseCAS
<1>10. ASSUME NEW c \in Closers, CloseDrainLoad(c)
      PROVE  OwnerInv'
  BY <1>10 DEF CloseDrainLoad
<1>11. ASSUME NEW c \in Closers, CloserSignalCAS(c)
      PROVE  OwnerInv'
  BY <1>11 DEF CloserSignalCAS
<1>12. ASSUME NEW c \in Closers, CloserSignalClose(c)
      PROVE  OwnerInv'
  BY <1>12 DEF CloserSignalClose
<1>13. ASSUME NEW c \in Closers, CloseAwaitDrain(c)
      PROVE  OwnerInv'
  BY <1>13 DEF CloseAwaitDrain
<1>14. ASSUME NEW c \in Closers, CloseResources(c)
      PROVE  OwnerInv'
  BY <1>14 DEF CloseResources
<1>15. ASSUME NEW c \in Closers, CloseStoreClosed(c)
      PROVE  OwnerInv'
  BY <1>15 DEF CloseStoreClosed
<1>16. ASSUME NEW c \in Closers, CloseClosedCh(c)
      PROVE  OwnerInv'
  BY <1>16 DEF CloseClosedCh
<1>17. ASSUME NEW c \in Closers, CloseAwaitClosed(c)
      PROVE  OwnerInv'
  BY <1>17 DEF CloseAwaitClosed
<1>18. CASE UNCHANGED snapshotVars
  BY <1>18 DEF snapshotVars
<1> QED
  BY Zenon, <1>1, <1>2, <1>3, <1>4, <1>5, <1>6, <1>7, <1>8, <1>9,
     <1>10, <1>11, <1>12, <1>13, <1>14, <1>15, <1>16, <1>17, <1>18 DEF Next, RequestStep, CloserStep

\* Each one-shot effect of Close() happens once, in the order drain signal,
\* closers, closed state, closedCh.
LEMMA OnceStep ==
  ASSUME TypeOK, OnBuilt, OwnerInv, SignalInv, OnceInv, [Next]_snapshotVars
  PROVE  OnceInv'
<1> USE NoneAssumption DEF TypeOK, OnBuilt, OwnerInv, Owns, OnceInv, SignalInv, SignalOnce, Signals, CSignals
<1>1. ASSUME NEW s \in Snapshots, newRuntimeSnapshot(s)
      PROVE  OnceInv'
  BY <1>1 DEF newRuntimeSnapshot
<1>2. ASSUME NEW r \in Requests, NEW s \in Snapshots, AcquireLoad(r, s)
      PROVE  OnceInv'
  BY <1>2 DEF AcquireLoad
<1>3. ASSUME NEW r \in Requests, AcquireAdd(r)
      PROVE  OnceInv'
  BY <1>3 DEF AcquireAdd
<1>4. ASSUME NEW r \in Requests, AcquireRecheck(r)
      PROVE  OnceInv'
  BY <1>4 DEF AcquireRecheck
<1>5. ASSUME NEW r \in Requests, ReleaseAdd(r)
      PROVE  OnceInv'
  BY <1>5 DEF ReleaseAdd
<1>6. ASSUME NEW r \in Requests, ReleaseLoad(r)
      PROVE  OnceInv'
  BY <1>6 DEF ReleaseLoad
<1>7. ASSUME NEW r \in Requests, SignalCAS(r)
      PROVE  OnceInv'
  BY <1>7 DEF SignalCAS
<1>8. ASSUME NEW r \in Requests, SignalClose(r)
      PROVE  OnceInv'
  BY <1>8 DEF SignalClose
<1>9. ASSUME NEW c \in Closers, NEW s \in Snapshots, CloseCAS(c, s)
      PROVE  OnceInv'
  BY <1>9 DEF CloseCAS
<1>10. ASSUME NEW c \in Closers, CloseDrainLoad(c)
      PROVE  OnceInv'
  BY <1>10 DEF CloseDrainLoad
<1>11. ASSUME NEW c \in Closers, CloserSignalCAS(c)
      PROVE  OnceInv'
  BY <1>11 DEF CloserSignalCAS
<1>12. ASSUME NEW c \in Closers, CloserSignalClose(c)
      PROVE  OnceInv'
  BY <1>12 DEF CloserSignalClose
<1>13. ASSUME NEW c \in Closers, CloseAwaitDrain(c)
      PROVE  OnceInv'
  BY <1>13 DEF CloseAwaitDrain
<1>14. ASSUME NEW c \in Closers, CloseResources(c)
      PROVE  OnceInv'
  BY <1>14 DEF CloseResources
<1>15. ASSUME NEW c \in Closers, CloseStoreClosed(c)
      PROVE  OnceInv'
  BY <1>15 DEF CloseStoreClosed
<1>16. ASSUME NEW c \in Closers, CloseClosedCh(c)
      PROVE  OnceInv'
  BY <1>16 DEF CloseClosedCh
<1>17. ASSUME NEW c \in Closers, CloseAwaitClosed(c)
      PROVE  OnceInv'
  BY <1>17 DEF CloseAwaitClosed
<1>18. CASE UNCHANGED snapshotVars
  BY <1>18 DEF snapshotVars
<1> QED
  BY Zenon, <1>1, <1>2, <1>3, <1>4, <1>5, <1>6, <1>7, <1>8, <1>9,
     <1>10, <1>11, <1>12, <1>13, <1>14, <1>15, <1>16, <1>17, <1>18 DEF Next, RequestStep, CloserStep

\* drainedCh is closed by the one goroutine that won the CAS on drainSignaled.
LEMMA SignalStep ==
  ASSUME TypeOK, OnBuilt, OwnerInv, OnceInv, SignalInv, [Next]_snapshotVars
  PROVE  SignalInv'
<1> DEFINE Quiet ==
             /\ \A q \in Requests, t \in Snapshots : Signals(q, t)' <=> Signals(q, t)
             /\ \A d \in Closers, t \in Snapshots : CSignals(d, t)' <=> CSignals(d, t)
             /\ UNCHANGED <<drainSignaled, drainedCh>>
           Shut == \A q \in Requests :
                     pc'[q] \in {"sigCAS", "sigClose"} => state'[held'[q]] # "open"
<1>0. Quiet /\ Shut => SignalInv'
  BY DEF SignalInv, SignalOnce
<1>1. ASSUME NEW s \in Snapshots, newRuntimeSnapshot(s)
      PROVE  SignalInv'
  <2>1. Quiet
    BY <1>1, NoneAssumption DEF newRuntimeSnapshot, TypeOK, OnBuilt, Signals, CSignals
  <2>2. Shut
    BY <1>1 DEF newRuntimeSnapshot, TypeOK, OnBuilt, SignalInv, OwnerInv, Owns
  <2> QED
    BY <2>1, <2>2, <1>0
<1>2. ASSUME NEW r \in Requests, NEW s \in Snapshots, AcquireLoad(r, s)
      PROVE  SignalInv'
  <2>1. Quiet
    BY <1>2, NoneAssumption DEF AcquireLoad, TypeOK, OnBuilt, Signals, CSignals
  <2>2. Shut
    BY <1>2 DEF AcquireLoad, TypeOK, OnBuilt, SignalInv, OwnerInv, Owns
  <2> QED
    BY <2>1, <2>2, <1>0
<1>3. ASSUME NEW r \in Requests, AcquireAdd(r)
      PROVE  SignalInv'
  <2>1. Quiet
    BY <1>3, NoneAssumption DEF AcquireAdd, TypeOK, OnBuilt, Signals, CSignals
  <2>2. Shut
    BY <1>3 DEF AcquireAdd, TypeOK, OnBuilt, SignalInv, OwnerInv, Owns
  <2> QED
    BY <2>1, <2>2, <1>0
<1>4. ASSUME NEW r \in Requests, AcquireRecheck(r)
      PROVE  SignalInv'
  <2>1. Quiet
    BY <1>4, NoneAssumption DEF AcquireRecheck, TypeOK, OnBuilt, Signals, CSignals
  <2>2. Shut
    BY <1>4 DEF AcquireRecheck, TypeOK, OnBuilt, SignalInv, OwnerInv, Owns
  <2> QED
    BY <2>1, <2>2, <1>0
<1>5. ASSUME NEW r \in Requests, ReleaseAdd(r)
      PROVE  SignalInv'
  <2>1. Quiet
    BY <1>5, NoneAssumption DEF ReleaseAdd, TypeOK, OnBuilt, Signals, CSignals
  <2>2. Shut
    BY <1>5 DEF ReleaseAdd, TypeOK, OnBuilt, SignalInv, OwnerInv, Owns
  <2> QED
    BY <2>1, <2>2, <1>0
<1>6. ASSUME NEW r \in Requests, ReleaseLoad(r)
      PROVE  SignalInv'
  <2>1. Quiet
    BY <1>6, NoneAssumption DEF ReleaseLoad, TypeOK, OnBuilt, Signals, CSignals
  <2>2. Shut
    BY <1>6 DEF ReleaseLoad, TypeOK, OnBuilt, SignalInv, OwnerInv, Owns
  <2> QED
    BY <2>1, <2>2, <1>0
<1>7. ASSUME NEW r \in Requests, SignalCAS(r)
      PROVE  SignalInv'
  <2>1. held[r] \in Snapshots /\ state[held[r]] # "open"
    BY <1>7 DEF SignalCAS, TypeOK, OnBuilt, SignalInv
  <2>2. CASE drainSignaled[held[r]]
    <3>1. drainSignaled' = drainSignaled
      BY <2>1, <2>2, <1>7 DEF SignalCAS, TypeOK
    <3>2. Quiet
      BY <2>2, <3>1, <1>7, NoneAssumption DEF SignalCAS, TypeOK, OnBuilt, Signals, CSignals
    <3>3. Shut
      BY <2>2, <1>7 DEF SignalCAS, TypeOK, OnBuilt, SignalInv
    <3> QED
      BY <3>2, <3>3, <1>0
  <2>3. CASE ~drainSignaled[held[r]]
    <3>1. \A q \in Requests, t \in Snapshots :
            Signals(q, t)' <=> Signals(q, t) \/ (q = r /\ t = held[r])
      BY <2>1, <2>3, <1>7 DEF SignalCAS, TypeOK, Signals
    <3>2. \A d \in Closers, t \in Snapshots : CSignals(d, t)' <=> CSignals(d, t)
      BY <1>7 DEF SignalCAS, CSignals
    <3>3. /\ drainedCh' = drainedCh
          /\ \A t \in Snapshots : drainSignaled'[t] = (t = held[r] \/ drainSignaled[t])
      BY Zenon, <2>1, <1>7 DEF SignalCAS, TypeOK
    <3>4. Shut
      BY <2>1, <1>7 DEF SignalCAS, TypeOK, OnBuilt, SignalInv
    <3>5. drainedCh[held[r]] = 0
      BY <2>1, <2>3 DEF SignalInv, SignalOnce
    <3>6. ASSUME NEW t \in Snapshots, t # held[r]
          PROVE  SignalOnce(t)'
      BY Zenon, <3>1, <3>2, <3>3, <3>6 DEF SignalInv, SignalOnce
    <3>7. ASSUME NEW t \in Snapshots, t = held[r]
          PROVE  SignalOnce(t)'
      <4>1. /\ \A q \in Requests : ~Signals(q, t)
            /\ \A d \in Closers : ~CSignals(d, t)
        BY <2>3, <3>7 DEF SignalInv, SignalOnce
      <4> QED
        BY Zenon, <3>7, <3>1, <3>2, <3>3, <3>5, <4>1 DEF SignalOnce
    <3> QED
      BY <3>4, <3>6, <3>7 DEF SignalInv
  <2> QED
    BY <2>2, <2>3
<1>8. ASSUME NEW r \in Requests, SignalClose(r)
      PROVE  SignalInv'
  BY <1>8, NoneAssumption DEF SignalClose, TypeOK, OnBuilt, OwnerInv, Owns, SignalInv, SignalOnce, Signals, CSignals
<1>9. ASSUME NEW c \in Closers, NEW s \in Snapshots, CloseCAS(c, s)
      PROVE  SignalInv'
  <2>1. Quiet
    BY <1>9, NoneAssumption DEF CloseCAS, TypeOK, OnBuilt, Signals, CSignals
  <2>2. Shut
    BY <1>9 DEF CloseCAS, TypeOK, OnBuilt, SignalInv, OwnerInv, Owns
  <2> QED
    BY <2>1, <2>2, <1>0
<1>10. ASSUME NEW c \in Closers, CloseDrainLoad(c)
      PROVE  SignalInv'
  <2>1. Quiet
    BY <1>10, NoneAssumption DEF CloseDrainLoad, TypeOK, OnBuilt, Signals, CSignals
  <2>2. Shut
    BY <1>10 DEF CloseDrainLoad, TypeOK, OnBuilt, SignalInv, OwnerInv, Owns
  <2> QED
    BY <2>1, <2>2, <1>0
<1>11. ASSUME NEW c \in Closers, CloserSignalCAS(c)
      PROVE  SignalInv'
  <2>1. target[c] \in Snapshots /\ Owns(c, target[c])
    BY <1>11 DEF CloserSignalCAS, TypeOK, OnBuilt, Owns
  <2>2. Shut
    BY <1>11 DEF CloserSignalCAS, TypeOK, OnBuilt, SignalInv
  <2>3. CASE drainSignaled[target[c]]
    <3>1. drainSignaled' = drainSignaled
      BY <2>1, <2>3, <1>11 DEF CloserSignalCAS, TypeOK
    <3>2. Quiet
      BY <2>3, <3>1, <1>11 DEF CloserSignalCAS, TypeOK, OnBuilt, Signals, CSignals
    <3> QED
      BY <3>2, <2>2, <1>0
  <2>4. CASE ~drainSignaled[target[c]]
    <3>1. \A q \in Requests, t \in Snapshots : Signals(q, t)' <=> Signals(q, t)
      BY <1>11 DEF CloserSignalCAS, Signals
    <3>2. \A d \in Closers, t \in Snapshots :
            CSignals(d, t)' <=> CSignals(d, t) \/ (d = c /\ t = target[c])
      BY <2>1, <2>4, <1>11 DEF CloserSignalCAS, TypeOK, CSignals
    <3>3. /\ drainedCh' = drainedCh
          /\ \A t \in Snapshots : drainSignaled'[t] = (t = target[c] \/ drainSignaled[t])
      BY Zenon, <2>1, <1>11 DEF CloserSignalCAS, TypeOK
    <3>4. drainedCh[target[c]] = 0
      BY <2>1, <2>4 DEF SignalInv, SignalOnce
    <3>5. ASSUME NEW t \in Snapshots, t # target[c]
          PROVE  SignalOnce(t)'
      BY Zenon, <3>1, <3>2, <3>3, <3>5 DEF SignalInv, SignalOnce
    <3>6. ASSUME NEW t \in Snapshots, t = target[c]
          PROVE  SignalOnce(t)'
      <4>1. /\ \A q \in Requests : ~Signals(q, t)
            /\ \A d \in Closers : ~CSignals(d, t)
        BY <2>4, <3>6 DEF SignalInv, SignalOnce
      <4> QED
        BY Zenon, <3>6, <3>1, <3>2, <3>3, <3>4, <4>1 DEF SignalOnce
    <3> QED
      BY <2>2, <3>5, <3>6 DEF SignalInv
  <2> QED
    BY <2>3, <2>4
<1>12. ASSUME NEW c \in Closers, CloserSignalClose(c)
      PROVE  SignalInv'
  BY <1>12, NoneAssumption DEF CloserSignalClose, TypeOK, OnBuilt, OwnerInv, Owns, SignalInv, SignalOnce, Signals, CSignals
<1>13. ASSUME NEW c \in Closers, CloseAwaitDrain(c)
      PROVE  SignalInv'
  <2>1. Quiet
    BY <1>13, NoneAssumption DEF CloseAwaitDrain, TypeOK, OnBuilt, Signals, CSignals
  <2>2. Shut
    BY <1>13 DEF CloseAwaitDrain, TypeOK, OnBuilt, SignalInv, OwnerInv, Owns
  <2> QED
    BY <2>1, <2>2, <1>0
<1>14. ASSUME NEW c \in Closers, CloseResources(c)
      PROVE  SignalInv'
  <2>1. Quiet
    BY <1>14, NoneAssumption DEF CloseResources, TypeOK, OnBuilt, Signals, CSignals
  <2>2. Shut
    BY <1>14 DEF CloseResources, TypeOK, OnBuilt, SignalInv, OwnerInv, Owns
  <2> QED
    BY <2>1, <2>2, <1>0
<1>15. ASSUME NEW c \in Closers, CloseStoreClosed(c)
      PROVE  SignalInv'
  <2>1. Quiet
    BY <1>15, NoneAssumption DEF CloseStoreClosed, TypeOK, OnBuilt, Signals, CSignals
  <2>2. Shut
    BY <1>15 DEF CloseStoreClosed, TypeOK, OnBuilt, SignalInv, OwnerInv, Owns
  <2> QED
    BY <2>1, <2>2, <1>0
<1>16. ASSUME NEW c \in Closers, CloseClosedCh(c)
      PROVE  SignalInv'
  <2>1. Quiet
    BY <1>16, NoneAssumption DEF CloseClosedCh, TypeOK, OnBuilt, Signals, CSignals
  <2>2. Shut
    BY <1>16 DEF CloseClosedCh, TypeOK, OnBuilt, SignalInv, OwnerInv, Owns
  <2> QED
    BY <2>1, <2>2, <1>0
<1>17. ASSUME NEW c \in Closers, CloseAwaitClosed(c)
      PROVE  SignalInv'
  <2>1. Quiet
    BY <1>17, NoneAssumption DEF CloseAwaitClosed, TypeOK, OnBuilt, Signals, CSignals
  <2>2. Shut
    BY <1>17 DEF CloseAwaitClosed, TypeOK, OnBuilt, SignalInv, OwnerInv, Owns
  <2> QED
    BY <2>1, <2>2, <1>0
<1>18. CASE UNCHANGED snapshotVars
  BY <1>18 DEF snapshotVars, SignalInv, SignalOnce, Signals, CSignals
<1> QED
  BY <1>1, <1>2, <1>3, <1>4, <1>5, <1>6, <1>7, <1>8, <1>9,
     <1>10, <1>11, <1>12, <1>13, <1>14, <1>15, <1>16, <1>17, <1>18 DEF Next, RequestStep, CloserStep

\* A closing snapshot that is not signalled always has a goroutine that will
\* look at the drain condition after the last decrement.
LEMMA WakeStep ==
  ASSUME TypeOK, OnBuilt, InFlightExact, OwnerInv, OnceInv, WakeInv, [Next]_snapshotVars
  PROVE  WakeInv'
<1>0. \A s \in Snapshots : inFlight[s] \in Nat
  BY CountedFinite, FS_CardinalityType DEF InFlightExact
<1> USE NoneAssumption DEF TypeOK, OnBuilt, OwnerInv, Owns, OnceInv, WakeInv
<1>1. ASSUME NEW s \in Snapshots, newRuntimeSnapshot(s)
      PROVE  WakeInv'
  BY <1>1 DEF newRuntimeSnapshot
<1>2. ASSUME NEW r \in Requests, NEW s \in Snapshots, AcquireLoad(r, s)
      PROVE  WakeInv'
  BY <1>2 DEF AcquireLoad
<1>3. ASSUME NEW r \in Requests, AcquireAdd(r)
      PROVE  WakeInv'
  BY <1>3, <1>0 DEF AcquireAdd
<1>4. ASSUME NEW r \in Requests, AcquireRecheck(r)
      PROVE  WakeInv'
  BY <1>4 DEF AcquireRecheck
<1>5. ASSUME NEW r \in Requests, ReleaseAdd(r)
      PROVE  WakeInv'
  <2>1. pc[r] \in {"using", "undo"} /\ held[r] \in Snapshots
    BY <1>5 DEF ReleaseAdd
  <2>2. \A q \in Requests : q # r => pc'[q] = pc[q] /\ held'[q] = held[q]
    BY <1>5 DEF ReleaseAdd
  <2>3. \A s \in Snapshots : s # held[r] => inFlight'[s] = inFlight[s]
    BY <1>5 DEF ReleaseAdd
  <2>4. inFlight'[held[r]] # 0 \/ (held'[r] = held[r] /\ pc'[r] = "relLoad")
    BY <1>5 DEF ReleaseAdd
  <2>5. UNCHANGED <<state, drainSignaled, cpc, target>>
    BY <1>5 DEF ReleaseAdd
  <2> HIDE DEF TypeOK, OnBuilt, OwnerInv, OnceInv
  <2> SUFFICES ASSUME NEW t \in Snapshots, state'[t] = "closing", ~drainSignaled'[t]
               PROVE  \/ inFlight'[t] # 0
                      \/ \E q \in Requests : held'[q] = t /\ pc'[q] \in {"relLoad", "sigCAS"}
                      \/ \E c \in Closers : target'[c] = t /\ cpc'[c] \in {"drainLoad", "sigCAS"}
    OBVIOUS
  <2>6. CASE t = held[r]
    BY <2>4, <2>6
  <2>7. CASE t # held[r]
    <3>1. \/ inFlight[t] # 0
          \/ \E q \in Requests : held[q] = t /\ pc[q] \in {"relLoad", "sigCAS"}
          \/ \E c \in Closers : target[c] = t /\ cpc[c] \in {"drainLoad", "sigCAS"}
      BY <2>5
    <3>2. CASE inFlight[t] # 0
      BY <2>3, <2>7, <3>2
    <3>3. ASSUME NEW q \in Requests, held[q] = t, pc[q] \in {"relLoad", "sigCAS"}
          PROVE  held'[q] = t /\ pc'[q] \in {"relLoad", "sigCAS"}
      BY <2>2, <2>7, <3>3
    <3>4. ASSUME NEW c \in Closers, target[c] = t, cpc[c] \in {"drainLoad", "sigCAS"}
          PROVE  target'[c] = t /\ cpc'[c] \in {"drainLoad", "sigCAS"}
      BY <2>5, <3>4
    <3> HIDE DEF WakeInv
    <3> QED
      BY <3>1, <3>2, <3>3, <3>4
  <2> QED
    BY <2>6, <2>7
<1>6. ASSUME NEW r \in Requests, ReleaseLoad(r)
      PROVE  WakeInv'
  BY <1>6 DEF ReleaseLoad
<1>7. ASSUME NEW r \in Requests, SignalCAS(r)
      PROVE  WakeInv'
  <2>1. \A q \in Requests : q # r => held'[q] = held[q] /\ pc'[q] = pc[q]
    BY <1>7 DEF SignalCAS, Return, At
  <2>2. UNCHANGED <<state, inFlight, target, cpc>>
    BY <1>7 DEF SignalCAS, closerVars
  <2>3. \A t \in Snapshots : ~drainSignaled'[t] => ~drainSignaled[t] /\ t # held[r]
    BY <1>7 DEF SignalCAS
  <2> HIDE DEF TypeOK, OnBuilt, OwnerInv, OnceInv
  <2> QED
    BY <2>1, <2>2, <2>3
<1>8. ASSUME NEW r \in Requests, SignalClose(r)
      PROVE  WakeInv'
  BY <1>8 DEF SignalClose
<1>9. ASSUME NEW c \in Closers, NEW s \in Snapshots, CloseCAS(c, s)
      PROVE  WakeInv'
  <2>1. \A t \in Snapshots : t # s => state'[t] = state[t]
    BY <1>9 DEF CloseCAS
  <2>2. \A d \in Closers : d # c => cpc'[d] = cpc[d] /\ target'[d] = target[d]
    BY <1>9 DEF CloseCAS
  <2>3. target'[c] = s /\ cpc[c] = "idle" /\ cpc'[c] \in {"drainLoad", "waitClosed"}
    BY <1>9 DEF CloseCAS
  <2>4. CASE state[s] = "open"
    <3>1. cpc'[c] = "drainLoad"
      BY <2>4, <1>9 DEF CloseCAS
    <3> QED
      BY <2>1, <2>2, <2>3, <3>1, <1>9 DEF CloseCAS
  <2>5. CASE state[s] # "open"
    <3>1. UNCHANGED <<fields, requestVars>>
      BY <2>5, <1>9 DEF CloseCAS
    <3> HIDE DEF TypeOK, OnBuilt, OwnerInv, OnceInv
    <3>2. ASSUME NEW d \in Closers, cpc[d] \in {"drainLoad", "sigCAS"}
          PROVE  target'[d] = target[d] /\ cpc'[d] = cpc[d]
      BY <2>2, <2>3, <3>2
    <3>3. state' = state /\ drainSignaled' = drainSignaled /\ inFlight' = inFlight /\ held' = held /\ pc' = pc
      BY Zenon, <3>1 DEF fields, requestVars
    <3> SUFFICES ASSUME NEW t \in Snapshots, state[t] = "closing", ~drainSignaled[t]
                 PROVE  \/ inFlight[t] # 0
                        \/ \E q \in Requests : held[q] = t /\ pc[q] \in {"relLoad", "sigCAS"}
                        \/ \E d \in Closers : target'[d] = t /\ cpc'[d] \in {"drainLoad", "sigCAS"}
      BY Zenon, <3>3
    <3>4. \/ inFlight[t] # 0
          \/ \E q \in Requests : held[q] = t /\ pc[q] \in {"relLoad", "sigCAS"}
          \/ \E d \in Closers : target[d] = t /\ cpc[d] \in {"drainLoad", "sigCAS"}
      BY Zenon
    <3>5. ASSUME NEW d \in Closers, target[d] = t, cpc[d] \in {"drainLoad", "sigCAS"}
          PROVE  target'[d] = t /\ cpc'[d] \in {"drainLoad", "sigCAS"}
      BY <3>2, <3>5
    <3> HIDE DEF WakeInv
    <3> QED
      BY Zenon, <3>4, <3>5
  <2> QED
    BY <2>4, <2>5
<1>10. ASSUME NEW c \in Closers, CloseDrainLoad(c)
      PROVE  WakeInv'
  BY <1>10 DEF CloseDrainLoad
<1>11. ASSUME NEW c \in Closers, CloserSignalCAS(c)
      PROVE  WakeInv'
  BY <1>11 DEF CloserSignalCAS
<1>12. ASSUME NEW c \in Closers, CloserSignalClose(c)
      PROVE  WakeInv'
  BY <1>12 DEF CloserSignalClose
<1>13. ASSUME NEW c \in Closers, CloseAwaitDrain(c)
      PROVE  WakeInv'
  BY <1>13 DEF CloseAwaitDrain
<1>14. ASSUME NEW c \in Closers, CloseResources(c)
      PROVE  WakeInv'
  <2>1. \A d \in Closers : cpc[d] \in {"drainLoad", "sigCAS"} => cpc'[d] = cpc[d]
    BY <1>14 DEF CloseResources
  <2>2. UNCHANGED <<state, inFlight, drainSignaled, pc, held, target>>
    BY <1>14 DEF CloseResources
  <2> HIDE DEF TypeOK, OnBuilt, OwnerInv, OnceInv
  <2> QED
    BY <2>1, <2>2
<1>15. ASSUME NEW c \in Closers, CloseStoreClosed(c)
      PROVE  WakeInv'
  <2>1. \A d \in Closers : cpc[d] \in {"drainLoad", "sigCAS"} => cpc'[d] = cpc[d]
    BY <1>15 DEF CloseStoreClosed
  <2>2. UNCHANGED <<inFlight, drainSignaled, pc, held, target>>
    BY <1>15 DEF CloseStoreClosed
  <2>3. \A t \in Snapshots : state'[t] = "closing" => state[t] = "closing"
    BY <1>15 DEF CloseStoreClosed
  <2> HIDE DEF TypeOK, OnBuilt, OwnerInv, OnceInv
  <2> QED
    BY <2>1, <2>2, <2>3
<1>16. ASSUME NEW c \in Closers, CloseClosedCh(c)
      PROVE  WakeInv'
  BY <1>16 DEF CloseClosedCh
<1>17. ASSUME NEW c \in Closers, CloseAwaitClosed(c)
      PROVE  WakeInv'
  BY <1>17 DEF CloseAwaitClosed
<1>18. CASE UNCHANGED snapshotVars
  BY <1>18 DEF snapshotVars
<1> QED
  BY Zenon, <1>1, <1>2, <1>3, <1>4, <1>5, <1>6, <1>7, <1>8, <1>9,
     <1>10, <1>11, <1>12, <1>13, <1>14, <1>15, <1>16, <1>17, <1>18 DEF Next, RequestStep, CloserStep

-----------------------------------------------------------------------------
\* No goroutine is inside the protocol and no counter has moved at the start.
LEMMA InitInv == Init => SnapshotInv
<1> SUFFICES ASSUME Init PROVE SnapshotInv
  OBVIOUS
<1>1. TypeOK /\ OnBuilt
  BY DEF Init, TypeOK, OnBuilt, RequestLabels, CloserLabels
<1>2. \A s \in Snapshots : Counted(s) = {}
  BY DEF Init, Counted
<1>3. InFlightExact
  BY <1>2, FS_EmptySet DEF Init, InFlightExact
<1>4. OwnerInv /\ OnceInv
  BY DEF Init, OwnerInv, OnceInv, Owns
<1>5. SignalInv /\ WakeInv
  BY DEF Init, SignalInv, SignalOnce, Signals, CSignals, WakeInv
<1> QED
  BY <1>1, <1>3, <1>4, <1>5 DEF SnapshotInv

\* Every step of the protocol preserves the inductive invariant.
LEMMA InvStep == SnapshotInv /\ [Next]_snapshotVars => SnapshotInv'
  BY TypeStep, CountStep, OwnerStep, OnceStep, SignalStep, WakeStep DEF SnapshotInv

\* SnapshotInv holds in every reachable state of acquire(), release() and
\* Close(), for any numbers of requests, closers and snapshots.
THEOREM SnapshotInvariant == Spec => []SnapshotInv
<1>1. Init => SnapshotInv
  BY InitInv
<1>2. SnapshotInv /\ [Next]_snapshotVars => SnapshotInv'
  BY InvStep
<1> QED
  BY <1>1, <1>2, PTL DEF Spec

\* The fields and the program counters keep their types.
THEOREM TypeCorrect == Spec => []TypeOK
<1>1. SnapshotInv => TypeOK
  BY DEF SnapshotInv
<1> QED
  BY <1>1, SnapshotInvariant, PTL

\* inFlight is the number of requests between acquire's increment and release's
\* decrement.
THEOREM InFlightIsExact == Spec => []InFlightExact
<1>1. SnapshotInv => InFlightExact
  BY DEF SnapshotInv
<1> QED
  BY <1>1, SnapshotInvariant, PTL

\* Three one-shot effects of which each happens only after the one before it.
LEMMA OneAfterTheOther ==
  ASSUME NEW i \in {0, 1}, NEW j \in Nat, NEW k \in Nat,
         j <= 1, k <= 1, j = 1 => i = 1, k = 1 => j = 1
  PROVE  i <= 1 /\ k <= 1 /\ j <= 1 /\ j <= i /\ k <= j
OBVIOUS

\* No channel of a snapshot is closed twice and its closers run at most once,
\* after the drain signal and before closedCh.
THEOREM ClosesOnce == Spec => []CloseOnce
<1>1. SnapshotInv => CloseOnce
  <2> SUFFICES ASSUME SnapshotInv, NEW s \in Snapshots
               PROVE  /\ drainedCh[s] <= 1 /\ closedCh[s] <= 1 /\ closersRun[s] <= 1
                      /\ closersRun[s] <= drainedCh[s] /\ closedCh[s] <= closersRun[s]
    BY DEF CloseOnce
  <2>1. drainedCh[s] \in {0, 1}
    BY DEF SnapshotInv, SignalInv, SignalOnce
  <2>2. closersRun[s] \in Nat /\ closedCh[s] \in Nat
    BY DEF SnapshotInv, TypeOK
  <2>3. closersRun[s] <= 1 /\ closedCh[s] <= 1 /\ (closersRun[s] = 1 => drainedCh[s] = 1)
    BY DEF SnapshotInv, OnceInv
  <2>4. closedCh[s] = 1 => closersRun[s] = 1
    BY DEF SnapshotInv, OnceInv
  <2> QED
    BY <2>1, <2>2, <2>3, <2>4, OneAfterTheOther, Zenon
<1> QED
  BY <1>1, SnapshotInvariant, PTL

\* The two places that look at the drain condition, Close after its CAS and
\* release after its decrement, cannot both miss: no wakeup is lost.
THEOREM WakeupNotLost == Spec => []NoLostWakeup
<1>1. SnapshotInv => NoLostWakeup
  <2> SUFFICES ASSUME SnapshotInv, NEW s \in Snapshots,
                      state[s] = "closing", drainedCh[s] = 0
               PROVE  Wakers(s) # {}
    BY DEF NoLostWakeup
  <2>1. CASE drainSignaled[s]
    <3>1. \/ \E r \in Requests : Signals(r, s)
          \/ \E c \in Closers : CSignals(c, s)
      BY <2>1 DEF SnapshotInv, SignalInv, SignalOnce
    <3> QED
      BY <3>1 DEF Signals, CSignals, Wakers
  <2>2. CASE ~drainSignaled[s] /\ inFlight[s] # 0
    <3>1. Counted(s) # {}
      BY <2>2, FS_EmptySet DEF SnapshotInv, InFlightExact
    <3> QED
      BY <3>1 DEF Wakers
  <2>3. CASE ~drainSignaled[s] /\ inFlight[s] = 0
    BY <2>3 DEF SnapshotInv, WakeInv, Wakers
  <2> QED
    BY <2>1, <2>2, <2>3
<1> QED
  BY <1>1, SnapshotInvariant, PTL

\* No step makes a request a user of a snapshot that is no longer open: acquire()
\* loads the state once more after its increment.
LEMMA UsersStep ==
  TypeOK /\ Next => \A s \in Snapshots : state[s] # "open" => Users(s)' \subseteq Users(s)
<1> SUFFICES ASSUME TypeOK, Next, NEW s \in Snapshots, state[s] # "open",
                    NEW q \in Requests, q \in Users(s)'
             PROVE  q \in Users(s)
  BY DEF Users
<1>1. pc'[q] = "using" /\ held'[q] = s
  BY DEF Users
<1>2. ASSUME NEW r \in Requests, RequestStep(r)
      PROVE  pc[q] = "using" /\ held[q] = s
  BY <1>1, <1>2 DEF RequestStep, AcquireAdd, AcquireRecheck, ReleaseAdd, ReleaseLoad,
     SignalCAS, SignalClose, TypeOK
<1>3. ASSUME NEW r \in Requests, NEW t \in Snapshots, AcquireLoad(r, t)
      PROVE  pc[q] = "using" /\ held[q] = s
  BY <1>1, <1>3 DEF AcquireLoad, TypeOK
<1>4. ASSUME NEW c \in Closers, CloserStep(c)
      PROVE  pc[q] = "using" /\ held[q] = s
  BY <1>1, <1>4 DEF CloserStep, CloseDrainLoad, CloserSignalCAS, CloserSignalClose,
     CloseAwaitDrain, CloseResources, CloseStoreClosed, CloseClosedCh, CloseAwaitClosed
<1>5. ASSUME NEW c \in Closers, NEW t \in Snapshots, CloseCAS(c, t)
      PROVE  pc[q] = "using" /\ held[q] = s
  BY <1>1, <1>5 DEF CloseCAS
<1>6. ASSUME NEW t \in Snapshots, newRuntimeSnapshot(t)
      PROVE  pc[q] = "using" /\ held[q] = s
  BY <1>1, <1>6 DEF newRuntimeSnapshot
<1> QED
  BY <1>2, <1>3, <1>4, <1>5, <1>6 DEF Next, Users

\* The users of a snapshot that is no longer open only leave.
THEOREM UsersOnlyShrink == Spec => DrainOnlyShrinks
<1>1. TypeOK /\ [Next]_snapshotVars
        => [\A s \in Snapshots : state[s] # "open" => Users(s)' \subseteq Users(s)]_snapshotVars
  BY UsersStep
<1> QED
  BY <1>1, TypeCorrect, PTL DEF Spec, DrainOnlyShrinks

\* A Close() that lost the CAS returns only when the winner has run the closers.
THEOREM LosersWait == Spec => LoserSeesClosed
<1>1. SnapshotInv /\ [Next]_snapshotVars
        => [\A c \in Closers :
              cpc[c] = "waitClosed" /\ cpc'[c] = "idle"
                => state[target[c]] = "closed" /\ closersRun[target[c]] = 1]_snapshotVars
  <2> SUFFICES ASSUME SnapshotInv, Next, NEW c \in Closers,
                      cpc[c] = "waitClosed", cpc'[c] = "idle"
               PROVE  state[target[c]] = "closed" /\ closersRun[target[c]] = 1
    OBVIOUS
  <2>1. target[c] \in Snapshots
    BY DEF SnapshotInv, OnBuilt, TypeOK
  <2>2. closedCh[target[c]] > 0
    <3>1. ASSUME NEW d \in Closers, CloserStep(d)
          PROVE  closedCh[target[c]] > 0
      BY <3>1 DEF CloserStep, CloseDrainLoad, CloserSignalCAS, CloserSignalClose,
         CloseAwaitDrain, CloseResources, CloseStoreClosed, CloseClosedCh, CloseAwaitClosed,
         SnapshotInv, TypeOK
    <3>2. ASSUME NEW d \in Closers, NEW t \in Snapshots, CloseCAS(d, t)
          PROVE  FALSE
      BY <3>2 DEF CloseCAS, SnapshotInv, TypeOK
    <3>3. ASSUME cpc' = cpc
          PROVE  FALSE
      BY <3>3
    <3>4. ASSUME NEW r \in Requests, RequestStep(r)
          PROVE  FALSE
      BY Zenon, <3>3, <3>4 DEF RequestStep, AcquireAdd, AcquireRecheck, ReleaseAdd, ReleaseLoad,
         SignalCAS, SignalClose
    <3> QED
      BY <3>1, <3>2, <3>3, <3>4 DEF Next, AcquireLoad, newRuntimeSnapshot
  <2>3. closedCh[target[c]] # 0
    BY <2>1, <2>2 DEF SnapshotInv, TypeOK
  <2> QED
    BY <2>1, <2>3 DEF SnapshotInv, OnceInv
<1> QED
  BY <1>1, SnapshotInvariant, PTL DEF Spec, LoserSeesClosed

-----------------------------------------------------------------------------
(***************************************************************************)
(* A release() overtaken by Close() is the only way in which the closers   *)
(* of a snapshot run while a request uses it.                              *)
(***************************************************************************)

\* A step that makes the drain of a closing snapshot seen for the first time has
\* read, or produced, a zero count.
LEMMA FirstSeen ==
  ASSUME SnapshotInv, Next, NEW s \in Snapshots,
         state[s] # "open", ~DrainSeen(s), DrainSeen(s)'
  PROVE  inFlight'[s] = 0
<1> USE DEF DrainSeen
<1>1. ASSUME NEW t \in Snapshots, newRuntimeSnapshot(t)
      PROVE  FALSE
  BY <1>1 DEF newRuntimeSnapshot
<1>2. ASSUME NEW r \in Requests, NEW t \in Snapshots, AcquireLoad(r, t)
      PROVE  FALSE
  BY <1>2 DEF AcquireLoad, SnapshotInv, TypeOK
<1>3. ASSUME NEW r \in Requests, AcquireAdd(r) \/ AcquireRecheck(r)
      PROVE  FALSE
  BY <1>3 DEF AcquireAdd, AcquireRecheck, SnapshotInv, TypeOK
<1>4. ASSUME NEW r \in Requests, ReleaseAdd(r)
      PROVE  inFlight'[s] = 0
  BY <1>4, NoneAssumption DEF ReleaseAdd, SnapshotInv, TypeOK
<1>5. ASSUME NEW r \in Requests, ReleaseLoad(r) \/ SignalClose(r)
      PROVE  FALSE
  BY <1>5, NoneAssumption DEF ReleaseLoad, SignalClose, SnapshotInv, TypeOK
<1>6. ASSUME NEW r \in Requests, SignalCAS(r)
      PROVE  FALSE
  BY <1>6, NoneAssumption DEF SignalCAS, SnapshotInv, TypeOK
<1>7. ASSUME NEW c \in Closers, NEW t \in Snapshots, CloseCAS(c, t)
      PROVE  FALSE
  BY <1>7 DEF CloseCAS, SnapshotInv, TypeOK
<1>8. ASSUME NEW c \in Closers, CloseDrainLoad(c)
      PROVE  inFlight'[s] = 0
  BY <1>8 DEF CloseDrainLoad, SnapshotInv, TypeOK
<1>9. ASSUME NEW c \in Closers, CloserSignalCAS(c)
      PROVE  FALSE
  BY <1>9 DEF CloserSignalCAS, SnapshotInv, TypeOK
<1>10. ASSUME NEW c \in Closers, CloserSignalClose(c) \/ CloseAwaitDrain(c) \/ CloseResources(c)
       PROVE  FALSE
  BY <1>10 DEF CloserSignalClose, CloseAwaitDrain, CloseResources, SnapshotInv, TypeOK
<1>11. ASSUME NEW c \in Closers, CloseStoreClosed(c) \/ CloseClosedCh(c) \/ CloseAwaitClosed(c)
       PROVE  FALSE
  BY <1>11, NoneAssumption DEF CloseStoreClosed, CloseClosedCh, CloseAwaitClosed, SnapshotInv, TypeOK
<1> QED
  BY Zenon, <1>1, <1>2, <1>3, <1>4, <1>5, <1>6, <1>7, <1>8, <1>9, <1>10, <1>11
     DEF Next, RequestStep, CloserStep

\* The step that moves a snapshot out of the open state is the CAS of a Close(),
\* which leaves every request where it is.
LEMMA LeavesOpen ==
  ASSUME SnapshotInv, Next, NEW s \in Snapshots, state[s] = "open", state'[s] # "open"
  PROVE  /\ state'[s] = "closing"
         /\ UNCHANGED <<drainSignaled, pc, held>>
         /\ \A c \in Closers : target'[c] = s => cpc'[c] \notin {"sigCAS", "sigClose"}
<1>1. PICK c \in Closers : CloseCAS(c, s)
  <2>1. ASSUME NEW c \in Closers, CloseStoreClosed(c)
        PROVE  FALSE
    BY <2>1 DEF CloseStoreClosed, SnapshotInv, OwnerInv, Owns, TypeOK, OnBuilt
  <2>2. ASSUME NEW c \in Closers, NEW t \in Snapshots, CloseCAS(c, t)
        PROVE  t = s
    BY <2>2 DEF CloseCAS, SnapshotInv, TypeOK
  <2>3. ASSUME state' = state PROVE FALSE
    BY <2>3
  <2> QED
    BY Zenon, <2>1, <2>2, <2>3 DEF Next, RequestStep, CloserStep, newRuntimeSnapshot, AcquireLoad,
       AcquireAdd, AcquireRecheck, ReleaseAdd, ReleaseLoad, SignalCAS, SignalClose,
       CloseDrainLoad, CloserSignalCAS, CloserSignalClose, CloseAwaitDrain, CloseResources,
       CloseClosedCh, CloseAwaitClosed
<1>2. \A d \in Closers : ~Owns(d, s)
  BY DEF SnapshotInv, OwnerInv
<1> QED
  BY <1>1, <1>2 DEF CloseCAS, Owns, SnapshotInv, TypeOK

\* A zero count read after the CAS stays final: the users only leave, and the
\* first goroutine to see the drain saw an exact count.
LEMMA DrainStep ==
  ASSUME HistoryInv, HNext
  PROVE  DrainInv'
<1> SUFFICES ASSUME NEW s \in Snapshots, ~staleRelease'[s], state'[s] # "open", DrainSeen(s)'
             PROVE  Users(s)' = {}
  BY DEF DrainInv
<1>1. SnapshotInv /\ SnapshotInv' /\ Next
  BY InvStep DEF HistoryInv, HNext
<1>2. CASE state[s] = "open"
  <2>1. /\ state'[s] = "closing"
        /\ UNCHANGED <<drainSignaled, pc, held>>
        /\ \A c \in Closers : target'[c] = s => cpc'[c] \notin {"sigCAS", "sigClose"}
    BY <1>1, <1>2, LeavesOpen
  <2>2. StaleReleasers(s) = {}
    BY Zenon, <1>2, <2>1 DEF HNext
  <2>3. ~drainSignaled[s]
    BY <1>1, <1>2 DEF SnapshotInv, OnceInv
  <2>4. \A r \in Requests : held[r] = s => pc[r] \notin {"sigCAS", "sigClose"}
    BY <1>1, <1>2 DEF SnapshotInv, SignalInv
  <2> QED
    BY <2>1, <2>2, <2>3, <2>4 DEF DrainSeen, StaleReleasers
<1>3. CASE state[s] # "open"
  <2>1. Users(s)' \subseteq Users(s)
    BY Zenon, <1>1, <1>3, UsersStep DEF SnapshotInv
  <2>2. CASE DrainSeen(s)
    <3>1. ~staleRelease[s]
      BY <1>3 DEF HNext
    <3> QED
      BY <1>3, <2>1, <2>2, <3>1 DEF HistoryInv, DrainInv
  <2>3. CASE ~DrainSeen(s)
    <3>1. inFlight'[s] = 0
      BY <1>1, <1>3, <2>3, FirstSeen
    <3>2. Cardinality(Counted(s)') = 0 /\ IsFiniteSet(Counted(s)')
      <4>1. InFlightExact'
        BY <1>1 DEF SnapshotInv
      <4>2. IsFiniteSet(Counted(s)')
        BY RequestsAssumption, FS_Subset DEF Counted
      <4> QED
        BY <3>1, <4>1, <4>2 DEF InFlightExact
    <3>3. Counted(s)' = {}
      BY <3>2, FS_EmptySet
    <3> QED
      BY <3>3 DEF Counted, Users
  <2> QED
    BY <2>2, <2>3
<1> QED
  BY <1>2, <1>3

\* The inductive invariant: from the CAS of Close() on, unless it overtook a
\* release(), a zero count that some goroutine has read is final.
THEOREM HistoryInvariant == HSpec => []HistoryInv
<1>1. HInit => HistoryInv
  BY InitInv DEF HInit, Init, HistoryInv, HTypeOK, DrainInv
<1>2. HistoryInv /\ [HNext]_historyVars => HistoryInv'
  <2>1. ASSUME HistoryInv, HNext PROVE HistoryInv'
    <3>1. SnapshotInv'
      BY <2>1, InvStep DEF HistoryInv, HNext
    <3>2. HTypeOK'
      BY Zenon, <2>1 DEF HistoryInv, HTypeOK, HNext
    <3>3. DrainInv'
      BY <2>1, DrainStep
    <3> QED
      BY <3>1, <3>2, <3>3 DEF HistoryInv
  <2>2. ASSUME HistoryInv, UNCHANGED historyVars PROVE HistoryInv'
    <3>1. SnapshotInv'
      BY <2>2, InvStep DEF HistoryInv, historyVars, snapshotVars
    <3>2. HTypeOK' /\ DrainInv'
      BY <2>2 DEF HistoryInv, HTypeOK, historyVars, DrainInv, DrainSeen, Users
    <3> QED
      BY <3>1, <3>2 DEF HistoryInv
  <2> QED
    BY <2>1, <2>2
<1> QED
  BY <1>1, <1>2, PTL DEF HSpec

\* Apart from a release() that stood between its decrement to zero and its load
\* of the state when Close() did its CAS, the closers of a snapshot run only when
\* no request uses it.
THEOREM DrainIsClean == HSpec => []CleanDrain
<1>1. HistoryInv => CleanDrain
  <2> SUFFICES ASSUME HistoryInv, NEW s \in Snapshots, closersRun[s] > 0, ~staleRelease[s]
               PROVE  Users(s) = {}
    BY DEF CleanDrain
  <2>1. closersRun[s] = 1
    BY DEF HistoryInv, SnapshotInv, OnceInv, TypeOK
  <2>2. state[s] # "open" /\ drainedCh[s] = 1
    BY <2>1 DEF HistoryInv, SnapshotInv, OnceInv
  <2>3. DrainSeen(s)
    BY <2>2 DEF HistoryInv, SnapshotInv, SignalInv, SignalOnce, DrainSeen
  <2> QED
    BY <2>2, <2>3 DEF HistoryInv, DrainInv
<1> QED
  BY <1>1, HistoryInvariant, PTL

=============================================================================
