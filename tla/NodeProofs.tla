------------------------------- MODULE NodeProofs -------------------------------
(***************************************************************************)
(* Proofs about the parts of a node that keep state of their own beside    *)
(* the snapshots: ConfigWatch, for any number of revisions and of failures *)
(* of the watch stream; and AccessLog, for any number of writers of one    *)
(* file, any number of goroutines that close them and any size of the      *)
(* buffers.                                                                *)
(***************************************************************************)
EXTENDS ConfigWatch, AccessLog, SequenceTheorems, WellFoundedInduction, TLAPS

-----------------------------------------------------------------------------
(* ConfigWatch *)

USE BoundsAssumption DEF rev, Revisions, Alive

\* The variables keep their types in every step.
LEMMA TypeStep ==
  ASSUME TypeOK, [Next]_vars
  PROVE  TypeOK'
<1> USE DEF TypeOK, WatchLabels
<1> DEFINE Flags == streamUp \in BOOLEAN /\ cancelled \in BOOLEAN /\ running \in BOOLEAN
           Chans == watchCh \in Seq(Responses) /\ errCh \in Seq({"nil", "canceled"})
           Others == /\ kinds \in Seq(Kinds) /\ rev \in Revisions
                     /\ sent \in 0..rev /\ breaks \in 0..MaxBreaks
                     /\ wpc \in WatchLabels
                     /\ loaded \in 0..rev /\ seen \in 0..rev /\ serving \in 0..rev
                     /\ notified \in 0..MaxRev /\ gap \subseteq Revisions
                     /\ mpc \in {"boot", "select", "shutdown", "closing", "exit", "abandoned"}
<1>1. ASSUME NEW k \in Kinds, Write(k)
      PROVE  TypeOK'
  BY <1>1 DEF Write, watchVars, mainVars
<1>2. ASSUME SendEvents
      PROVE  TypeOK'
  <2> PICK r \in (sent + 1)..rev :
        sent' = r /\ watchCh' = Append(watchCh, [type |-> "events", upTo |-> r])
    BY <1>2 DEF SendEvents, Deliver
  <2>1. [type |-> "events", upTo |-> r] \in Responses
    BY DEF Responses
  <2> QED
    BY <1>2, <2>1 DEF SendEvents, watchVars, mainVars
<1>3. ASSUME SendEmpty \/ BreakStream
      PROVE  TypeOK'
  <2>1. \A type \in {"empty", "error", "closed"} : Response(type) \in Responses
    BY DEF Response, Responses
  <2>2. CASE SendEmpty
    BY <2>1, <2>2 DEF SendEmpty, Deliver, watchVars, mainVars
  <2>3. CASE BreakStream
    <3> PICK type \in {"error", "closed"} : watchCh' = Append(watchCh, Response(type))
      BY <2>3 DEF BreakStream, Deliver
    <3>1. watchCh' \in Seq(Responses)
      BY <2>1
    <3>11. Flags'
      BY Zenon, <2>3, <3>1 DEF BreakStream, watchVars, mainVars
    <3>12. Chans'
      BY <2>3, <3>1 DEF BreakStream, watchVars, mainVars
    <3>13. Others'
      BY <2>3, <3>1 DEF BreakStream, watchVars, mainVars
    <3> QED
      BY <3>11, <3>12, <3>13
  <2> QED
    BY <1>3, <2>2, <2>3
<1>4. ASSUME MainStep \/ Signal \/ RunReturns
      PROVE  TypeOK'
  <2>1. CASE Boot
    <3>11. Flags'
      BY Zenon, <2>1 DEF Boot, etcdVars
    <3>12. Chans'
      BY <2>1 DEF Boot, etcdVars
    <3>13. Others'
      BY <2>1 DEF Boot, etcdVars
    <3> QED
      BY <3>11, <3>12, <3>13
  <2>2. CASE MainErr
    <3>11. Flags'
      BY Zenon, <2>2 DEF MainErr, etcdVars, watchVars
    <3>12. Chans'
      BY <2>2 DEF MainErr, etcdVars, watchVars
    <3>13. Others'
      BY <2>2 DEF MainErr, etcdVars, watchVars
    <3> QED
      BY <3>11, <3>12, <3>13
  <2>3. CASE ShutdownSwap
    BY <2>3 DEF ShutdownSwap, etcdVars
  <2>4. CASE Exit \/ Signal
    BY Zenon, <2>4 DEF Exit, Signal, etcdVars, watchVars
  <2>5. CASE RunReturns
    <3>11. Flags'
      BY Zenon, <2>5 DEF RunReturns, etcdVars, watchVars
    <3>12. Chans'
      BY <2>5 DEF RunReturns, etcdVars, watchVars
    <3>13. Others'
      BY <2>5 DEF RunReturns, etcdVars, watchVars
    <3> QED
      BY <3>11, <3>12, <3>13
  <2> QED
    BY <1>4, <2>1, <2>2, <2>3, <2>4, <2>5 DEF MainStep
<1>5. ASSUME StartWatch
      PROVE  TypeOK'
  <2>11. Flags'
    BY <1>5 DEF StartWatch, mainVars
  <2>12. Chans'
    BY <1>5 DEF StartWatch, mainVars
  <2>1. gap' \subseteq Revisions
    <3>1. \A x \in (seen + 1)..rev : x \in Revisions
      OBVIOUS
    <3> QED
      BY Zenon, <1>5, <3>1 DEF StartWatch
  <2>13. Others'
    BY <1>5, <2>1 DEF StartWatch, mainVars
  <2> QED
    BY <2>11, <2>12, <2>13
<1>6. ASSUME WatchDone
      PROVE  TypeOK'
  BY <1>6 DEF WatchDone, etcdVars
<1>7. ASSUME RetryDelayOver \/ Compile \/ Drained
      PROVE  TypeOK'
  BY Zenon, <1>7 DEF RetryDelayOver, Compile, Drained, etcdVars, mainVars
<1>8. ASSUME Receive
      PROVE  TypeOK'
  <2>1. Head(watchCh) \in Responses /\ Tail(watchCh) \in Seq(Responses)
    BY <1>8 DEF Receive
  <2> QED
    BY <1>8, <2>1 DEF Receive, Responses, mainVars
<1>9. ASSUME Load \/ LoadFails \/ Swap
      PROVE  TypeOK'
  <2>11. Flags'
    BY <1>9 DEF Load, LoadFails, Swap, etcdVars, mainVars
  <2>12. Chans'
    BY <1>9 DEF Load, LoadFails, Swap, etcdVars, mainVars
  <2>1. gap' \subseteq Revisions
    <3>1. \A x \in (seen + 1)..notified : x \in Revisions
      OBVIOUS
    <3> QED
      BY Zenon, <1>9, <3>1 DEF Load, LoadFails, Swap
  <2>13. Others'
    <3>1. CASE Load
      BY <2>1, <3>1 DEF Load, etcdVars, mainVars
    <3>2. CASE LoadFails
      BY <2>1, <3>2 DEF LoadFails, etcdVars, mainVars
    <3>3. CASE Swap
      BY <2>1, <3>3 DEF Swap, etcdVars, mainVars
    <3> QED
      BY <1>9, <3>1, <3>2, <3>3
  <2> QED
    BY <2>11, <2>12, <2>13
<1>10. CASE UNCHANGED vars
  BY <1>10 DEF vars
<1> QED
  BY Zenon, <1>1, <1>2, <1>3, <1>4, <1>5, <1>6, <1>7, <1>8, <1>9, <1>10
     DEF Next, EtcdStep, WatchStep

\* Revisions are never rewritten.
LEMMA KindsStep ==
  ASSUME TypeOK, [Next]_vars
  PROVE  rev' >= rev /\ \A r \in 1..rev : kinds'[r] = kinds[r]
<1>1. ASSUME NEW k \in Kinds, Write(k)
      PROVE  rev' >= rev /\ \A r \in 1..rev : kinds'[r] = kinds[r]
  BY <1>1 DEF Write, TypeOK
<1>2. (\A k \in Kinds : ~Write(k)) => UNCHANGED kinds
  BY DEF Next, EtcdStep, SendEmpty, BreakStream, SendEvents, WatchStep, StartWatch,
     WatchDone, Receive, RetryDelayOver, Load, LoadFails, Compile, Swap, Drained,
     MainStep, Boot, MainErr, ShutdownSwap, Exit, Signal, RunReturns, etcdVars, vars
<1> QED
  BY <1>1, <1>2 DEF TypeOK

\* A configuration that reaches Swap compiled, and is the one read last.
LEMMA ReloadStep ==
  ASSUME TypeOK, ReloadInv, BadNeverServed, [Next]_vars
  PROVE  ReloadInv' /\ BadNeverServed' /\ (serving' # 0 => serving' >= serving)
<1> USE DEF TypeOK, ReloadInv, BadNeverServed
<1>1. rev' >= rev /\ \A r \in 1..rev : kinds'[r] = kinds[r]
  BY KindsStep
<1>2. ASSUME UNCHANGED <<wpc, loaded, seen, serving>>
      PROVE  ReloadInv' /\ BadNeverServed' /\ (serving' # 0 => serving' >= serving)
  BY <1>1, <1>2
<1>3. CASE Boot
  BY <1>3 DEF Boot, etcdVars
<1>4. CASE ShutdownSwap
  BY <1>4 DEF ShutdownSwap, etcdVars
<1>5. CASE StartWatch \/ WatchDone \/ Receive \/ RetryDelayOver \/ LoadFails \/ Drained
  <2>1. UNCHANGED <<loaded, seen, serving>> /\ wpc' \notin {"compile", "swap"}
    BY <1>5 DEF StartWatch, WatchDone, Receive, RetryDelayOver, LoadFails, Drained
  <2> QED
    BY <1>1, <2>1
<1>6. CASE Load
  BY <1>6 DEF Load, etcdVars
<1>7. CASE Compile
  BY <1>7 DEF Compile, etcdVars
<1>8. CASE Swap
  BY <1>8 DEF Swap, etcdVars
<1>9. CASE EtcdStep \/ SendEvents \/ MainErr \/ Exit \/ Signal \/ RunReturns \/ UNCHANGED vars
  BY <1>2, <1>9 DEF EtcdStep, Write, SendEmpty, BreakStream, SendEvents, MainErr, Exit,
     Signal, RunReturns, watchVars, vars
<1> QED
  BY <1>3, <1>4, <1>5, <1>6, <1>7, <1>8, <1>9 DEF Next, WatchStep, MainStep

\* What a channel says is not lost when another response is appended.
LEMMA AppendKeeps ==
  ASSUME NEW S, NEW q \in Seq(S), NEW e \in S, NEW i \in DOMAIN q
  PROVE  i \in DOMAIN Append(q, e) /\ Append(q, e)[i] = q[i]
OBVIOUS

\* It is not lost either when the first response, which does not say it, is
\* received.
LEMMA TailKeeps ==
  ASSUME NEW S, NEW q \in Seq(S), q # <<>>, NEW i \in DOMAIN q, q[i] # Head(q)
  PROVE  i - 1 \in DOMAIN Tail(q) /\ Tail(q)[i - 1] = q[i]
OBVIOUS

\* A response that is delivered joins the ones that are waiting.
LEMMA Delivered ==
  ASSUME TypeOK, NEW e \in Responses, Deliver(e)
  PROVE  /\ Ended => Ended'
         /\ \A r \in Nat : Reported(r) => Reported(r)'
         /\ e.type \in {"error", "closed"} => Ended'
         /\ \A r \in Nat : e.type = "events" /\ e.upTo = r => Reported(r)'
<1>1. watchCh' = Append(watchCh, e) /\ watchCh \in Seq(Responses)
  BY DEF Deliver, TypeOK
<1>2. \A i \in DOMAIN watchCh : i \in DOMAIN watchCh' /\ watchCh'[i] = watchCh[i]
  BY <1>1, AppendKeeps
<1>3. Len(watchCh) + 1 \in DOMAIN watchCh' /\ watchCh'[Len(watchCh) + 1] = e
  BY <1>1
<1> QED
  BY <1>2, <1>3 DEF Ended, Reported

\* A response that is received is the only one to leave the channel.
LEMMA Received ==
  ASSUME TypeOK, Receive
  PROVE  /\ Ended => Ended' \/ wpc' = "sleep"
         /\ \A r \in Nat : Reported(r) => Reported(r)' \/ (wpc' = "load" /\ notified' = r)
<1>1. watchCh' = Tail(watchCh) /\ watchCh \in Seq(Responses) /\ watchCh # <<>>
  BY DEF Receive, TypeOK
<1>2. \A i \in DOMAIN watchCh : watchCh[i] # Head(watchCh) =>
        i - 1 \in DOMAIN watchCh' /\ watchCh'[i - 1] = watchCh[i]
  BY <1>1, TailKeeps
<1> QED
  BY Zenon, <1>2 DEF Receive, Ended, Reported

\* A goroutine waiting for responses has a stream, or will learn that it ended.
LEMMA StreamStep ==
  ASSUME TypeOK, StreamInv, [Next]_vars
  PROVE  StreamInv'
<1> USE DEF StreamInv
<1>1. CASE UNCHANGED <<streamUp, watchCh, wpc>>
  BY <1>1 DEF Ended
<1>2. CASE SendEvents
  <2> PICK r \in (sent + 1)..rev : Deliver([type |-> "events", upTo |-> r])
    BY <1>2 DEF SendEvents
  <2>1. [type |-> "events", upTo |-> r] \in Responses
    BY DEF TypeOK, Responses
  <2> QED
    BY <1>2, <2>1, Delivered DEF SendEvents, watchVars
<1>3. CASE SendEmpty
  BY <1>3 DEF SendEmpty
<1>4. CASE BreakStream
  <2> PICK type \in {"error", "closed"} : Deliver(Response(type))
    BY <1>4 DEF BreakStream
  <2>1. Response(type) \in Responses /\ Response(type).type \in {"error", "closed"}
    BY DEF Response, Responses
  <2> QED
    BY <2>1, Delivered
<1>5. CASE StartWatch
  BY <1>5 DEF StartWatch
<1>6. CASE Receive
  BY <1>6, Received DEF Receive
<1>7. CASE Boot \/ WatchDone \/ RetryDelayOver
  BY <1>7 DEF Boot, WatchDone, RetryDelayOver, etcdVars, Ended
<1>8. CASE Load \/ LoadFails \/ Compile \/ Swap \/ Drained
  BY <1>8 DEF Load, LoadFails, Compile, Swap, Drained, etcdVars, Ended
<1> QED
  BY <1>1, <1>2, <1>3, <1>4, <1>5, <1>6, <1>7, <1>8 DEF Next, EtcdStep, WatchStep,
     MainStep, Write, MainErr, ShutdownSwap, Exit, Signal, RunReturns, etcdVars,
     watchVars, vars

\* No step loses sight of the latest revision.
LEMMA LossStep ==
  ASSUME TypeOK, StreamInv, NoSilentLoss, [Next]_vars
  PROVE  NoSilentLoss'
<1> USE DEF NoSilentLoss, TypeOK
<1>1. CASE UNCHANGED <<kinds, streamUp, sent, watchCh, wpc, notified, seen, gap>>
           /\ (Alive' => Alive)
  BY <1>1 DEF Ended, Reported
<1>2. ASSUME NEW k \in Kinds, Write(k)
      PROVE  NoSilentLoss'
  <2>1. streamUp => sent' < rev'
    BY <1>2 DEF Write
  <2> QED
    BY <1>2, <2>1 DEF Write, StreamInv, Ended, watchVars
<1>3. CASE SendEvents
  <2> PICK r \in (sent + 1)..rev :
        sent' = r /\ Deliver([type |-> "events", upTo |-> r])
    BY <1>3 DEF SendEvents
  <2>1. [type |-> "events", upTo |-> r] \in Responses
    BY DEF Responses
  <2>2. Reported(r)'
    BY <2>1, Delivered
  <2>3. streamUp' /\ (r # rev => sent' < rev')
    BY <1>3 DEF SendEvents
  <2>4. UNCHANGED kinds
    BY <1>3 DEF SendEvents
  <2>5. r = rev => Reported(rev)'
    BY <2>2, <2>4 DEF Reported
  <2> QED
    BY <2>3, <2>4, <2>5
<1>4. CASE SendEmpty
  BY <1>4 DEF SendEmpty, watchVars, mainVars, Ended, Reported
<1>5. CASE BreakStream
  <2> PICK type \in {"error", "closed"} : Deliver(Response(type))
    BY <1>5 DEF BreakStream
  <2>1. Response(type) \in Responses /\ Response(type).type \in {"error", "closed"}
    BY DEF Response, Responses
  <2> QED
    BY <2>1, Delivered
<1>6. CASE Boot
  BY <1>6 DEF Boot, etcdVars
<1>7. CASE StartWatch
  BY <1>7 DEF StartWatch
<1>8. CASE WatchDone \/ RetryDelayOver
  BY <1>8 DEF WatchDone, RetryDelayOver
<1>9. CASE Receive
  <2>1. UNCHANGED <<kinds, streamUp, sent, seen, gap, mpc>> /\ wpc = "select" /\ rev \in Nat
    BY <1>9 DEF Receive, mainVars
  <2> QED
    BY <1>9, <2>1, Received
<1>10. CASE Load
  BY <1>10 DEF Load, etcdVars
<1>11. CASE LoadFails
  BY <1>11 DEF LoadFails, etcdVars, mainVars, Ended, Reported
<1>12. CASE Compile \/ Swap \/ Drained
  BY <1>12 DEF Compile, Swap, Drained, etcdVars, mainVars, Ended, Reported
<1>13. CASE MainErr \/ ShutdownSwap \/ Exit \/ Signal \/ RunReturns \/ UNCHANGED vars
  BY <1>1, <1>13 DEF MainErr, ShutdownSwap, Exit, Signal, RunReturns, etcdVars,
     watchVars, vars
<1> QED
  BY <1>2, <1>3, <1>4, <1>5, <1>6, <1>7, <1>8, <1>9, <1>10, <1>11, <1>12, <1>13
     DEF Next, EtcdStep, WatchStep, MainStep

\* Main leaves its select before the watch goroutine can report a cancellation.
LEMMA CancelStep ==
  ASSUME TypeOK, CancelInv, NoExitWithoutShutdown, [Next]_vars
  PROVE  CancelInv' /\ NoExitWithoutShutdown'
<1> USE DEF CancelInv, NoExitWithoutShutdown
<1>1. CASE UNCHANGED <<cancelled, errCh, mpc>>
  BY <1>1
<1>2. CASE Boot \/ Signal \/ ShutdownSwap \/ Exit
  BY <1>2 DEF Boot, Signal, ShutdownSwap, Exit, TypeOK
<1>3. CASE MainErr
  BY <1>3 DEF MainErr, TypeOK
<1>4. CASE WatchDone
  BY <1>4 DEF WatchDone, TypeOK
<1>5. CASE RunReturns
  BY <1>5 DEF RunReturns, TypeOK
<1> QED
  BY <1>1, <1>2, <1>3, <1>4, <1>5 DEF Next, EtcdStep, SendEvents, Write, SendEmpty,
     BreakStream, WatchStep, StartWatch, Receive, RetryDelayOver, Load, LoadFails,
     Compile, Swap, Drained, MainStep, mainVars, vars

\* The inductive invariant of ConfigWatch holds in every reachable state.
THEOREM WatchInvariant == Spec => []WatchInv
<1>1. Init => WatchInv
  <2> SUFFICES ASSUME Init PROVE WatchInv
    OBVIOUS
  <2> PICK k \in Kinds : kinds = <<k>>
    BY DEF Init
  <2>1. TypeOK
    <3>1. kinds \in Seq(Kinds) /\ rev = 1
      OBVIOUS
    <3>2. streamUp \in BOOLEAN /\ cancelled \in BOOLEAN /\ running \in BOOLEAN
      BY Zenon DEF Init
    <3>3. watchCh \in Seq(Responses) /\ errCh \in Seq({"nil", "canceled"})
      BY DEF Init
    <3> QED
      BY <3>1, <3>2, <3>3 DEF Init, TypeOK, WatchLabels
  <2> QED
    BY <2>1 DEF Init, WatchInv, ReloadInv, BadNeverServed, StreamInv, NoSilentLoss,
       CancelInv, NoExitWithoutShutdown
<1>2. WatchInv /\ [Next]_vars => WatchInv'
  BY TypeStep, ReloadStep, StreamStep, LossStep, CancelStep DEF WatchInv
<1> QED
  BY <1>1, <1>2, PTL DEF Spec

\* A prefix that does not decode or compile is never served: Reload swaps only
\* what compiled.
THEOREM BadIsNeverServed == Spec => []BadNeverServed
<1>1. WatchInv => BadNeverServed
  BY DEF WatchInv
<1> QED
  BY <1>1, WatchInvariant, PTL

\* However many revisions are written and streams fail, the only revisions the
\* gateway does not hear of are those of the gaps.
THEOREM OnlyGapsAreLost == Spec => []NoSilentLoss
<1>1. WatchInv => NoSilentLoss
  BY DEF WatchInv
<1> QED
  BY <1>1, WatchInvariant, PTL

\* The process never ends without ShutdownContext once the gateway runs.
THEOREM ShutdownIsNotSkipped == Spec => []NoExitWithoutShutdown
<1>1. WatchInv => NoExitWithoutShutdown
  BY DEF WatchInv
<1> QED
  BY <1>1, WatchInvariant, PTL

\* The configuration that is served never goes back to an older revision.
THEOREM ServingIsMonotone == Spec => NeverGoesBack
<1>1. WatchInv /\ [Next]_vars => [serving' # 0 => serving' >= serving]_vars
  BY ReloadStep DEF WatchInv
<1> QED
  BY <1>1, WatchInvariant, PTL DEF Spec, NeverGoesBack

HIDE BoundsAssumption DEF rev, Revisions, Alive

-----------------------------------------------------------------------------
(* Induction, stated for a set of numbers instead of a predicate *)

\* A set of natural numbers has a least element.
LEMMA LeastElement ==
  ASSUME NEW T, T \subseteq Nat, T # {}
  PROVE  \E n \in T : \A m \in T : n <= m
<1> DEFINE R == OpToRel(<, Nat)
<1>1. IsWellFoundedOn(R, Nat)
  BY Zenon, NatLessThanWellFounded
<1>2. \A y, x \in Nat : <<y, x>> \in R <=> y < x
  BY DEF OpToRel
<1> HIDE DEF R
<1>3. PICK n \in T : \A m \in T : <<m, n>> \notin R
  BY Zenon, <1>1, WFMin
<1>4. ASSUME NEW m \in T
      PROVE  n <= m
  <2>1. m \in Nat /\ n \in Nat
    OBVIOUS
  <2>2. ~(m < n)
    BY Zenon, <1>2, <1>3, <2>1
  <2> QED
    BY <2>1, <2>2
<1> QED
  BY <1>4

\* A set that has 0 and the successors of its members has every natural number.
LEMMA SetInduction ==
  ASSUME NEW S, 0 \in S, \A n \in Nat : n \in S => n + 1 \in S
  PROVE  Nat \subseteq S
<1> SUFFICES ASSUME Nat \ S # {} PROVE FALSE
  OBVIOUS
<1> PICK n \in Nat \ S : \A m \in Nat \ S : n <= m
  BY Zenon, LeastElement
<1>1. n # 0 /\ n - 1 \in Nat
  OBVIOUS
<1>2. n - 1 \in S
  BY <1>1
<1> QED
  BY <1>1, <1>2

-----------------------------------------------------------------------------
(* AccessLog: the parts of one writer in the file *)

USE CapacityAssumption

Parts == [writer : Writers, line : Nat, part : {"text", "newline"}]

\* g has the parts of w among the first n of s, for every n up to m.
Selects(w, s, m, g) ==
  /\ g \in [0..m -> Seq(Parts)]
  /\ g[0] = <<>>
  /\ \A n \in 1..m : g[n] = IF s[n].writer = w THEN Append(g[n - 1], s[n]) ELSE g[n - 1]

\* There is such a function.
LEMMA SelectionExists ==
  ASSUME NEW w \in Writers, NEW s \in Seq(Parts), NEW m \in 0..Len(s)
  PROVE  \E g : Selects(w, s, m, g)
<1> DEFINE S == {n \in Nat : n <= Len(s) => \E g : Selects(w, s, n, g)}
<1>1. 0 \in S
  <2>1. Selects(w, s, 0, [n \in 0..0 |-> <<>>])
    BY DEF Selects
  <2> QED
    BY <2>1
<1>2. ASSUME NEW n \in Nat, n \in S
      PROVE  n + 1 \in S
  <2> SUFFICES ASSUME n + 1 <= Len(s)
               PROVE  \E g : Selects(w, s, n + 1, g)
    OBVIOUS
  <2> PICK g : Selects(w, s, n, g)
    BY <1>2
  <2> DEFINE last == IF s[n + 1].writer = w THEN Append(g[n], s[n + 1]) ELSE g[n]
             h == [i \in 0..(n + 1) |-> IF i = n + 1 THEN last ELSE g[i]]
  <2>1. last \in Seq(Parts)
    BY DEF Selects
  <2> HIDE DEF last
  <2>2. h \in [0..(n + 1) -> Seq(Parts)] /\ h[0] = <<>>
    BY <2>1 DEF Selects
  <2>3. ASSUME NEW i \in 1..(n + 1)
        PROVE  h[i] = IF s[i].writer = w THEN Append(h[i - 1], s[i]) ELSE h[i - 1]
    <3>1. CASE i = n + 1
      BY <3>1 DEF last
    <3>2. CASE i # n + 1
      <4>1. i \in 1..n /\ h[i] = g[i] /\ h[i - 1] = g[i - 1]
        BY <3>2
      <4> QED
        BY Zenon, <4>1 DEF Selects
    <3> QED
      BY <3>1, <3>2
  <2> HIDE DEF h
  <2>4. Selects(w, s, n + 1, h)
    BY Zenon, <2>2, <2>3 DEF Selects
  <2> QED
    BY <2>4
<1> HIDE DEF S
<1>3. m \in S
  BY <1>1, <1>2, SetInduction
<1> QED
  BY <1>3 DEF S

\* It depends on nothing but the first m parts.
LEMMA SelectionUnique ==
  ASSUME NEW w \in Writers, NEW s \in Seq(Parts), NEW t \in Seq(Parts),
         NEW m \in Nat, NEW k \in Nat, NEW l \in Nat, m <= k, m <= l,
         \A i \in 1..m : s[i] = t[i],
         NEW g, Selects(w, s, k, g), NEW h, Selects(w, t, l, h)
  PROVE  g[m] = h[m]
<1> DEFINE S == {n \in Nat : n <= m => g[n] = h[n]}
<1>1. 0 \in S
  BY DEF Selects
<1>2. ASSUME NEW n \in Nat, n \in S
      PROVE  n + 1 \in S
  <2> SUFFICES ASSUME n + 1 <= m
               PROVE  g[n + 1] = h[n + 1]
    OBVIOUS
  <2>1. g[n] = h[n] /\ s[n + 1] = t[n + 1]
    BY <1>2
  <2>2. n + 1 \in 1..k /\ n + 1 \in 1..l /\ (n + 1) - 1 = n
    OBVIOUS
  <2>3. g[n + 1] = IF s[n + 1].writer = w THEN Append(g[n], s[n + 1]) ELSE g[n]
    BY <2>2 DEF Selects
  <2>4. h[n + 1] = IF t[n + 1].writer = w THEN Append(h[n], t[n + 1]) ELSE h[n]
    BY <2>2 DEF Selects
  <2> QED
    BY <2>1, <2>3, <2>4
<1> HIDE DEF S
<1>3. m \in S
  BY <1>1, <1>2, SetInduction
<1> QED
  BY <1>3 DEF S

\* From(w, s) is the last value of the selection, however it is given.
LEMMA FromSelects ==
  ASSUME NEW w \in Writers, NEW s \in Seq(Parts)
  PROVE  \E g : Selects(w, s, Len(s), g) /\ From(w, s) = g[Len(s)]
<1> DEFINE Defines(g) ==
      g = [n \in 0..Len(s) |->
             IF n = 0 THEN <<>>
             ELSE IF s[n].writer = w THEN Append(g[n - 1], s[n]) ELSE g[n - 1]]
           from == CHOOSE g : Defines(g)
<1>1. PICK g : Selects(w, s, Len(s), g)
  BY SelectionExists
<1>2. Defines(g)
  <2> DEFINE h == [n \in 0..Len(s) |->
                     IF n = 0 THEN <<>>
                     ELSE IF s[n].writer = w THEN Append(g[n - 1], s[n]) ELSE g[n - 1]]
  <2>1. ASSUME NEW n \in 0..Len(s)
        PROVE  g[n] = h[n]
    <3>1. CASE n = 0
      BY <1>1, <3>1 DEF Selects
    <3>2. CASE n # 0
      <4>1. n \in 1..Len(s)
        BY <3>2
      <4> QED
        BY Zenon, <1>1, <3>2, <4>1 DEF Selects
    <3> QED
      BY <3>1, <3>2
  <2>2. g \in [0..Len(s) -> Seq(Parts)]
    BY <1>1 DEF Selects
  <2> QED
    BY <2>1, <2>2
<1>3. Defines(from)
  BY Zenon, <1>2
<1>4. From(w, s) = from[Len(s)]
  BY DEF From
<1> DEFINE S == {n \in Nat : n <= Len(s) => from[n] = g[n]}
<1>5. 0 \in S
  <2>1. from[0] = <<>>
    <3> HIDE DEF from
    <3>1. 0 \in 0..Len(s)
      OBVIOUS
    <3> QED
      BY <1>3, <3>1
  <2> QED
    BY <1>1, <2>1 DEF Selects
<1>6. ASSUME NEW n \in Nat, n \in S
      PROVE  n + 1 \in S
  <2> SUFFICES ASSUME n + 1 <= Len(s)
               PROVE  from[n + 1] = g[n + 1]
    OBVIOUS
  <2>1. from[n] = g[n]
    BY <1>6
  <2>2. n + 1 \in 0..Len(s) /\ n + 1 \in 1..Len(s) /\ (n + 1) - 1 = n /\ n + 1 # 0
    OBVIOUS
  <2>3. from[n + 1] = IF s[n + 1].writer = w THEN Append(from[n], s[n + 1]) ELSE from[n]
    <3> HIDE DEF from
    <3> QED
      BY Zenon, <1>3, <2>2
  <2>4. g[n + 1] = IF s[n + 1].writer = w THEN Append(g[n], s[n + 1]) ELSE g[n]
    BY <1>1, <2>2 DEF Selects
  <2> QED
    BY <2>1, <2>3, <2>4
<1> HIDE DEF S, from
<1>7. Len(s) \in S
  BY <1>5, <1>6, SetInduction
<1>8. from[Len(s)] = g[Len(s)]
  BY <1>7 DEF S
<1> QED
  BY <1>1, <1>4, <1>8

\* They are a sequence of parts.
LEMMA FromType ==
  ASSUME NEW w \in Writers, NEW s \in Seq(Parts)
  PROVE  From(w, s) \in Seq(Parts)
<1> PICK g : Selects(w, s, Len(s), g) /\ From(w, s) = g[Len(s)]
  BY FromSelects
<1>1. Len(s) \in 0..Len(s)
  OBVIOUS
<1> QED
  BY <1>1 DEF Selects

\* A part more in the file is one more if it is of w.
LEMMA FromAppend ==
  ASSUME NEW w \in Writers, NEW s \in Seq(Parts), NEW p \in Parts
  PROVE  From(w, Append(s, p)) = IF p.writer = w THEN Append(From(w, s), p) ELSE From(w, s)
<1> DEFINE t == Append(s, p)
<1>1. t \in Seq(Parts) /\ Len(t) = Len(s) + 1 /\ t[Len(s) + 1] = p
      /\ \A i \in 1..Len(s) : s[i] = t[i]
  BY AppendProperties
<1>2. PICK g : Selects(w, s, Len(s), g) /\ From(w, s) = g[Len(s)]
  BY FromSelects
<1> HIDE DEF t
<1>3. PICK h : Selects(w, t, Len(t), h) /\ From(w, t) = h[Len(t)]
  BY <1>1, FromSelects
<1>4. g[Len(s)] = h[Len(s)]
  <2> DEFINE m == Len(s)
             n == Len(t)
  <2>1. m \in Nat /\ n \in Nat /\ m <= m /\ m <= n
    BY <1>1
  <2>2. t \in Seq(Parts) /\ \A i \in 1..m : s[i] = t[i]
    BY <1>1
  <2>3. Selects(w, s, m, g) /\ Selects(w, t, n, h)
    BY <1>2, <1>3
  <2> HIDE DEF m, n
  <2>4. g[m] = h[m]
    BY <2>1, <2>2, <2>3, SelectionUnique
  <2> QED
    BY <2>4 DEF m
<1>5. h[Len(s) + 1] = IF p.writer = w THEN Append(h[Len(s)], p) ELSE h[Len(s)]
  <2>1. Len(s) + 1 \in 1..Len(t) /\ (Len(s) + 1) - 1 = Len(s)
    BY <1>1
  <2>2. \A n \in 1..Len(t) : h[n] = IF t[n].writer = w THEN Append(h[n - 1], t[n]) ELSE h[n - 1]
    BY <1>3 DEF Selects
  <2>3. t[Len(s) + 1] = p
    BY <1>1
  <2> QED
    BY <2>1, <2>2, <2>3
<1> QED
  BY <1>1, <1>2, <1>3, <1>4, <1>5 DEF t

\* An empty file has none.
LEMMA FromEmpty ==
  ASSUME NEW w \in Writers
  PROVE  From(w, <<>>) = <<>>
<1>1. <<>> \in Seq(Parts) /\ Len(<<>>) = 0
  OBVIOUS
<1> PICK g : Selects(w, <<>>, Len(<<>>), g) /\ From(w, <<>>) = g[Len(<<>>)]
  BY Zenon, <1>1, FromSelects
<1> QED
  BY <1>1 DEF Selects

\* A part may be appended before or after the concatenation.
LEMMA ConcatAppend ==
  ASSUME NEW S, NEW s \in Seq(S), NEW t \in Seq(S), NEW e \in S
  PROVE  s \o Append(t, e) = Append(s \o t, e)
<1>1. Append(t, e) = t \o <<e>> /\ <<e>> \in Seq(S) /\ s \o t \in Seq(S)
  BY AppendIsConcat, ConcatProperties
<1>2. Append(s \o t, e) = (s \o t) \o <<e>>
  BY <1>1, AppendIsConcat
<1> QED
  BY <1>1, <1>2, ConcatAssociative

\* b, all of whose parts are written by v, is added to the parts of v alone.
Adds(w, v, s, b) == From(w, s \o b) = IF v = w THEN From(w, s) \o b ELSE From(w, s)

\* One part more keeps it so.
LEMMA AddsOneMore ==
  ASSUME NEW w \in Writers, NEW v \in Writers, NEW s \in Seq(Parts), NEW b \in Seq(Parts),
         NEW e \in Parts, e.writer = v, Adds(w, v, s, b)
  PROVE  Adds(w, v, s, Append(b, e))
<1>1. s \o b \in Seq(Parts) /\ From(w, s) \in Seq(Parts)
  BY ConcatProperties, FromType
<1>2. s \o Append(b, e) = Append(s \o b, e) /\ From(w, s) \o Append(b, e) = Append(From(w, s) \o b, e)
  BY <1>1, ConcatAppend
<1>3. From(w, Append(s \o b, e)) = IF v = w THEN Append(From(w, s \o b), e) ELSE From(w, s \o b)
  BY Zenon, <1>1, FromAppend
<1> QED
  BY <1>2, <1>3 DEF Adds

\* What a writer flushes is added to its parts in the file, and to nobody else's.
LEMMA FromConcat ==
  ASSUME NEW w \in Writers, NEW v \in Writers, NEW s \in Seq(Parts), NEW b \in Seq(Parts),
         \A i \in 1..Len(b) : b[i].writer = v
  PROVE  Adds(w, v, s, b)
<1> DEFINE S == {n \in Nat : n <= Len(b) => Adds(w, v, s, SubSeq(b, 1, n))}
<1>1. 0 \in S
  <2>1. SubSeq(b, 1, 0) = <<>>
    BY SubSeqEmpty
  <2>2. From(w, s) \in Seq(Parts)
    BY FromType
  <2>3. Adds(w, v, s, <<>>)
    BY <2>2, ConcatEmptySeq DEF Adds
  <2> QED
    BY Zenon, <2>1, <2>3
<1>2. ASSUME NEW n \in Nat, n \in S
      PROVE  n + 1 \in S
  <2> SUFFICES ASSUME n + 1 <= Len(b)
               PROVE  Adds(w, v, s, SubSeq(b, 1, n + 1))
    OBVIOUS
  <2>1. SubSeq(b, 1, n) \in Seq(Parts) /\ b[n + 1] \in Parts /\ b[n + 1].writer = v
    OBVIOUS
  <2>2. SubSeq(b, 1, n + 1) = Append(SubSeq(b, 1, n), b[n + 1])
    OBVIOUS
  <2>3. Adds(w, v, s, SubSeq(b, 1, n))
    BY <1>2
  <2> QED
    BY Zenon, <2>1, <2>2, <2>3, AddsOneMore
<1> HIDE DEF S
<1>3. Len(b) \in S
  BY <1>1, <1>2, SetInduction
<1>4. SubSeq(b, 1, Len(b)) = b
  BY SubSeqFull
<1>5. Adds(w, v, s, SubSeq(b, 1, Len(b)))
  BY <1>3 DEF S
<1> QED
  BY Zenon, <1>4, <1>5

-----------------------------------------------------------------------------
(* The inductive invariant *)

LogTypeOK ==
  /\ file \in Seq(Parts) /\ lines \in Nat
  /\ buffer \in [Writers -> Seq(Parts)] /\ accepted \in [Writers -> Seq(Parts)]
  /\ closed \in [Writers -> BOOLEAN]
  /\ stopCh \in [Writers -> BOOLEAN] /\ doneCh \in [Writers -> BOOLEAN]
  /\ flusher \in [Writers -> {"none", "running", "returned"}]
  /\ once \in [Writers -> {"new", "running", "done"}]
  /\ cpc \in [Closers -> {"idle", "do", "waitDone", "lock"}]
  /\ target \in [Closers -> Writers]

\* A sequence of parts of w.
PartsOf(w, b) == b \in Seq(Parts) /\ \A i \in 1..Len(b) : b[i].writer = w

\* The buffer of a writer has parts of its own only.
OwnBuffer == \A w \in Writers : PartsOf(w, buffer[w])

\* Nobody comes to the last section of Close() before the flusher returned.
CloseOrder ==
  /\ \A w \in Writers : doneCh[w] => flusher[w] = "returned"
  /\ \A w \in Writers : once[w] = "done" => doneCh[w]
  /\ \A c \in Closers : cpc[c] = "lock" => once[target[c]] = "done"
  /\ \A w \in Writers : closed[w] => doneCh[w]

LogInv == LogTypeOK /\ OwnBuffer /\ NothingLost /\ CloseOrder

\* st has the parts of w in f and b, then e, and of the other writers those in f.
Holding(st, w, f, b, e) ==
  /\ st = [file |-> st.file, buffer |-> st.buffer]
  /\ st.file \in Seq(Parts) /\ PartsOf(w, st.buffer)
  /\ From(w, st.file) \o st.buffer = Append(From(w, f) \o b, e)
  /\ \A v \in Writers \ {w} : From(v, st.file) = From(v, f)

\* Put moves parts of w to the file or keeps them, adds its own behind them and
\* touches the parts of nobody else.
LEMMA PutKeeps ==
  ASSUME NEW w \in Writers, NEW f \in Seq(Parts), NEW b, PartsOf(w, b),
         NEW e \in Parts, e.writer = w
  PROVE  Holding(Put([file |-> f, buffer |-> b], e), w, f, b, e)
<1> DEFINE st == Put([file |-> f, buffer |-> b], e)
<1> SUFFICES Holding(st, w, f, b, e)
  OBVIOUS
<1>1. b \in Seq(Parts) /\ \A i \in 1..Len(b) : b[i].writer = w
  BY DEF PartsOf
<1>2. From(w, f) \in Seq(Parts)
  BY FromType
<1>3. CASE Len(b) = Capacity
  <2>1. st = [file |-> f \o b, buffer |-> <<e>>]
    BY <1>3 DEF Put
  <2>2. f \o b \in Seq(Parts) /\ From(w, f) \o b \in Seq(Parts)
    BY <1>1, <1>2, ConcatProperties
  <2>3. PartsOf(w, <<e>>)
    BY DEF PartsOf
  <2>4. From(w, f \o b) = From(w, f) \o b
    BY <1>1, FromConcat DEF Adds
  <2>5. \A v \in Writers \ {w} : From(v, f \o b) = From(v, f)
    BY <1>1, FromConcat DEF Adds
  <2>6. (From(w, f) \o b) \o <<e>> = Append(From(w, f) \o b, e)
    BY <2>2
  <2>7. st.file = f \o b /\ st.buffer = <<e>> /\ st = [file |-> st.file, buffer |-> st.buffer]
    BY <2>1
  <2> HIDE DEF st
  <2> QED
    BY <2>2, <2>3, <2>4, <2>5, <2>6, <2>7 DEF Holding
<1>4. CASE Len(b) # Capacity
  <2>1. st = [file |-> f, buffer |-> Append(b, e)]
    BY <1>4 DEF Put
  <2>2. PartsOf(w, Append(b, e))
    BY <1>1 DEF PartsOf
  <2>3. From(w, f) \o Append(b, e) = Append(From(w, f) \o b, e)
    BY <1>1, <1>2, ConcatAppend
  <2>4. st.file = f /\ st.buffer = Append(b, e) /\ st = [file |-> st.file, buffer |-> st.buffer]
    BY <2>1
  <2> HIDE DEF st
  <2> QED
    BY <2>2, <2>3, <2>4 DEF Holding
<1> QED
  BY <1>3, <1>4

\* Where the lines are: what a step has to keep of the file and the buffers.
Placed(f, b, a) ==
  /\ f \in Seq(Parts) /\ b \in [Writers -> Seq(Parts)] /\ a \in [Writers -> Seq(Parts)]
  /\ \A w \in Writers : PartsOf(w, b[w]) /\ From(w, f) \o b[w] = a[w]

\* Flush moves the buffer of a writer behind what the file has.
LEMMA FlushKeeps ==
  ASSUME Placed(file, buffer, accepted), NEW w \in Writers, Flush(w)
  PROVE  Placed(file', buffer', accepted)
<1> DEFINE b == buffer[w]
<1>1. b \in Seq(Parts) /\ PartsOf(w, b) /\ file \in Seq(Parts)
  BY DEF Placed
<1>2. file' = file \o b /\ buffer' = [buffer EXCEPT ![w] = <<>>]
  BY DEF Flush
<1>3. file' \in Seq(Parts) /\ <<>> \in Seq(Parts)
  BY <1>1, <1>2, ConcatProperties
<1>4. buffer' \in [Writers -> Seq(Parts)]
  BY <1>2, <1>3 DEF Placed
<1>5. ASSUME NEW v \in Writers
      PROVE  PartsOf(v, buffer'[v]) /\ From(v, file') \o buffer'[v] = accepted[v]
  <2>1. Adds(v, w, file, b)
    BY <1>1, FromConcat DEF PartsOf
  <2>2. CASE v = w
    <3>1. From(v, file') = accepted[v] /\ accepted[v] \in Seq(Parts)
      BY Zenon, <1>2, <2>1, <2>2 DEF Adds, Placed
    <3>2. buffer'[v] = <<>>
      BY <1>2, <2>2 DEF Placed
    <3>3. PartsOf(v, <<>>)
      BY DEF PartsOf
    <3> QED
      BY <3>1, <3>2, <3>3, ConcatEmptySeq
  <2>3. CASE v # w
    BY <1>2, <2>1, <2>3 DEF Adds, Placed
  <2> QED
    BY <2>2, <2>3
<1> QED
  BY <1>3, <1>4, <1>5 DEF Placed

\* A line that is accepted is in the file and the buffer, behind the others.
LEMMA WriteKeeps ==
  ASSUME Placed(file, buffer, accepted), lines \in Nat,
         NEW w \in Writers, WriteLine(w), ~closed[w]
  PROVE  Placed(file', buffer', accepted')
<1> DEFINE text == [writer |-> w, line |-> lines', part |-> "text"]
           newline == [writer |-> w, line |-> lines', part |-> "newline"]
           one == Put([file |-> file, buffer |-> buffer[w]], text)
           two == Put(one, newline)
<1>1. lines' \in Nat
  BY DEF WriteLine
<1>2. text \in Parts /\ newline \in Parts /\ text.writer = w /\ newline.writer = w
  BY <1>1 DEF Parts
<1>3. newline = [text EXCEPT !.part = "newline"]
  OBVIOUS
<1>4. /\ file' = two.file
      /\ buffer' = [buffer EXCEPT ![w] = two.buffer]
      /\ accepted' = [accepted EXCEPT ![w] = @ \o <<text, newline>>]
  BY Zenon, <1>3 DEF WriteLine
<1> HIDE DEF text, newline
<1>5. file \in Seq(Parts) /\ PartsOf(w, buffer[w]) /\ From(w, file) \o buffer[w] = accepted[w]
      /\ accepted[w] \in Seq(Parts)
  BY DEF Placed
<1>6. Holding(one, w, file, buffer[w], text)
  BY <1>2, <1>5, PutKeeps
<1> HIDE DEF one
<1>61. Holding(two, w, one.file, one.buffer, newline)
  <2>1. one = [file |-> one.file, buffer |-> one.buffer] /\ one.file \in Seq(Parts) /\ PartsOf(w, one.buffer)
    BY <1>6 DEF Holding
  <2> QED
    BY <1>2, <2>1, PutKeeps
<1> HIDE DEF two
<1>7. /\ two.file \in Seq(Parts) /\ PartsOf(w, two.buffer)
      /\ From(w, two.file) \o two.buffer = Append(Append(accepted[w], text), newline)
      /\ \A v \in Writers \ {w} : From(v, two.file) = From(v, file)
  BY <1>5, <1>6, <1>61 DEF Holding
<1>8. accepted[w] \o <<text, newline>> = Append(Append(accepted[w], text), newline)
  BY <1>2, <1>5
<1>9. accepted[w] \o <<text, newline>> \in Seq(Parts) /\ two.buffer \in Seq(Parts)
  <2>1. Append(accepted[w], text) \in Seq(Parts)
    BY <1>2, <1>5
  <2>2. Append(Append(accepted[w], text), newline) \in Seq(Parts)
    BY <1>2, <2>1
  <2>3. two.buffer \in Seq(Parts)
    BY Zenon, <1>7 DEF PartsOf
  <2> QED
    BY Zenon, <1>8, <2>2, <2>3
<1>10. ASSUME NEW v \in Writers
       PROVE  PartsOf(v, buffer'[v]) /\ From(v, file') \o buffer'[v] = accepted'[v]
  <2>1. CASE v = w
    <3>1. buffer'[v] = two.buffer /\ accepted'[v] = Append(Append(accepted[w], text), newline)
      BY <1>4, <1>8, <2>1 DEF Placed
    <3> QED
      BY Zenon, <1>4, <1>7, <2>1, <3>1
  <2>2. CASE v # w
    <3>1. buffer'[v] = buffer[v] /\ accepted'[v] = accepted[v] /\ From(v, file') = From(v, file)
      BY <1>4, <1>7, <2>2 DEF Placed
    <3> QED
      BY <3>1 DEF Placed
  <2> QED
    BY <2>1, <2>2
<1>11. buffer' \in [Writers -> Seq(Parts)] /\ accepted' \in [Writers -> Seq(Parts)]
  BY <1>4, <1>9 DEF Placed
<1> QED
  BY Zenon, <1>4, <1>7, <1>10, <1>11 DEF Placed

\* Every step keeps the lines where they belong.
LEMMA PlacedStep ==
  ASSUME LogInv, [LogNext]_logVars
  PROVE  Placed(file', buffer', accepted')
<1>1. Placed(file, buffer, accepted) /\ lines \in Nat /\ target \in [Closers -> Writers]
  BY DEF LogInv, LogTypeOK, OwnBuffer, NothingLost, Placed
<1>2. CASE UNCHANGED <<file, buffer, accepted>>
  BY <1>1, <1>2
<1>3. ASSUME NEW w \in Writers, Flush(w), UNCHANGED accepted
      PROVE  Placed(file', buffer', accepted')
  BY <1>1, <1>3, FlushKeeps
<1>4. ASSUME NEW w \in Writers, Open(w) \/ WriteLine(w) \/ FlusherTick(w) \/ FlusherStop(w)
      PROVE  Placed(file', buffer', accepted')
  <2>1. CASE WriteLine(w) /\ ~closed[w]
    BY <1>1, <2>1, WriteKeeps
  <2>2. CASE WriteLine(w) /\ closed[w]
    BY <1>2, <2>2 DEF WriteLine
  <2>3. CASE FlusherTick(w)
    BY <1>2, <1>3, <2>3 DEF FlusherTick
  <2>4. CASE Open(w) \/ FlusherStop(w)
    BY <1>2, <2>4 DEF Open, FlusherStop
  <2> QED
    BY <1>4, <2>1, <2>2, <2>3, <2>4
<1>5. ASSUME NEW c \in Closers, CloseStep(c) \/ \E w \in Writers : CallClose(c, w)
      PROVE  Placed(file', buffer', accepted')
  <2>1. CASE CloseFile(c)
    <3>1. target[c] \in Writers
      BY <1>1
    <3> QED
      BY <1>2, <1>3, <2>1, <3>1 DEF CloseFile
  <2>2. CASE CloseOnceDo(c) \/ CloseAwaitFlusher(c) \/ \E w \in Writers : CallClose(c, w)
    BY <1>2, <2>2 DEF CloseOnceDo, CloseAwaitFlusher, CallClose
  <2> QED
    BY <1>5, <2>1, <2>2 DEF CloseStep
<1>6. CASE UNCHANGED logVars
  BY <1>2, <1>6 DEF logVars
<1> QED
  BY <1>4, <1>5, <1>6 DEF LogNext

\* A writer that is closed has flushed its buffer and takes no other line.
LEMMA EmptyStep ==
  ASSUME LogInv, [LogNext]_logVars, NEW v \in Writers, closed'[v]
  PROVE  buffer'[v] = <<>>
<1>1. /\ closed \in [Writers -> BOOLEAN] /\ buffer \in [Writers -> Seq(Parts)]
      /\ target \in [Closers -> Writers]
      /\ closed[v] => buffer[v] = <<>>
  BY DEF LogInv, LogTypeOK, NothingLost
<1>2. ASSUME NEW w \in Writers, Open(w) \/ WriteLine(w) \/ FlusherTick(w) \/ FlusherStop(w)
      PROVE  buffer'[v] = <<>>
  <2>1. closed[v]
    BY <1>2 DEF Open, WriteLine, FlusherTick, FlusherStop
  <2>2. CASE WriteLine(w)
    BY <1>1, <2>1, <2>2 DEF WriteLine
  <2>3. CASE Open(w) \/ FlusherTick(w) \/ FlusherStop(w)
    BY <1>1, <2>1, <2>3 DEF Open, FlusherTick, FlusherStop, Flush
  <2> QED
    BY <1>2, <2>2, <2>3
<1>3. ASSUME NEW c \in Closers, CloseStep(c) \/ \E w \in Writers : CallClose(c, w)
      PROVE  buffer'[v] = <<>>
  <2>1. CASE CloseFile(c)
    <3>1. CASE v = target[c]
      BY <1>1, <2>1, <3>1 DEF CloseFile, Flush
    <3>2. CASE v # target[c]
      BY <1>1, <2>1, <3>2 DEF CloseFile, Flush
    <3> QED
      BY <3>1, <3>2
  <2>2. CASE CloseOnceDo(c) \/ CloseAwaitFlusher(c) \/ \E w \in Writers : CallClose(c, w)
    BY <1>1, <2>2 DEF CloseOnceDo, CloseAwaitFlusher, CallClose
  <2> QED
    BY <1>3, <2>1, <2>2 DEF CloseStep
<1>4. CASE UNCHANGED logVars
  BY <1>1, <1>4 DEF logVars
<1> QED
  BY <1>2, <1>3, <1>4 DEF LogNext

\* Every step keeps the types of the goroutines' state.
LEMMA LogTypeStep ==
  ASSUME LogInv, [LogNext]_logVars
  PROVE  LogTypeOK'
<1>1. file' \in Seq(Parts) /\ buffer' \in [Writers -> Seq(Parts)] /\ accepted' \in [Writers -> Seq(Parts)]
  BY PlacedStep DEF Placed
<1>2. LogTypeOK
  BY DEF LogInv
<1>3. ASSUME NEW w \in Writers, Open(w) \/ WriteLine(w) \/ FlusherTick(w) \/ FlusherStop(w)
      PROVE  LogTypeOK'
  <2>1. CASE Open(w) \/ FlusherStop(w)
    <3>1. flusher' \in [Writers -> {"none", "running", "returned"}]
      <4>1. \E p \in {"running", "returned"} : flusher' = [flusher EXCEPT ![w] = p]
        BY <2>1 DEF Open, FlusherStop
      <4> QED
        BY <1>2, <4>1 DEF LogTypeOK
    <3>2. doneCh' \in [Writers -> BOOLEAN]
      BY Zenon, <1>2, <2>1 DEF LogTypeOK, Open, FlusherStop
    <3>3. UNCHANGED <<lines, closed, stopCh, once, cpc, target>>
      BY <2>1 DEF Open, FlusherStop
    <3> QED
      BY <1>1, <1>2, <3>1, <3>2, <3>3 DEF LogTypeOK
  <2>2. CASE WriteLine(w) \/ FlusherTick(w)
    <3>1. lines' \in Nat /\ UNCHANGED <<closed, stopCh, doneCh, flusher, once, cpc, target>>
      BY <1>2, <2>2 DEF LogTypeOK, WriteLine, FlusherTick
    <3> QED
      BY <1>1, <1>2, <3>1 DEF LogTypeOK
  <2> QED
    BY <1>3, <2>1, <2>2
<1>4. ASSUME NEW c \in Closers, CloseStep(c)
      PROVE  LogTypeOK'
  <2>1. CASE CloseOnceDo(c)
    BY Zenon, <1>1, <1>2, <2>1 DEF LogTypeOK, CloseOnceDo
  <2>2. CASE CloseAwaitFlusher(c)
    BY <1>1, <1>2, <2>2 DEF LogTypeOK, CloseAwaitFlusher
  <2>3. CASE CloseFile(c)
    BY <1>1, <1>2, <2>3 DEF LogTypeOK, CloseFile
  <2> QED
    BY <1>4, <2>1, <2>2, <2>3 DEF CloseStep
<1>5. ASSUME NEW c \in Closers, NEW w \in Writers, CallClose(c, w)
      PROVE  LogTypeOK'
  BY <1>1, <1>2, <1>5 DEF LogTypeOK, CallClose
<1>6. CASE UNCHANGED logVars
  BY <1>2, <1>6 DEF LogTypeOK, logVars
<1> QED
  BY <1>3, <1>4, <1>5, <1>6 DEF LogNext

\* Every step keeps the order of the steps of Close() and the flusher.
LEMMA OrderStep ==
  ASSUME LogInv, [LogNext]_logVars
  PROVE  CloseOrder'
<1>1. LogTypeOK /\ CloseOrder
  BY DEF LogInv
<1>2. ASSUME NEW w \in Writers, Open(w) \/ WriteLine(w) \/ FlusherTick(w) \/ FlusherStop(w)
      PROVE  CloseOrder'
  <2>1. CASE Open(w)
    BY <1>1, <2>1 DEF LogTypeOK, CloseOrder, Open
  <2>2. CASE WriteLine(w) \/ FlusherTick(w)
    BY <1>1, <2>2 DEF LogTypeOK, CloseOrder, WriteLine, FlusherTick
  <2>3. CASE FlusherStop(w)
    BY <1>1, <2>3 DEF LogTypeOK, CloseOrder, FlusherStop
  <2> QED
    BY <1>2, <2>1, <2>2, <2>3
<1>3. ASSUME NEW c \in Closers, CloseOnceDo(c)
      PROVE  CloseOrder'
  <2> DEFINE w == target[c]
  <2>1. w \in Writers /\ UNCHANGED <<closed, doneCh, flusher, target>>
    BY <1>1, <1>3 DEF LogTypeOK, CloseOnceDo
  <2>2. CASE once[w] = "new" /\ once' = [once EXCEPT ![w] = "running"] /\ cpc' = [cpc EXCEPT ![c] = "waitDone"]
    BY <1>1, <2>1, <2>2 DEF LogTypeOK, CloseOrder
  <2>3. CASE once[w] = "done" /\ cpc' = [cpc EXCEPT ![c] = "lock"] /\ UNCHANGED once
    BY <1>1, <2>1, <2>3 DEF LogTypeOK, CloseOrder
  <2> QED
    BY <1>3, <2>2, <2>3 DEF CloseOnceDo
<1>4. ASSUME NEW c \in Closers, CloseAwaitFlusher(c)
      PROVE  CloseOrder'
  BY <1>1, <1>4 DEF LogTypeOK, CloseOrder, CloseAwaitFlusher
<1>5. ASSUME NEW c \in Closers, CloseFile(c)
      PROVE  CloseOrder'
  BY <1>1, <1>5 DEF LogTypeOK, CloseOrder, CloseFile
<1>6. ASSUME NEW c \in Closers, NEW w \in Writers, CallClose(c, w)
      PROVE  CloseOrder'
  BY <1>1, <1>6 DEF LogTypeOK, CloseOrder, CallClose
<1>7. CASE UNCHANGED logVars
  BY <1>1, <1>7 DEF CloseOrder, logVars
<1> QED
  BY <1>2, <1>3, <1>4, <1>5, <1>6, <1>7 DEF LogNext, CloseStep

\* The invariant behind both theorems.
THEOREM LogInvariant == LogSpec => []LogInv
<1>1. LogInit => LogInv
  <2> SUFFICES ASSUME LogInit PROVE LogInv
    OBVIOUS
  <2>1. LogTypeOK /\ CloseOrder
    BY DEF LogInit, LogTypeOK, CloseOrder
  <2>2. ASSUME NEW w \in Writers
        PROVE  PartsOf(w, buffer[w])
    <3>1. PartsOf(w, <<>>)
      BY DEF PartsOf
    <3> QED
      BY <3>1 DEF LogInit
  <2>3. ASSUME NEW w \in Writers
        PROVE  From(w, file) \o buffer[w] = accepted[w]
    BY FromEmpty DEF LogInit
  <2>4. NothingLost
    BY Zenon, <2>3 DEF LogInit, NothingLost
  <2> QED
    BY <2>1, <2>2, <2>4 DEF LogInv, OwnBuffer
<1>2. LogInv /\ [LogNext]_logVars => LogInv'
  <2> SUFFICES ASSUME LogInv, [LogNext]_logVars PROVE LogInv'
    OBVIOUS
  <2>1. OwnBuffer'
    BY PlacedStep DEF Placed, OwnBuffer
  <2>2. NothingLost'
    BY PlacedStep, EmptyStep DEF Placed, NothingLost
  <2> QED
    BY <2>1, <2>2, LogTypeStep, OrderStep DEF LogInv
<1> QED
  BY <1>1, <1>2, PTL DEF LogSpec

\* No line that writeLine accepted is lost, doubled or reordered, however many
\* writers append to the file, and all of them are in it after Close().
THEOREM NoLineIsLost == LogSpec => []NothingLost
<1>1. LogInv => NothingLost
  BY DEF LogInv
<1> QED
  BY <1>1, LogInvariant, PTL

\* Close() closes the file only when the flusher goroutine has returned.
THEOREM FlusherReturnsFirst == LogSpec => []FlusherGoneBeforeClose
<1>1. LogInv => FlusherGoneBeforeClose
  BY DEF LogInv, CloseOrder, FlusherGoneBeforeClose
<1> QED
  BY <1>1, LogInvariant, PTL

=============================================================================
