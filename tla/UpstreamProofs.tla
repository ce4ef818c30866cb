---------------------------- MODULE UpstreamProofs ----------------------------
(***************************************************************************)
(* Proofs about Upstream, for any number of requests and of pooled         *)
(* traceTimings and whatever the goroutines of the transport do.           *)
(***************************************************************************)
EXTENDS Upstream, FiniteSetTheorems, WellFoundedInduction, TLAPS

-----------------------------------------------------------------------------
(* Induction, stated for a set of numbers instead of a predicate *)

\* A set of natural numbers has a least element.
LEMMA LeastElement ==
  ASSUME NEW T, T \subseteq Nat, T # {}
  PROVE  \E n \in T : \A m \in T : n <= m
<1> DEFINE R == OpToRel(<, Nat)
<1>1. IsWellFoundedOn(R, Nat)
  BY Zenon, NatLessThanWellFounded
<1>2. \A y, x \in Nat : <<y, x>> \in R <=> y < x
  BY DEF OpToRel
<1> HIDE DEF R
<1>3. PICK n \in T : \A m \in T : <<m, n>> \notin R
  BY Zenon, <1>1, WFMin
<1>4. ASSUME NEW m \in T
      PROVE  n <= m
  <2>1. m \in Nat /\ n \in Nat
    OBVIOUS
  <2>2. ~(m < n)
    BY Zenon, <1>2, <1>3, <2>1
  <2> QED
    BY <2>1, <2>2
<1> QED
  BY <1>4

\* A set that has 0 and the successors of its members has every natural number.
LEMMA SetInduction ==
  ASSUME NEW S, 0 \in S, \A n \in Nat : n \in S => n + 1 \in S
  PROVE  Nat \subseteq S
<1> SUFFICES ASSUME Nat \ S # {} PROVE FALSE
  OBVIOUS
<1> PICK n \in Nat \ S : \A m \in Nat \ S : n <= m
  BY Zenon, LeastElement
<1>1. n # 0 /\ n - 1 \in Nat
  OBVIOUS
<1>2. n - 1 \in S
  BY <1>1
<1> QED
  BY <1>1, <1>2

-----------------------------------------------------------------------------
(* Upstream *)

USE UpstreamAssumption

Labels == {"new", "connect", "sent", "body", "failed", "copied", "returning", "answered", "done"}
Statuses == Classes \cup {"none", "502", "504"}
ErrorTypes == {"connect_error", "tls_error", "write_error", "timeout", "read_error", "bad_gateway"}
Records == [class : Statuses, error : ErrorTypes \cup {"none", "unset"}, others : SUBSET Requests]
Dials == {"none", "connecting", "handshake", "ready", "failed"}

TypeOK ==
  /\ pc \in [Requests -> Labels]
  /\ obj \in [Requests -> Objects \cup {NoOne}]
  /\ pool \in SUBSET Objects
  /\ timing \in [Objects -> [Fields -> Requests \cup {NoOne}]]
  /\ dial \in [Requests -> Dials]
  /\ writer \in [Requests -> {"none", "busy"}]
  /\ reader \in [Requests -> {"none", "busy", "head"}]
  /\ err \in [Requests -> {NoOne, "timeout", "other"}]
  /\ status \in [Requests -> Statuses]
  /\ whole \in [Requests -> BOOLEAN]
  /\ answer \in [Requests -> Classes \cup {"none"}]
  /\ seen \in [Requests -> Records]
  /\ late \in [Requests -> SUBSET Requests]

\* A callback has an object to write to.
HasObject ==
  \A r \in Requests :
    Holds(r) \/ dial[r] # "none" \/ writer[r] # "none" \/ reader[r] # "none" => obj[r] \in Objects

\* An object is in the pool or with one request.
Exclusive ==
  \A r \in Requests : Holds(r) =>
    /\ obj[r] \notin pool
    /\ \A q \in Requests : Holds(q) /\ obj[q] = obj[r] => q = r

\* The fields of an object come from the request that has it, or from one
\* that is late.
OwnMarks ==
  \A r \in Requests : Holds(r) => \A f \in Fields : timing[obj[r]][f] \in {NoOne, r} \cup late[r]

TimingInv == TypeOK /\ HasObject /\ Exclusive /\ OwnMarks /\ OwnTimings

\* What is known of a request where its goroutine is at label: its answer, its
\* error, the status and the body in the Response, and what was recorded.
Known(label, ans, e, code, body, record) ==
  /\ label \in {"new", "connect", "sent"} => ans = "none" /\ e = NoOne
  /\ label = "body" => ans = code /\ e = NoOne
  /\ label = "failed" => ans = "none" /\ e # NoOne
  /\ label = "copied" => ans = code /\ (e = NoOne => body = TRUE)
  /\ label = "returning" =>
       /\ record.class = ans
       /\ record.error = "none" <=> e = NoOne
       /\ record.error = "timeout" => e = "timeout"
       /\ e = NoOne => ans = code /\ body = TRUE

Progress == \A r \in Requests : Known(pc[r], answer[r], err[r], status[r], whole[r], seen[r])

-----------------------------------------------------------------------------
(* traceTimings *)

\* The effect of a callback on the fields.
LEMMA StampTypes ==
  ASSUME TypeOK, NEW r \in Requests, obj[r] \in Objects, NEW set, NEW clear, Stamp(r, set, clear)
  PROVE  /\ timing' \in [Objects -> [Fields -> Requests \cup {NoOne}]]
         /\ late' \in [Requests -> SUBSET Requests]
         /\ \A q \in Requests : late[q] \subseteq late'[q]
         /\ \A o \in Objects \ {obj[r]} : timing'[o] = timing[o]
         /\ \A f \in Fields : timing'[obj[r]][f] \in {NoOne, r, timing[obj[r]][f]}
         /\ \A q \in Requests \ {r} : Holds(q) /\ obj[q] = obj[r] /\ ~Holds(r) => r \in late'[q]
<1> DEFINE new == [f \in Fields |-> IF f \in set THEN r ELSE IF f \in clear THEN NoOne ELSE timing[obj[r]][f]]
<1>1. timing' = [timing EXCEPT ![obj[r]] = new]
  BY DEF Stamp
<1>2. /\ timing[obj[r]] \in [Fields -> Requests \cup {NoOne}]
      /\ timing \in [Objects -> [Fields -> Requests \cup {NoOne}]]
      /\ late \in [Requests -> SUBSET Requests]
  BY DEF TypeOK
<1>3. new \in [Fields -> Requests \cup {NoOne}] /\ \A f \in Fields : new[f] \in {NoOne, r, timing[obj[r]][f]}
  BY <1>2
<1> HIDE DEF new
<1>4. /\ timing' \in [Objects -> [Fields -> Requests \cup {NoOne}]]
      /\ timing'[obj[r]] = new
      /\ \A o \in Objects \ {obj[r]} : timing'[o] = timing[o]
  BY <1>1, <1>2, <1>3
<1>5. /\ late' \in [Requests -> SUBSET Requests]
      /\ \A q \in Requests : late[q] \subseteq late'[q]
      /\ \A q \in Requests \ {r} : Holds(q) /\ obj[q] = obj[r] /\ ~Holds(r) => r \in late'[q]
  BY <1>2 DEF Stamp
<1> QED
  BY <1>3, <1>4, <1>5

\* A callback writes to the object of its own request, or it is late for the
\* request that has the object now.
LEMMA StampKeeps ==
  ASSUME TimingInv, NEW r \in Requests, obj[r] \in Objects, NEW set, NEW clear, Stamp(r, set, clear),
         UNCHANGED <<obj, pool, seen>>, \A q \in Requests : Holds(q)' = Holds(q)
  PROVE  Exclusive' /\ OwnMarks' /\ OwnTimings'
<1>1. TypeOK /\ HasObject /\ Exclusive /\ OwnMarks /\ OwnTimings
  BY DEF TimingInv
<1>2. Exclusive'
  BY <1>1 DEF Exclusive
<1>3. OwnTimings'
  BY <1>1, StampTypes DEF OwnTimings
<1>4. ASSUME NEW q \in Requests, Holds(q), NEW f \in Fields
      PROVE  timing'[obj[q]][f] \in {NoOne, q} \cup late'[q]
  <2>1. obj[q] \in Objects /\ timing[obj[q]][f] \in {NoOne, q} \cup late[q] /\ late[q] \subseteq late'[q]
    BY <1>1, <1>4, StampTypes DEF HasObject, OwnMarks
  <2>2. CASE obj[q] # obj[r]
    BY <1>1, <2>1, <2>2, StampTypes
  <2>3. CASE obj[q] = obj[r]
    <3>1. timing'[obj[q]][f] \in {NoOne, r, timing[obj[q]][f]}
      BY <1>1, <2>3, StampTypes
    <3>2. q = r \/ r \in late'[q]
      BY <1>1, <1>4, <2>3, StampTypes DEF Exclusive
    <3> QED
      BY <2>1, <3>1, <3>2
  <2> QED
    BY <2>2, <2>3
<1>5. OwnMarks'
  BY <1>4 DEF OwnMarks
<1> QED
  BY <1>2, <1>3, <1>5

\* What Observe reports of an object comes from its fields.
LEMMA ReportedFields ==
  ASSUME NEW t \in [Fields -> Requests \cup {NoOne}], NEW e
  PROVE  /\ SnapshotFrom(t) \cup ErrorFrom(t) \subseteq {t[f] : f \in Fields} \ {NoOne}
         /\ ClassifyErrorType(e, t) \in ErrorTypes
         /\ ClassifyErrorType(e, t) = "timeout" => e = "timeout"
<1>1. ErrorFrom(t) \subseteq {t[f] : f \in Fields} \ {NoOne}
  BY DEF ErrorFrom, Fields
<1>2. \A p \in DOMAIN PhaseFields : PhaseFields[p] \subseteq Fields
  BY DEF PhaseFields, Fields
<1>3. "tlsDone" \in Fields
  BY DEF Fields
<1>4. SnapshotFrom(t) \subseteq {t[f] : f \in Fields} \ {NoOne}
  <2> DEFINE phases == UNION {PhaseFields[p] : p \in Measured(t)}
             begin == IF t["wrote"] = NoOne THEN {} ELSE {"tlsDone"}
             used == phases \cup begin
  <2>1. used \subseteq Fields
    <3>1. Measured(t) \subseteq DOMAIN PhaseFields
      BY DEF Measured
    <3>2. \A p \in Measured(t) : PhaseFields[p] \subseteq Fields
      BY <1>2, <3>1
    <3>3. phases \subseteq Fields
      BY <3>2
    <3>4. begin \subseteq Fields
      BY <1>3
    <3> HIDE DEF phases, begin
    <3> QED
      BY <3>3, <3>4
  <2>2. SnapshotFrom(t) = {t[f] : f \in used} \ {NoOne}
    BY DEF SnapshotFrom
  <2> HIDE DEF used
  <2> QED
    BY <2>1, <2>2
<1>5. ClassifyErrorType(e, t) \in ErrorTypes
  BY DEF ClassifyErrorType, ErrorTypes
<1>6. ClassifyErrorType(e, t) = "timeout" => e = "timeout"
  BY DEF ClassifyErrorType
<1> QED
  BY <1>1, <1>4, <1>5, <1>6

\* The record that Observe makes is of the events of the request, or of those
\* whose callbacks were late.
LEMMA ObserveReports ==
  ASSUME TimingInv, NEW r \in Requests, Observe(r)
  PROVE  \E class \in Statuses, error \in ErrorTypes \cup {"none"}, others \in SUBSET Requests :
           /\ seen' = [seen EXCEPT ![r] = [class |-> class, error |-> error, others |-> others]]
           /\ others \subseteq late[r]
           /\ class = IF pc[r] = "copied" THEN status[r] ELSE "none"
           /\ error = "none" <=> err[r] = NoOne
           /\ error = "timeout" => err[r] = "timeout"
<1> DEFINE t == timing[obj[r]]
           class == IF pc[r] = "copied" THEN status[r] ELSE "none"
           error == IF err[r] = NoOne THEN "none" ELSE ClassifyErrorType(err[r], t)
           others == (SnapshotFrom(t) \cup (IF err[r] = NoOne THEN {} ELSE ErrorFrom(t))) \ {r}
<1>1. Holds(r) /\ obj[r] \in Objects
  BY DEF Observe, Holds, TimingInv, HasObject
<1>2. t \in [Fields -> Requests \cup {NoOne}] /\ \A f \in Fields : t[f] \in {NoOne, r} \cup late[r]
  BY <1>1 DEF TimingInv, TypeOK, OwnMarks
<1>3. seen' = [seen EXCEPT ![r] = [class |-> class, error |-> error, others |-> others]]
  BY DEF Observe
<1>4. status[r] \in Statuses /\ late[r] \in SUBSET Requests
  BY DEF TimingInv, TypeOK
<1> HIDE DEF t
<1>5. others \subseteq late[r] /\ others \subseteq Requests
  BY <1>2, <1>4, ReportedFields
<1>6. class \in Statuses
  BY <1>4 DEF Statuses
<1>7. /\ error \in ErrorTypes \cup {"none"}
      /\ error = "none" <=> err[r] = NoOne
      /\ error = "timeout" => err[r] = "timeout"
  <2>1. /\ ClassifyErrorType(err[r], t) \in ErrorTypes
        /\ ClassifyErrorType(err[r], t) = "timeout" => err[r] = "timeout"
    BY <1>2, ReportedFields
  <2>2. "none" \notin ErrorTypes
    BY DEF ErrorTypes
  <2> QED
    BY <2>1, <2>2
<1>8. class = IF pc[r] = "copied" THEN status[r] ELSE "none"
  OBVIOUS
<1> HIDE DEF error, others, class
<1> QED
  BY Zenon, <1>3, <1>5, <1>6, <1>7, <1>8

\* Every step keeps the types.
LEMMA TypeStep ==
  ASSUME TimingInv, [Next]_vars
  PROVE  TypeOK'
<1>1. TypeOK /\ HasObject
  BY DEF TimingInv
<1>2. ASSUME NEW r \in Requests, LeaveBehind(r)
      PROVE  /\ dial' \in [Requests -> Dials]
             /\ writer' \in [Requests -> {"none", "busy"}]
             /\ reader' \in [Requests -> {"none", "busy", "head"}]
  <2>1. PICK g \in {"dial", "writer", "reader"} :
          /\ dial' = [dial EXCEPT ![r] = IF g = "dial" /\ @ \in {"connecting", "handshake"} THEN @ ELSE "none"]
          /\ writer' = [writer EXCEPT ![r] = IF g = "writer" THEN @ ELSE "none"]
          /\ reader' = [reader EXCEPT ![r] = IF g = "reader" /\ @ = "busy" THEN @ ELSE "none"]
    BY Zenon, <1>2 DEF LeaveBehind
  <2>2. dial' \in [Requests -> Dials]
    BY <1>1, <2>1 DEF TypeOK, Dials
  <2>3. writer' \in [Requests -> {"none", "busy"}]
    BY <1>1, <2>1 DEF TypeOK
  <2>4. reader' \in [Requests -> {"none", "busy", "head"}]
    BY <1>1, <2>1 DEF TypeOK
  <2> QED
    BY <2>2, <2>3, <2>4
<1>3. ASSUME NEW r \in Requests, obj[r] \in Objects, NEW set, NEW clear, Stamp(r, set, clear)
      PROVE  timing' \in [Objects -> [Fields -> Requests \cup {NoOne}]] /\ late' \in [Requests -> SUBSET Requests]
  BY <1>1, <1>3, StampTypes
<1>4. Zero \in [Fields -> Requests \cup {NoOne}] /\ NotSeen \in Records
  <2>1. Zero \in [Fields -> Requests \cup {NoOne}]
    BY DEF Zero
  <2>2. NotSeen \in Records
    BY DEF NotSeen, Records, Statuses
  <2> QED
    BY <2>1, <2>2
<1>5. ASSUME NEW r \in Requests
      PROVE  Answers[r] \subseteq Statuses /\ Answers[r] \subseteq Classes
  BY DEF Statuses
<1>6. ASSUME NEW r \in Requests, ServeLocally(r) \/ InvalidTarget(r) \/ Begin(r)
      PROVE  TypeOK'
  <2>1. CASE ServeLocally(r)
    <3>1. PICK class \in Answers[r] : status' = [status EXCEPT ![r] = class]
      BY Zenon, <2>1 DEF ServeLocally
    <3>2. status' \in [Requests -> Statuses]
      BY <1>1, <1>5, <3>1 DEF TypeOK
    <3> QED
      BY <1>1, <2>1, <3>2 DEF TypeOK, ServeLocally, Goto, Labels, transport
  <2>2. CASE InvalidTarget(r)
    BY <1>1, <2>2 DEF TypeOK, InvalidTarget, Goto, Labels, Statuses, transport
  <2>3. CASE Begin(r)
    <3>1. PICK o \in pool :
            pool' = pool \ {o} /\ obj' = [obj EXCEPT ![r] = o] /\ timing' = [timing EXCEPT ![o] = Zero]
      BY Zenon, <2>3 DEF Begin
    <3>2. pool' \in SUBSET Objects /\ obj' \in [Requests -> Objects \cup {NoOne}]
      BY <1>1, <3>1 DEF TypeOK
    <3>3. timing' \in [Objects -> [Fields -> Requests \cup {NoOne}]]
      BY <1>1, <1>4, <3>1 DEF TypeOK
    <3> QED
      BY <1>1, <2>3, <3>2, <3>3 DEF TypeOK, Begin, Goto, Labels, transport
  <2> QED
    BY <1>6, <2>1, <2>2, <2>3
<1>7. ASSUME NEW r \in Requests, StartDial(r) \/ GotConn(r)
      PROVE  TypeOK'
  <2>1. obj[r] \in Objects
    BY <1>1, <1>7 DEF StartDial, GotConn, HasObject, Holds
  <2>2. CASE StartDial(r)
    BY <1>1, <1>3, <2>1, <2>2 DEF TypeOK, StartDial, Dials
  <2>3. CASE GotConn(r)
    BY <1>1, <2>3 DEF TypeOK, GotConn, Goto, Labels, Dials
  <2> QED
    BY <1>7, <2>2, <2>3
<1>8. ASSUME NEW r \in Requests, Dial(r) \/ WriteLoop(r) \/ ReadLoop(r)
      PROVE  TypeOK'
  <2>1. obj[r] \in Objects
    BY <1>1, <1>8 DEF Dial, WriteLoop, ReadLoop, HasObject
  <2>2. CASE Dial(r)
    <3>1. dial' \in [Requests -> Dials]
      <4>1. \E d \in Dials : dial' = [dial EXCEPT ![r] = d]
        BY <2>2 DEF Dial, DialEnds, Dials
      <4> QED
        BY <1>1, <4>1 DEF TypeOK
    <3>2. timing' \in [Objects -> [Fields -> Requests \cup {NoOne}]] /\ late' \in [Requests -> SUBSET Requests]
      BY <1>3, <2>1, <2>2 DEF Dial
    <3> QED
      BY <1>1, <2>2, <3>1, <3>2 DEF TypeOK, Dial
  <2>3. CASE WriteLoop(r)
    <3>1. timing' \in [Objects -> [Fields -> Requests \cup {NoOne}]] /\ late' \in [Requests -> SUBSET Requests]
      BY <1>3, <2>1, <2>3 DEF WriteLoop
    <3> QED
      BY Zenon, <1>1, <2>3, <3>1 DEF TypeOK, WriteLoop
  <2>4. CASE ReadLoop(r)
    <3>1. timing' \in [Objects -> [Fields -> Requests \cup {NoOne}]] /\ late' \in [Requests -> SUBSET Requests]
      BY <1>3, <2>1, <2>4 DEF ReadLoop
    <3>2. reader' \in [Requests -> {"none", "busy", "head"}]
      BY <1>1, <2>4 DEF TypeOK, ReadLoop
    <3> QED
      BY <1>1, <2>4, <3>1, <3>2 DEF TypeOK, ReadLoop
  <2> QED
    BY <1>8, <2>2, <2>3, <2>4
<1>9. ASSUME NEW r \in Requests, RoundTripFails(r) \/ Responds(r) \/ CopyBody(r) \/ TimesOut(r)
      PROVE  TypeOK'
  <2>1. CASE RoundTripFails(r)
    <3>1. err' \in [Requests -> {NoOne, "timeout", "other"}]
      BY <1>1, <2>1 DEF TypeOK, RoundTripFails
    <3>2. pc' \in [Requests -> Labels]
      BY <1>1, <2>1 DEF TypeOK, RoundTripFails, Goto, Labels
    <3> QED
      BY <1>1, <1>2, <2>1, <3>1, <3>2 DEF TypeOK, RoundTripFails
  <2>2. CASE Responds(r)
    <3>1. obj[r] \in Objects
      BY <1>1, <2>2 DEF Responds, HasObject, Holds
    <3>2. timing' \in [Objects -> [Fields -> Requests \cup {NoOne}]] /\ late' \in [Requests -> SUBSET Requests]
      BY <1>3, <2>2, <3>1 DEF Responds
    <3> QED
      <4>1. PICK c \in Answers[r] : status' = [status EXCEPT ![r] = c] /\ answer' = [answer EXCEPT ![r] = c]
        BY Zenon, <2>2 DEF Responds
      <4>2. status' \in [Requests -> Statuses] /\ answer' \in [Requests -> Classes \cup {"none"}]
        BY <1>1, <1>5, <4>1 DEF TypeOK
      <4>3. pc' \in [Requests -> Labels] /\ reader' \in [Requests -> {"none", "busy", "head"}]
        BY <1>1, <2>2 DEF TypeOK, Responds, Goto, Labels
      <4> QED
        BY <1>1, <2>2, <3>2, <4>2, <4>3 DEF TypeOK, Responds
  <2>3. CASE CopyBody(r)
    <3>1. err' \in [Requests -> {NoOne, "timeout", "other"}]
      BY <1>1, <2>3 DEF TypeOK, CopyBody
    <3>2. whole' \in [Requests -> BOOLEAN]
      BY Zenon, <1>1, <2>3 DEF TypeOK, CopyBody
    <3> QED
      BY <1>1, <1>2, <2>3, <3>1, <3>2 DEF TypeOK, CopyBody, Goto, Labels
  <2>4. CASE TimesOut(r)
    BY <1>1, <1>2, <2>4 DEF TypeOK, TimesOut, Goto, Labels
  <2> QED
    BY <1>9, <2>1, <2>2, <2>3, <2>4
<1>10. ASSUME NEW r \in Requests, Observe(r) \/ Return(r) \/ Account(r)
       PROVE  TypeOK'
  <2>1. CASE Observe(r)
    <3>1. seen' \in [Requests -> Records]
      <4>1. PICK class \in Statuses, error \in ErrorTypes \cup {"none"}, others \in SUBSET Requests :
              seen' = [seen EXCEPT ![r] = [class |-> class, error |-> error, others |-> others]]
        BY <2>1, ObserveReports
      <4>2. [class |-> class, error |-> error, others |-> others] \in Records
        BY DEF Records
      <4> QED
        BY <1>1, <4>1, <4>2 DEF TypeOK
    <3> QED
      BY <1>1, <2>1, <3>1 DEF TypeOK, Observe, Goto, Labels, transport
  <2>2. CASE Return(r)
    <3>1. obj[r] \in Objects
      BY <1>1, <2>2 DEF Return, HasObject, Holds
    <3>2. status' \in [Requests -> Statuses] /\ pool' \subseteq Objects /\ pc' \in [Requests -> Labels]
      BY <1>1, <2>2, <3>1 DEF TypeOK, Return, Statuses, Goto, Labels
    <3>3. whole' \in [Requests -> BOOLEAN] /\ seen' \in [Requests -> Records]
      BY <1>1, <1>4, <2>2 DEF TypeOK, Return, Forget
    <3>4. /\ timing' \in [Objects -> [Fields -> Requests \cup {NoOne}]]
          /\ err' \in [Requests -> {NoOne, "timeout", "other"}] /\ late' \in [Requests -> SUBSET Requests]
      BY <1>1, <1>4, <2>2, <3>1 DEF TypeOK, Return, Forget
    <3> QED
      BY <1>1, <2>2, <3>2, <3>3, <3>4 DEF TypeOK, Return, transport
  <2>3. CASE Account(r)
    BY <1>1, <2>3 DEF TypeOK, Account, Goto, Labels, Statuses, Classes, StatusClass, transport
  <2> QED
    BY <1>10, <2>1, <2>2, <2>3
<1>11. CASE UNCHANGED vars
  BY <1>1, <1>11 DEF TypeOK, vars
<1> QED
  BY <1>6, <1>7, <1>8, <1>9, <1>10, <1>11 DEF Next, Own

\* A step that leaves the objects alone, and gives none of them to a request.
LEMMA QuietStep ==
  ASSUME TimingInv, UNCHANGED <<obj, pool, timing, late>>, \A q \in Requests : Holds(q)' => Holds(q)
  PROVE  Exclusive' /\ OwnMarks'
BY DEF TimingInv, Exclusive, OwnMarks

\* A request holds its object from Begin to Return.
LEMMA HoldsStep ==
  ASSUME TypeOK, NEW r \in Requests,
         \/ ServeLocally(r) \/ InvalidTarget(r) \/ StartDial(r) \/ GotConn(r)
         \/ Dial(r) \/ WriteLoop(r) \/ ReadLoop(r)
         \/ RoundTripFails(r) \/ Responds(r) \/ CopyBody(r) \/ TimesOut(r) \/ Observe(r) \/ Account(r)
  PROVE  UNCHANGED <<obj, pool>> /\ \A q \in Requests : Holds(q)' = Holds(q)
<1>1. pc \in [Requests -> Labels]
  BY Zenon DEF TypeOK
<1>2. CASE ServeLocally(r) \/ InvalidTarget(r) \/ Account(r)
  <2>1. pc[r] \in {"new", "answered"} /\ UNCHANGED <<obj, pool>>
    BY <1>2 DEF ServeLocally, InvalidTarget, Account
  <2>2. \E label \in {"answered", "done"} : Goto(r, label)
    BY <1>2 DEF ServeLocally, InvalidTarget, Account
  <2> QED
    BY <1>1, <2>1, <2>2 DEF Goto, Holds
<1>3. CASE StartDial(r) \/ Dial(r) \/ WriteLoop(r) \/ ReadLoop(r)
  BY <1>1, <1>3 DEF StartDial, Dial, WriteLoop, ReadLoop, Holds
<1>4. CASE GotConn(r) \/ RoundTripFails(r) \/ Responds(r) \/ CopyBody(r) \/ Observe(r)
  <2>1. Holds(r) /\ UNCHANGED <<obj, pool>>
    BY Zenon, <1>4 DEF GotConn, RoundTripFails, Responds, CopyBody, Observe, Holds
  <2>2. \E label \in {"sent", "failed", "body", "copied", "returning"} : Goto(r, label)
    BY Zenon, <1>4 DEF GotConn, RoundTripFails, Responds, CopyBody, Observe
  <2> QED
    BY <1>1, <2>1, <2>2 DEF Goto, Holds
<1>5. CASE TimesOut(r)
  BY <1>1, <1>5 DEF TimesOut, Goto, Holds
<1> QED
  BY <1>2, <1>3, <1>4, <1>5

\* The goroutines of the transport have a trace only of a request that was sent.
LEMMA HasObjectStep ==
  ASSUME TimingInv, [Next]_vars
  PROVE  HasObject'
<1>1. TypeOK /\ HasObject
  BY DEF TimingInv
<1>2. ASSUME NEW r \in Requests, ServeLocally(r) \/ InvalidTarget(r) \/ Observe(r) \/ Account(r)
      PROVE  HasObject'
  <2>1. UNCHANGED <<obj, transport>> /\ \A q \in Requests : Holds(q)' = Holds(q)
    BY Zenon, <1>1, <1>2, HoldsStep DEF ServeLocally, InvalidTarget, Observe, Account
  <2> QED
    BY <1>1, <2>1 DEF HasObject, transport
<1>3. ASSUME NEW r \in Requests, Begin(r)
      PROVE  HasObject'
  <2>1. PICK o \in pool : obj' = [obj EXCEPT ![r] = o]
    BY Zenon, <1>3 DEF Begin
  <2>2. o \in Objects /\ UNCHANGED transport /\ \A q \in Requests \ {r} : Holds(q)' = Holds(q)
    BY <1>1, <1>3 DEF TypeOK, Begin, Goto, Holds
  <2> QED
    BY <1>1, <2>1, <2>2 DEF TypeOK, HasObject, transport
<1>4. ASSUME NEW r \in Requests, Return(r)
      PROVE  HasObject'
  <2>1. UNCHANGED <<obj, transport>> /\ \A q \in Requests : Holds(q)' => Holds(q)
    BY Zenon, <1>1, <1>4 DEF TypeOK, Return, Goto, Holds
  <2> QED
    BY <1>1, <2>1 DEF HasObject, transport
<1>5. ASSUME NEW r \in Requests, LeaveBehind(r), UNCHANGED obj, \A q \in Requests : Holds(q)' = Holds(q)
      PROVE  HasObject'
  <2>1. \A q \in Requests : /\ dial'[q] # "none" => dial[q] # "none"
                            /\ writer'[q] # "none" => writer[q] # "none"
                            /\ reader'[q] # "none" => reader[q] # "none"
    BY <1>1, <1>5 DEF TypeOK, LeaveBehind
  <2> QED
    BY <1>1, <1>5, <2>1 DEF HasObject
<1>6. ASSUME NEW r \in Requests, obj[r] \in Objects, UNCHANGED obj, \A q \in Requests : Holds(q)' = Holds(q),
             NEW d, dial' = [dial EXCEPT ![r] = d] \/ UNCHANGED dial,
             NEW w, writer' = [writer EXCEPT ![r] = w] \/ UNCHANGED writer,
             NEW h, reader' = [reader EXCEPT ![r] = h] \/ UNCHANGED reader
      PROVE  HasObject'
  BY <1>1, <1>6 DEF TypeOK, HasObject
<1>7. ASSUME NEW r \in Requests, StartDial(r) \/ GotConn(r) \/ Dial(r) \/ WriteLoop(r) \/ ReadLoop(r) \/ Responds(r)
      PROVE  HasObject'
  <2>1. obj[r] \in Objects
    BY Zenon, <1>1, <1>7 DEF StartDial, GotConn, Dial, WriteLoop, ReadLoop, Responds, HasObject, Holds
  <2>2. UNCHANGED obj /\ \A q \in Requests : Holds(q)' = Holds(q)
    BY <1>1, <1>7, HoldsStep
  <2>3. \E d : dial' = [dial EXCEPT ![r] = d] \/ UNCHANGED dial
    BY Zenon, <1>7 DEF StartDial, GotConn, Dial, DialEnds, WriteLoop, ReadLoop, Responds
  <2>4. \E w : writer' = [writer EXCEPT ![r] = w] \/ UNCHANGED writer
    BY Zenon, <1>7 DEF StartDial, GotConn, Dial, WriteLoop, ReadLoop, Responds
  <2>5. \E h : reader' = [reader EXCEPT ![r] = h] \/ UNCHANGED reader
    BY Zenon, <1>7 DEF StartDial, GotConn, Dial, WriteLoop, ReadLoop, Responds
  <2> QED
    BY <1>6, <2>1, <2>2, <2>3, <2>4, <2>5
<1>8. ASSUME NEW r \in Requests, RoundTripFails(r) \/ CopyBody(r) \/ TimesOut(r)
      PROVE  HasObject'
  BY <1>1, <1>5, <1>8, HoldsStep DEF RoundTripFails, CopyBody, TimesOut
<1>9. CASE UNCHANGED vars
  BY <1>1, <1>9 DEF HasObject, Holds, vars
<1> QED
  BY <1>2, <1>3, <1>4, <1>7, <1>8, <1>9 DEF Next, Own

\* Every step keeps the objects apart and their fields of the right requests.
LEMMA OwnStep ==
  ASSUME TimingInv, [Next]_vars
  PROVE  Exclusive' /\ OwnMarks' /\ OwnTimings'
<1>1. TypeOK /\ HasObject /\ Exclusive /\ OwnMarks /\ OwnTimings
  BY DEF TimingInv
<1>2. ASSUME NEW r \in Requests,
             ServeLocally(r) \/ InvalidTarget(r) \/ GotConn(r) \/ RoundTripFails(r) \/ CopyBody(r)
             \/ TimesOut(r) \/ Account(r)
      PROVE  Exclusive' /\ OwnMarks' /\ OwnTimings'
  <2>1. UNCHANGED <<timing, seen, late>>
    BY <1>2 DEF ServeLocally, InvalidTarget, GotConn, RoundTripFails, CopyBody, TimesOut, Account
  <2>2. OwnTimings'
    BY <1>1, <2>1 DEF OwnTimings
  <2> QED
    BY <1>1, <1>2, <2>1, <2>2, HoldsStep, QuietStep
<1>3. ASSUME NEW r \in Requests, StartDial(r) \/ Dial(r) \/ WriteLoop(r) \/ ReadLoop(r) \/ Responds(r)
      PROVE  Exclusive' /\ OwnMarks' /\ OwnTimings'
  <2>1. obj[r] \in Objects
    BY Zenon, <1>1, <1>3 DEF StartDial, Dial, WriteLoop, ReadLoop, Responds, HasObject, Holds
  <2>2. UNCHANGED <<obj, pool, seen>> /\ \A q \in Requests : Holds(q)' = Holds(q)
    BY Zenon, <1>1, <1>3, HoldsStep DEF StartDial, Dial, WriteLoop, ReadLoop, Responds
  <2>3. \E set, clear : Stamp(r, set, clear)
    BY Zenon, <1>3 DEF StartDial, Dial, WriteLoop, ReadLoop, Responds
  <2> QED
    BY <2>1, <2>2, <2>3, StampKeeps
<1>4. ASSUME NEW r \in Requests, Observe(r)
      PROVE  Exclusive' /\ OwnMarks' /\ OwnTimings'
  <2>1. UNCHANGED <<timing, late>>
    BY Zenon, <1>4 DEF Observe
  <2>2. Exclusive' /\ OwnMarks'
    BY <1>1, <1>4, <2>1, HoldsStep, QuietStep
  <2>3. OwnTimings'
    <3>1. PICK class \in Statuses, error \in ErrorTypes \cup {"none"}, others \in SUBSET Requests :
            /\ seen' = [seen EXCEPT ![r] = [class |-> class, error |-> error, others |-> others]]
            /\ others \subseteq late[r]
      BY <1>4, ObserveReports
    <3> QED
      BY Zenon, <1>1, <2>1, <3>1 DEF TypeOK, OwnTimings
  <2> QED
    BY <2>2, <2>3
<1>5. ASSUME NEW r \in Requests, Begin(r)
      PROVE  Exclusive' /\ OwnMarks' /\ OwnTimings'
  <2>1. PICK o \in pool :
          pool' = pool \ {o} /\ obj' = [obj EXCEPT ![r] = o] /\ timing' = [timing EXCEPT ![o] = Zero]
    BY Zenon, <1>5 DEF Begin
  <2>2. o \in Objects /\ UNCHANGED <<seen, late>>
    BY <1>1, <1>5 DEF TypeOK, Begin
  <2>3. ~Holds(r) /\ \A q \in Requests \ {r} : Holds(q)' = Holds(q)
    BY <1>1, <1>5 DEF TypeOK, Begin, Goto, Holds
  <2>4. obj'[r] = o /\ \A q \in Requests \ {r} : obj'[q] = obj[q]
    BY <1>1, <2>1 DEF TypeOK
  <2>5. \A q \in Requests \ {r} : Holds(q) => obj[q] # o
    BY <1>1 DEF Exclusive
  <2>6. Exclusive'
    BY <1>1, <2>1, <2>3, <2>4, <2>5 DEF Exclusive
  <2>7. timing'[o] = Zero /\ \A p \in Objects \ {o} : timing'[p] = timing[p]
    BY <1>1, <2>1, <2>2 DEF TypeOK
  <2>8. \A f \in Fields : Zero[f] = NoOne
    BY DEF Zero
  <2>9. OwnMarks'
    <3> SUFFICES ASSUME NEW q \in Requests, Holds(q)', NEW f \in Fields
                 PROVE  timing'[obj'[q]][f] \in {NoOne, q} \cup late'[q]
      BY DEF OwnMarks
    <3>1. CASE q = r
      BY <2>4, <2>7, <2>8, <3>1
    <3>2. CASE q # r
      BY <1>1, <2>2, <2>3, <2>4, <2>5, <2>7, <3>2 DEF OwnMarks, HasObject
    <3> QED
      BY <3>1, <3>2
  <2>10. OwnTimings'
    BY <1>1, <2>2 DEF OwnTimings
  <2> QED
    BY <2>6, <2>9, <2>10
<1>6. ASSUME NEW r \in Requests, Return(r)
      PROVE  Exclusive' /\ OwnMarks' /\ OwnTimings'
  <2>1. Holds(r) /\ ~Holds(r)' /\ \A q \in Requests \ {r} : Holds(q)' = Holds(q)
    BY <1>1, <1>6 DEF TypeOK, Return, Goto, Holds
  <2>2. /\ obj' = obj /\ pool' = pool \cup {obj[r]}
        /\ timing' = [timing EXCEPT ![obj[r]] = Zero]
        /\ seen' = [seen EXCEPT ![r] = NotSeen] /\ late' = [late EXCEPT ![r] = {}]
    BY <1>6 DEF Return, Forget
  <2>3. \A q \in Requests \ {r} : Holds(q) => obj[q] # obj[r]
    BY <1>1, <2>1 DEF Exclusive
  <2>4. Exclusive'
    BY <1>1, <2>1, <2>2, <2>3 DEF Exclusive
  <2>5. OwnMarks'
    BY <1>1, <2>1, <2>2, <2>3 DEF TypeOK, OwnMarks, HasObject
  <2>6. OwnTimings'
    BY <1>1, <2>2 DEF TypeOK, OwnTimings, NotSeen
  <2> QED
    BY <2>4, <2>5, <2>6
<1>7. CASE UNCHANGED vars
  BY Zenon, <1>1, <1>7 DEF Exclusive, OwnMarks, OwnTimings, Holds, vars
<1> QED
  BY <1>2, <1>3, <1>4, <1>5, <1>6, <1>7 DEF Next, Own

\* The inductive invariant of the pooled objects.
THEOREM TimingInvariant == Spec => []TimingInv
<1>1. Init => TimingInv
  <2> SUFFICES ASSUME Init PROVE TimingInv
    OBVIOUS
  <2>1. NotSeen \in Records /\ Zero \in [Fields -> Requests \cup {NoOne}]
    <3>1. NotSeen \in Records
      BY DEF NotSeen, Records, Statuses
    <3>2. Zero \in [Fields -> Requests \cup {NoOne}]
      BY DEF Zero
    <3> QED
      BY <3>1, <3>2
  <2>2. TypeOK
    BY <2>1 DEF Init, TypeOK, Labels, Dials, Statuses
  <2>3. \A r \in Requests : ~Holds(r)
    BY DEF Init, Holds
  <2>4. HasObject /\ Exclusive /\ OwnMarks
    BY <2>3 DEF Init, HasObject, Exclusive, OwnMarks
  <2>5. OwnTimings
    BY DEF Init, OwnTimings, NotSeen
  <2> QED
    BY <2>2, <2>4, <2>5 DEF TimingInv
<1>2. TimingInv /\ [Next]_vars => TimingInv'
  BY TypeStep, HasObjectStep, OwnStep DEF TimingInv
<1> QED
  BY <1>1, <1>2, PTL DEF Spec

\* What HTTPProxy records of a request comes from its own round trip, or from
\* the late callback of an earlier user of its pooled traceTimings.
THEOREM TimingsAreOwn == Spec => []OwnTimings
<1>1. TimingInv => OwnTimings
  BY DEF TimingInv
<1> QED
  BY <1>1, TimingInvariant, PTL

-----------------------------------------------------------------------------
(* The answer and its record *)

\* The step of one request leaves what is known of the others.
LEMMA OthersProgress ==
  ASSUME TypeOK, Progress, NEW r \in Requests,
         Known(pc'[r], answer'[r], err'[r], status'[r], whole'[r], seen'[r]),
         NEW l, UNCHANGED pc \/ pc' = [pc EXCEPT ![r] = l],
         NEW a, UNCHANGED answer \/ answer' = [answer EXCEPT ![r] = a],
         NEW e, UNCHANGED err \/ err' = [err EXCEPT ![r] = e],
         NEW s, UNCHANGED status \/ status' = [status EXCEPT ![r] = s],
         NEW w, UNCHANGED whole \/ whole' = [whole EXCEPT ![r] = w],
         NEW n, UNCHANGED seen \/ seen' = [seen EXCEPT ![r] = n]
  PROVE  Progress'
<1> SUFFICES ASSUME NEW q \in Requests, q # r
             PROVE  Known(pc'[q], answer'[q], err'[q], status'[q], whole'[q], seen'[q])
  BY DEF Progress
<1>1. pc'[q] = pc[q] /\ answer'[q] = answer[q] /\ err'[q] = err[q]
  BY DEF TypeOK
<1>2. status'[q] = status[q] /\ seen'[q] = seen[q]
  BY DEF TypeOK
<1>3. whole'[q] = whole[q]
  BY DEF TypeOK
<1> QED
  BY <1>1, <1>2, <1>3 DEF Progress

\* Every step keeps what is known of the requests.
LEMMA ProgressStep ==
  ASSUME TimingInv, Progress, [Next]_vars
  PROVE  Progress'
<1>1. TypeOK
  BY DEF TimingInv
<1> DEFINE K(r) == Known(pc'[r], answer'[r], err'[r], status'[r], whole'[r], seen'[r])
<1>2. ASSUME NEW r \in Requests, K(r), UNCHANGED <<answer, whole, seen>>,
             NEW l, UNCHANGED pc \/ pc' = [pc EXCEPT ![r] = l],
             NEW e, UNCHANGED err \/ err' = [err EXCEPT ![r] = e],
             NEW s, UNCHANGED status \/ status' = [status EXCEPT ![r] = s]
      PROVE  Progress'
  BY <1>1, <1>2, OthersProgress
<1>3. ASSUME NEW r \in Requests
      PROVE  Known(pc[r], answer[r], err[r], status[r], whole[r], seen[r])
  BY DEF Progress
<1>4. ASSUME NEW r \in Requests, Begin(r) \/ GotConn(r) \/ InvalidTarget(r) \/ ServeLocally(r) \/ Account(r)
      PROVE  Progress'
  <2>1. PICK l \in {"connect", "sent", "answered", "done"} :
          Goto(r, l) /\ (l \in {"connect", "sent"} => pc[r] \in {"new", "connect"})
    BY <1>4 DEF Begin, GotConn, InvalidTarget, ServeLocally, Account
  <2>2. UNCHANGED <<answer, whole, seen, err>>
    BY <1>4 DEF Begin, GotConn, InvalidTarget, ServeLocally, Account
  <2>3. \E s : UNCHANGED status \/ status' = [status EXCEPT ![r] = s]
    BY <1>4 DEF Begin, GotConn, InvalidTarget, ServeLocally, Account
  <2>4. pc'[r] = l /\ answer'[r] = answer[r] /\ err'[r] = err[r]
    BY <1>1, <2>1, <2>2 DEF TypeOK, Goto
  <2>5. K(r)
    BY Zenon, <1>3, <2>1, <2>4 DEF Known
  <2> HIDE DEF K
  <2> QED
    BY Zenon, <1>2, <2>1, <2>2, <2>3, <2>5 DEF Goto
<1>5. ASSUME NEW r \in Requests, StartDial(r) \/ Dial(r) \/ WriteLoop(r) \/ ReadLoop(r)
      PROVE  Progress'
  <2>1. UNCHANGED <<pc, answer, err, status, whole, seen>>
    BY <1>5 DEF StartDial, Dial, WriteLoop, ReadLoop
  <2> QED
    BY <2>1 DEF Progress
<1>6. ASSUME NEW r \in Requests, RoundTripFails(r) \/ (TimesOut(r) /\ pc[r] # "body")
      PROVE  Progress'
  <2>1. PICK e \in {"timeout", "other"} : err' = [err EXCEPT ![r] = e]
    BY <1>6 DEF RoundTripFails, TimesOut
  <2>2. Goto(r, "failed") /\ pc[r] \in {"connect", "sent"} /\ UNCHANGED <<answer, whole, seen, status>>
    BY <1>6 DEF RoundTripFails, TimesOut
  <2>3. pc'[r] = "failed" /\ answer'[r] = answer[r] /\ err'[r] = e
    BY <1>1, <2>1, <2>2 DEF TypeOK, Goto
  <2>4. K(r)
    BY Zenon, <1>3, <2>2, <2>3 DEF Known
  <2> HIDE DEF K
  <2> QED
    BY Zenon, <1>2, <2>1, <2>2, <2>4 DEF Goto
<1>7. ASSUME NEW r \in Requests, TimesOut(r), pc[r] = "body"
      PROVE  Progress'
  <2>1. err' = [err EXCEPT ![r] = "timeout"] /\ Goto(r, "copied") /\ UNCHANGED <<answer, whole, seen, status>>
    BY <1>7 DEF TimesOut
  <2>2. pc'[r] = "copied" /\ answer'[r] = answer[r] /\ err'[r] = "timeout" /\ status'[r] = status[r]
    BY <1>1, <2>1 DEF TypeOK, Goto
  <2>3. K(r)
    BY Zenon, <1>3, <1>7, <2>2 DEF Known
  <2> HIDE DEF K
  <2> QED
    BY Zenon, <1>2, <2>1, <2>3 DEF Goto
<1>8. ASSUME NEW r \in Requests, Responds(r)
      PROVE  Progress'
  <2>1. PICK c \in Answers[r] : status' = [status EXCEPT ![r] = c] /\ answer' = [answer EXCEPT ![r] = c]
    BY Zenon, <1>8 DEF Responds
  <2>2. Goto(r, "body") /\ pc[r] = "sent" /\ UNCHANGED <<err, whole, seen>>
    BY Zenon, <1>8 DEF Responds
  <2>3. pc'[r] = "body" /\ answer'[r] = c /\ status'[r] = c /\ err'[r] = err[r]
    BY <1>1, <2>1, <2>2 DEF TypeOK, Goto
  <2>4. K(r)
    BY Zenon, <1>3, <2>2, <2>3 DEF Known
  <2> HIDE DEF K
  <2> QED
    BY Zenon, <1>1, <2>1, <2>2, <2>4, OthersProgress DEF Goto, K
<1>9. ASSUME NEW r \in Requests, CopyBody(r)
      PROVE  Progress'
  <2>1. Goto(r, "copied") /\ pc[r] = "body" /\ UNCHANGED <<status, answer, seen>>
    BY Zenon, <1>9 DEF CopyBody
  <2>2. pc'[r] = "copied" /\ answer'[r] = answer[r] /\ status'[r] = status[r]
    BY <1>1, <2>1 DEF TypeOK, Goto
  <2>3. CASE whole' = [whole EXCEPT ![r] = TRUE] /\ UNCHANGED err
    <3>1. whole'[r] = TRUE
      BY <1>1, <2>3 DEF TypeOK
    <3>2. K(r)
      BY Zenon, <1>3, <2>1, <2>2, <3>1 DEF Known
    <3> HIDE DEF K
    <3> QED
      BY Zenon, <1>1, <2>1, <2>3, <3>2, OthersProgress DEF Goto, K
  <2>4. CASE UNCHANGED whole /\ \E e \in {"timeout", "other"} : err' = [err EXCEPT ![r] = e]
    <3>1. PICK e \in {"timeout", "other"} : err' = [err EXCEPT ![r] = e]
      BY Zenon, <2>4
    <3>2. err'[r] = e /\ e # NoOne
      BY Zenon, <1>1, <3>1 DEF TypeOK
    <3>3. K(r)
      BY Zenon, <1>3, <2>1, <2>2, <3>2 DEF Known
    <3> HIDE DEF K
    <3> QED
      BY Zenon, <1>2, <2>1, <2>4, <3>1, <3>3 DEF Goto
  <2> QED
    BY Zenon, <1>9, <2>3, <2>4 DEF CopyBody
<1>10. ASSUME NEW r \in Requests, Observe(r)
       PROVE  Progress'
  <2>1. PICK class \in Statuses, error \in ErrorTypes \cup {"none"}, others \in SUBSET Requests :
          /\ seen' = [seen EXCEPT ![r] = [class |-> class, error |-> error, others |-> others]]
          /\ class = IF pc[r] = "copied" THEN status[r] ELSE "none"
          /\ error = "none" <=> err[r] = NoOne
          /\ error = "timeout" => err[r] = "timeout"
    BY Zenon, <1>10, ObserveReports
  <2>2. Goto(r, "returning") /\ pc[r] \in {"failed", "copied"} /\ UNCHANGED <<answer, err, status, whole>>
    BY Zenon, <1>10 DEF Observe
  <2>3. seen'[r].class = class /\ seen'[r].error = error
    BY Zenon, <1>1, <2>1 DEF TypeOK
  <2>4. pc'[r] = "returning" /\ answer'[r] = answer[r] /\ err'[r] = err[r] /\ status'[r] = status[r]
    BY <1>1, <2>2 DEF TypeOK, Goto
  <2>5. whole'[r] = whole[r]
    BY <2>2
  <2>6. K(r)
    <3>1. class = answer[r]
      BY Zenon, <1>3, <2>1, <2>2 DEF Known
    <3>2. err[r] = NoOne => answer[r] = status[r] /\ whole[r] = TRUE
      BY Zenon, <1>3, <2>2 DEF Known
    <3> QED
      BY Zenon, <2>1, <2>3, <2>4, <2>5, <3>1, <3>2 DEF Known
  <2> HIDE DEF K
  <2> QED
    BY Zenon, <1>1, <2>1, <2>2, <2>6, OthersProgress DEF Goto, K
<1>11. ASSUME NEW r \in Requests, Return(r)
       PROVE  Progress'
  <2>1. /\ pc' = [pc EXCEPT ![r] = "answered"] /\ UNCHANGED answer
        /\ err' = [err EXCEPT ![r] = NoOne] /\ whole' = [whole EXCEPT ![r] = FALSE]
        /\ seen' = [seen EXCEPT ![r] = NotSeen]
    BY <1>11 DEF Return, Forget, Goto
  <2>2. \E s : status' = [status EXCEPT ![r] = s]
    BY Zenon, <1>11 DEF Return
  <2>3. pc'[r] = "answered"
    BY <1>1, <2>1 DEF TypeOK
  <2>4. K(r)
    BY Zenon, <2>3 DEF Known
  <2> HIDE DEF K
  <2> QED
    BY Zenon, <1>1, <2>1, <2>2, <2>4, OthersProgress DEF K
<1>12. CASE UNCHANGED vars
  BY <1>12 DEF Progress, vars
<1> QED
  BY <1>4, <1>5, <1>6, <1>7, <1>8, <1>9, <1>10, <1>11, <1>12 DEF Next, Own

\* Only Return takes a request out of the deferred part of ServeHTTP.
LEMMA LeavesByReturn ==
  ASSUME TypeOK, [Next]_vars, NEW r \in Requests, pc[r] = "returning", pc'[r] # "returning"
  PROVE  Return(r)
<1>1. ASSUME NEW q \in Requests, NEW label, Goto(q, label), pc[q] # "returning"
      PROVE  FALSE
  BY <1>1 DEF Goto, TypeOK
<1>2. CASE UNCHANGED pc
  BY <1>2
<1>3. ASSUME NEW q \in Requests, ServeLocally(q) \/ InvalidTarget(q) \/ Begin(q) \/ GotConn(q) \/ RoundTripFails(q)
      PROVE  FALSE
  BY Zenon, <1>1, <1>3 DEF ServeLocally, InvalidTarget, Begin, GotConn, RoundTripFails
<1>4. ASSUME NEW q \in Requests, Responds(q) \/ CopyBody(q) \/ TimesOut(q) \/ Observe(q) \/ Account(q)
      PROVE  FALSE
  <2>1. pc[q] # "returning" /\ \E label : Goto(q, label)
    BY Zenon, <1>4 DEF Responds, CopyBody, TimesOut, Observe, Account
  <2> QED
    BY <1>1, <2>1
<1>5. ASSUME NEW q \in Requests, StartDial(q) \/ Dial(q) \/ WriteLoop(q) \/ ReadLoop(q)
      PROVE  FALSE
  BY <1>2, <1>5 DEF StartDial, Dial, WriteLoop, ReadLoop
<1>6. ASSUME NEW q \in Requests, Return(q)
      PROVE  q = r
  BY Zenon, <1>6 DEF Return, Goto, TypeOK
<1>7. CASE UNCHANGED vars
  BY <1>2, <1>7 DEF vars
<1> QED
  BY <1>3, <1>4, <1>5, <1>6, <1>7 DEF Next, Own

\* Return answers with what was recorded.
LEMMA ReturnAnswers ==
  ASSUME TypeOK, Progress, NEW r \in Requests, Return(r)
  PROVE  /\ seen[r].class = answer[r]
         /\ seen[r].error = "none" => status'[r] = answer[r] /\ whole[r]
         /\ seen[r].error # "none" => status'[r] \in {"502", "504"}
         /\ seen[r].error = "timeout" => status'[r] = "504"
<1>1. /\ seen[r].class = answer[r]
      /\ seen[r].error = "none" <=> err[r] = NoOne
      /\ seen[r].error = "timeout" => err[r] = "timeout"
      /\ err[r] = NoOne => answer[r] = status[r] /\ whole[r] = TRUE
  <2>1. pc[r] = "returning" /\ Known(pc[r], answer[r], err[r], status[r], whole[r], seen[r])
    BY DEF Return, Progress
  <2> QED
    BY <2>1 DEF Known
<1>2. status'[r] = IF err[r] = NoOne THEN status[r] ELSE IF err[r] = "timeout" THEN "504" ELSE "502"
  BY DEF Return, TypeOK
<1>3. seen[r].error = "timeout" => status'[r] = "504"
  BY <1>1, <1>2
<1>4. seen[r].error # "none" => status'[r] \in {"502", "504"}
  BY <1>1, <1>2
<1>5. seen[r].error = "none" => status'[r] = answer[r] /\ whole[r]
  BY <1>1, <1>2
<1> QED
  BY <1>1, <1>3, <1>4, <1>5

\* What is known of the requests holds in every state.
THEOREM ProgressInvariant == Spec => []Progress
<1>1. Init => Progress
  BY DEF Init, Progress, Known
<1>2. TimingInv /\ Progress /\ [Next]_vars => Progress'
  BY ProgressStep
<1> QED
  BY <1>1, <1>2, TimingInvariant, PTL DEF Spec

\* Whatever happens to the connections, the status the client gets and the
\* status class and error_type in the metrics tell the same story.
THEOREM RecordMatchesAnswer == Spec => AnswerMatchesRecord
<1> DEFINE Told(r) == pc[r] = "returning" /\ pc'[r] # "returning" =>
             /\ seen[r].class = answer[r]
             /\ seen[r].error = "none" => status'[r] = answer[r] /\ whole[r]
             /\ seen[r].error # "none" => status'[r] \in {"502", "504"}
             /\ seen[r].error = "timeout" => status'[r] = "504"
           Tells == \A r \in Requests : Told(r)
<1>1. TimingInv /\ Progress /\ [Next]_vars => [Tells]_vars
  <2> SUFFICES ASSUME TimingInv, Progress, [Next]_vars, NEW r \in Requests
               PROVE  Told(r)
    OBVIOUS
  <2>1. TypeOK
    BY DEF TimingInv
  <2>2. pc[r] = "returning" /\ pc'[r] # "returning" => Return(r)
    BY <2>1, LeavesByReturn
  <2> QED
    BY Zenon, <2>1, <2>2, ReturnAnswers
<1> QED
  BY <1>1, TimingInvariant, ProgressInvariant, PTL DEF Spec, AnswerMatchesRecord

-----------------------------------------------------------------------------
(* Counters *)

\* The counters after the members of R were counted, each under its key.
Keyed(R, key, K) == {r \in R : key[r] \in K}
Tally(R, key) == [k \in {key[r] : r \in R} |-> Cardinality(Keyed(R, key, {k}))]

\* Those with one key and those with the other keys of K are all of those with
\* a key in K.
LEMMA KeyedSplits ==
  ASSUME NEW R, IsFiniteSet(R), NEW key, NEW K, NEW k \in K
  PROVE  /\ Cardinality(Keyed(R, key, K)) = Cardinality(Keyed(R, key, {k})) + Cardinality(Keyed(R, key, K \ {k}))
         /\ Cardinality(Keyed(R, key, {k})) \in Nat /\ Cardinality(Keyed(R, key, K \ {k})) \in Nat
<1> DEFINE A == Keyed(R, key, {k})
           B == Keyed(R, key, K \ {k})
<1>1. A \in SUBSET R /\ B \in SUBSET R /\ A \cap B = {} /\ Keyed(R, key, K) = A \cup B
  BY DEF Keyed
<1> HIDE DEF A, B
<1>2. IsFiniteSet(A) /\ IsFiniteSet(B)
  BY <1>1, FS_Subset
<1>3. Cardinality(A \cup B) = Cardinality(A) + Cardinality(B) - Cardinality(A \cap B)
  BY <1>2, FS_Union
<1>4. Cardinality(A) \in Nat /\ Cardinality(B) \in Nat /\ Cardinality(A \cap B) = 0
  BY <1>1, <1>2, FS_CardinalityType, FS_EmptySet
<1>5. Cardinality(A \cup B) = Cardinality(A) + Cardinality(B)
  BY <1>3, <1>4
<1> QED
  BY Zenon, <1>1, <1>4, <1>5 DEF A, B

\* Stats adds the counters of the keys in any order, and gets the number of
\* those that were counted under one of them.
LEMMA CountOfTally ==
  ASSUME NEW R, IsFiniteSet(R), NEW key, NEW S
  PROVE  Count(Tally(R, key), S) = Cardinality(Keyed(R, key, S))
<1> DEFINE map == Tally(R, key)
           D == (DOMAIN map) \cap S
           Pick(K) == CHOOSE k \in K : TRUE
           Adds(f) == f = [K \in SUBSET D |-> IF K = {} THEN 0 ELSE map[Pick(K)] + f[K \ {Pick(K)}]]
           N == [K \in SUBSET D |-> Cardinality(Keyed(R, key, K))]
           sum == CHOOSE f : Adds(f)
<1>1. Count(map, S) = sum[D]
  BY DEF Count, MapThenFoldSet
<1>2. DOMAIN map = {key[r] : r \in R} /\ \A k \in DOMAIN map : map[k] = Cardinality(Keyed(R, key, {k}))
  BY DEF Tally
<1> HIDE DEF map
<1>3. ASSUME NEW K \in SUBSET D, K # {}
      PROVE  Pick(K) \in K /\ Pick(K) \in DOMAIN map
  BY <1>3
<1>4. ASSUME NEW K \in SUBSET D, K # {}
      PROVE  N[K] = map[Pick(K)] + N[K \ {Pick(K)}]
  <2> DEFINE k == Pick(K)
  <2>1. k \in K /\ k \in DOMAIN map
    BY <1>3, <1>4
  <2> HIDE DEF k
  <2>2. Cardinality(Keyed(R, key, K)) = Cardinality(Keyed(R, key, {k})) + Cardinality(Keyed(R, key, K \ {k}))
    BY <2>1, KeyedSplits
  <2>3. map[k] = Cardinality(Keyed(R, key, {k}))
    BY <1>2, <2>1
  <2>4. N[K] = Cardinality(Keyed(R, key, K)) /\ N[K \ {k}] = Cardinality(Keyed(R, key, K \ {k}))
    OBVIOUS
  <2> HIDE DEF N
  <2>5. N[K] = map[k] + N[K \ {k}]
    BY <2>2, <2>3, <2>4
  <2> QED
    BY <2>5 DEF k
<1>5. N[{}] = 0
  <2>1. Keyed(R, key, {}) = {}
    BY DEF Keyed
  <2> QED
    BY <2>1, FS_EmptySet
<1>6. Adds(N)
  <2>1. \A K \in SUBSET D : N[K] = IF K = {} THEN 0 ELSE map[Pick(K)] + N[K \ {Pick(K)}]
    BY Zenon, <1>4, <1>5
  <2>2. N = [K \in SUBSET D |-> N[K]]
    OBVIOUS
  <2> HIDE DEF N, Pick
  <2> QED
    BY Zenon, <2>1, <2>2
<1>7. Adds(sum)
  <2> HIDE DEF Adds, N
  <2> QED
    BY <1>6
<1> HIDE DEF sum
<1>8. sum[{}] = 0 /\ \A K \in SUBSET D : K # {} => sum[K] = map[Pick(K)] + sum[K \ {Pick(K)}]
  BY <1>7
<1>9. IsFiniteSet(D)
  <2> DEFINE T == {key[r] : r \in R}
             f == [r \in R |-> key[r]]
  <2>1. f \in Surjection(R, T)
    BY DEF Surjection
  <2>2. IsFiniteSet(T)
    BY <2>1, FS_Surjection
  <2>3. D \in SUBSET T
    BY <1>2
  <2> HIDE DEF T, D
  <2> QED
    BY <2>2, <2>3, FS_Subset
<1> DEFINE Agree == {n \in Nat : \A K \in SUBSET D : Cardinality(K) = n => sum[K] = N[K]}
<1>10. 0 \in Agree
  <2>1. ASSUME NEW K \in SUBSET D, Cardinality(K) = 0
        PROVE  sum[K] = N[K]
    <3>1. IsFiniteSet(K)
      BY <1>9, FS_Subset
    <3>2. K = {}
      BY <2>1, <3>1, FS_EmptySet
    <3> HIDE DEF N
    <3> QED
      BY <1>5, <1>8, <3>2
  <2> HIDE DEF N, D
  <2> QED
    BY <2>1
<1>11. ASSUME NEW n \in Nat, n \in Agree
       PROVE  n + 1 \in Agree
  <2>1. ASSUME NEW K \in SUBSET D, Cardinality(K) = n + 1
        PROVE  sum[K] = N[K]
    <3> DEFINE k == Pick(K)
               M == K \ {k}
    <3>1. IsFiniteSet(K)
      BY <1>9, FS_Subset
    <3>2. K # {}
      BY <2>1, FS_EmptySet
    <3>3. k \in K
      BY <1>3, <3>2
    <3> HIDE DEF k
    <3>4. Cardinality(M) = n
      <4>1. Cardinality(M) = Cardinality(K) - 1
        BY Zenon, <3>1, <3>3, FS_RemoveElement
      <4> HIDE DEF M
      <4> QED
        BY <2>1, <4>1
    <3>5. M \in SUBSET D
      OBVIOUS
    <3> HIDE DEF M, N
    <3>6. sum[M] = N[M]
      BY <1>11, <3>4, <3>5
    <3>7. sum[K] = map[k] + sum[M] /\ N[K] = map[k] + N[M]
      BY Zenon, <1>4, <1>8, <3>2 DEF k, M
    <3> QED
      BY <3>6, <3>7
  <2> HIDE DEF N, D
  <2> QED
    BY <2>1
<1>12. sum[D] = N[D]
  <2> HIDE DEF N
  <2>1. Cardinality(D) \in Nat /\ D \in SUBSET D
    BY <1>9, FS_CardinalityType
  <2> HIDE DEF Agree, D
  <2>2. Cardinality(D) \in Agree
    BY <1>10, <1>11, <2>1, SetInduction
  <2> QED
    BY <2>1, <2>2 DEF Agree
<1>13. Keyed(R, key, D) = Keyed(R, key, S)
  BY <1>2 DEF Keyed
<1>14. N[D] = Cardinality(Keyed(R, key, D))
  OBVIOUS
<1> HIDE DEF N, D
<1>15. Count(map, S) = Cardinality(Keyed(R, key, S))
  BY <1>1, <1>12, <1>13, <1>14
<1> QED
  BY <1>15 DEF map

\* Counting one more under its key.
LEMMA TallyOneMore ==
  ASSUME NEW R, IsFiniteSet(R), NEW key, NEW r, r \notin R
  PROVE  Incremented(Tally(R, key), key[r]) = Tally(R \cup {r}, key)
<1> DEFINE map == Tally(R, key)
           all == R \cup {r}
           K == {key[q] : q \in R}
<1>1. {key[q] : q \in all} = K \cup {key[r]} /\ DOMAIN map = K
  BY DEF Tally
<1>2. ASSUME NEW k \in K \cup {key[r]}
      PROVE  Cardinality(Keyed(all, key, {k})) =
               (IF k \in K THEN map[k] ELSE 0) + (IF k = key[r] THEN 1 ELSE 0)
  <2> DEFINE A == Keyed(R, key, {k})
  <2>1. A \in SUBSET R /\ IsFiniteSet(A)
    <3>1. A \in SUBSET R
      BY DEF Keyed
    <3> HIDE DEF A
    <3> QED
      BY <3>1, FS_Subset
  <2>2. Cardinality(A) = IF k \in K THEN map[k] ELSE 0
    <3>1. CASE k \in K
      BY <3>1 DEF Tally
    <3>2. CASE k \notin K
      <4>1. A = {}
        BY <3>2 DEF Keyed
      <4> HIDE DEF A
      <4> QED
        BY <3>2, <4>1, FS_EmptySet
    <3> QED
      BY <3>1, <3>2
  <2>3. CASE k = key[r]
    <3>1. Keyed(all, key, {k}) = A \cup {r} /\ r \notin A
      BY <2>3 DEF Keyed
    <3> HIDE DEF A, map, K
    <3>2. Cardinality(A \cup {r}) = Cardinality(A) + 1
      BY Zenon, <2>1, <3>1, FS_AddElement
    <3> QED
      BY Zenon, <2>2, <2>3, <3>1, <3>2
  <2>4. CASE k # key[r]
    <3>1. Keyed(all, key, {k}) = A
      BY <2>4 DEF Keyed
    <3>2. Cardinality(A) \in Nat
      BY <2>1, FS_CardinalityType
    <3> HIDE DEF A, map, K
    <3> QED
      BY <2>2, <2>4, <3>1, <3>2
  <2> QED
    BY <2>3, <2>4
<1>3. Incremented(map, key[r]) =
        [k \in K \cup {key[r]} |-> (IF k \in K THEN map[k] ELSE 0) + (IF k = key[r] THEN 1 ELSE 0)]
  BY <1>1 DEF Incremented
<1>4. Tally(all, key) = [k \in K \cup {key[r]} |-> Cardinality(Keyed(all, key, {k}))]
  BY <1>1 DEF Tally
<1> HIDE DEF map, K, all
<1>5. Incremented(map, key[r]) = Tally(all, key)
  BY <1>2, <1>3, <1>4
<1> QED
  BY <1>5 DEF map, all

\* What was counted depends on the keys of those that were counted.
LEMMA TallyOfKeys ==
  ASSUME NEW R, NEW key, NEW new, \A r \in R : key[r] = new[r]
  PROVE  Tally(R, key) = Tally(R, new)
<1>1. {key[r] : r \in R} = {new[r] : r \in R}
  OBVIOUS
<1>2. \A k : Keyed(R, key, {k}) = Keyed(R, new, {k})
  BY DEF Keyed
<1> QED
  BY Zenon, <1>1, <1>2 DEF Tally

\* The requests Do was called for and that were recorded, and the answered ones.
Sent == {r \in Requests : obj[r] # NoOne /\ pc[r] \in {"returning", "answered", "done"}}
Done == {r \in Requests : pc[r] = "done"}
UpstreamKeys == [r \in Requests |-> [route |-> Route[r], class |-> answer[r]]]

\* The counters of the recorder are exact, and a request has no object before
\* its Begin.
CountInv ==
  /\ \A r \in Requests : pc[r] = "new" => obj[r] = NoOne
  /\ upstreamRequests = Tally(Sent, UpstreamKeys)
  /\ gatewayRequests = Tally(Done, status)

\* A step that records no upstream request.
LEMMA UpstreamUncounted ==
  ASSUME TypeOK, TypeOK', CountInv, UNCHANGED upstreamRequests, Sent' = Sent,
         \A r \in Sent : answer'[r] = answer[r]
  PROVE  upstreamRequests' = Tally(Sent', UpstreamKeys')
<1>1. \A r \in Sent : UpstreamKeys[r] = UpstreamKeys'[r]
  BY DEF Sent, UpstreamKeys
<1>2. Tally(Sent, UpstreamKeys) = Tally(Sent, UpstreamKeys')
  BY <1>1, TallyOfKeys
<1> QED
  BY <1>2 DEF CountInv

\* A step that accounts for no request.
LEMMA GatewayUncounted ==
  ASSUME CountInv, UNCHANGED gatewayRequests, Done' = Done, \A r \in Done : status'[r] = status[r]
  PROVE  gatewayRequests' = Tally(Done', status')
<1>1. Tally(Done, status) = Tally(Done, status')
  BY TallyOfKeys
<1> QED
  BY <1>1 DEF CountInv

\* A step that accounts for one.
LEMMA GatewayCounted ==
  ASSUME CountInv, NEW r \in Requests, r \notin Done, Done' = Done \cup {r},
         \A q \in Done : status'[q] = status[q], ObserveGateway(status'[r])
  PROVE  gatewayRequests' = Tally(Done', status')
<1>1. Tally(Done, status) = Tally(Done, status')
  BY TallyOfKeys
<1>2. IsFiniteSet(Done)
  <2>1. Done \in SUBSET Requests
    BY DEF Done
  <2> QED
    BY <2>1, FS_Subset
<1>3. gatewayRequests' = Incremented(Tally(Done, status'), status'[r])
  BY Zenon, <1>1 DEF ObserveGateway, CountInv
<1>4. Incremented(Tally(Done, status'), status'[r]) = Tally(Done \cup {r}, status')
  BY <1>2, TallyOneMore
<1> QED
  BY <1>3, <1>4

\* Every step keeps the counters exact.
LEMMA CountStep ==
  ASSUME TimingInv, TypeOK', Progress, CountInv, [Next]_vars
  PROVE  CountInv'
<1>1. TypeOK /\ HasObject
  BY DEF TimingInv
<1>2. /\ pc \in [Requests -> Labels] /\ obj \in [Requests -> Objects \cup {NoOne}]
      /\ status \in [Requests -> Statuses] /\ answer \in [Requests -> Classes \cup {"none"}]
      /\ \A r \in Requests : pc[r] = "new" => obj[r] = NoOne
  BY Zenon, <1>1 DEF TypeOK, CountInv
<1> DEFINE Unsent == \A r \in Requests : pc'[r] = "new" => obj'[r] = NoOne
<1>3. ASSUME NEW r \in Requests, NEW l, l \notin {"new", "returning", "answered", "done"},
             pc[r] \notin {"new", "returning", "answered", "done"},
             Goto(r, l), UNCHANGED <<obj, counters>>,
             \A q \in Requests \ {r} : answer'[q] = answer[q] /\ status'[q] = status[q]
      PROVE  CountInv'
  <2>1. Sent' = Sent /\ r \notin Sent /\ Done' = Done /\ r \notin Done
    BY Zenon, <1>2, <1>3 DEF Goto, Sent, Done
  <2>2. Unsent
    BY <1>2, <1>3 DEF Goto
  <2>3. (\A q \in Sent : answer'[q] = answer[q]) /\ \A q \in Done : status'[q] = status[q]
    BY <1>3, <2>1 DEF Sent, Done
  <2> QED
    BY Zenon, <1>1, <1>3, <2>1, <2>2, <2>3, UpstreamUncounted, GatewayUncounted DEF counters, CountInv
<1>4. ASSUME UNCHANGED <<pc, obj, counters, answer, status>>
      PROVE  CountInv'
  <2>1. Sent' = Sent /\ Done' = Done /\ Unsent
    BY <1>2, <1>4 DEF Sent, Done
  <2> QED
    BY Zenon, <1>1, <1>4, <2>1, UpstreamUncounted, GatewayUncounted DEF counters, CountInv
<1>5. ASSUME NEW r \in Requests, StartDial(r) \/ Dial(r) \/ WriteLoop(r) \/ ReadLoop(r)
      PROVE  CountInv'
  BY <1>4, <1>5 DEF StartDial, Dial, WriteLoop, ReadLoop
<1>6. ASSUME NEW r \in Requests, GotConn(r) \/ RoundTripFails(r) \/ CopyBody(r) \/ TimesOut(r)
      PROVE  CountInv'
  <2>1. pc[r] \in {"connect", "sent", "body"} /\ UNCHANGED <<obj, counters, answer, status>>
    BY <1>6 DEF GotConn, RoundTripFails, CopyBody, TimesOut
  <2>2. \E l \in {"sent", "failed", "copied"} : Goto(r, l)
    BY <1>6 DEF GotConn, RoundTripFails, CopyBody, TimesOut
  <2> QED
    BY <1>3, <2>1, <2>2
<1>7. ASSUME NEW r \in Requests, Responds(r)
      PROVE  CountInv'
  <2>1. Goto(r, "body") /\ pc[r] = "sent" /\ UNCHANGED <<obj, counters>>
    BY Zenon, <1>7 DEF Responds
  <2>2. \A q \in Requests \ {r} : answer'[q] = answer[q] /\ status'[q] = status[q]
    BY Zenon, <1>2, <1>7 DEF Responds
  <2> QED
    BY Zenon, <1>3, <2>1, <2>2
<1>8. ASSUME NEW r \in Requests, Begin(r)
      PROVE  CountInv'
  <2>1. pc[r] = "new" /\ Goto(r, "connect") /\ UNCHANGED <<counters, answer, status>>
    BY <1>8 DEF Begin
  <2>2. \A q \in Requests \ {r} : obj'[q] = obj[q]
    BY Zenon, <1>2, <1>8 DEF Begin
  <2>3. Sent' = Sent /\ Done' = Done /\ Unsent
    BY Zenon, <1>2, <2>1, <2>2 DEF Goto, Sent, Done
  <2> QED
    BY Zenon, <1>1, <2>1, <2>3, UpstreamUncounted, GatewayUncounted DEF counters, CountInv
<1>9. ASSUME NEW r \in Requests, InvalidTarget(r) \/ Return(r)
      PROVE  CountInv'
  <2>1. Goto(r, "answered") /\ UNCHANGED <<obj, counters, answer>>
    BY <1>9 DEF InvalidTarget, Return
  <2>2. pc[r] = "returning" \/ (pc[r] = "new" /\ obj[r] = NoOne)
    BY <1>2, <1>9 DEF InvalidTarget, Return
  <2>3. \A q \in Requests \ {r} : status'[q] = status[q]
    BY <1>2, <1>9 DEF InvalidTarget, Return
  <2>4. Sent' = Sent /\ Done' = Done /\ r \notin Done /\ Unsent
    BY <1>2, <2>1, <2>2 DEF Goto, Sent, Done
  <2>5. \A q \in Done : status'[q] = status[q]
    BY <2>3, <2>4 DEF Done
  <2> QED
    BY <1>1, <2>1, <2>4, <2>5, UpstreamUncounted, GatewayUncounted DEF counters, CountInv
<1>10. ASSUME NEW r \in Requests, ServeLocally(r) \/ Account(r)
       PROVE  CountInv'
  <2>1. Goto(r, "done") /\ UNCHANGED <<obj, upstreamRequests, answer>>
    BY <1>10 DEF ServeLocally, Account
  <2>2. pc[r] = "answered" \/ (pc[r] = "new" /\ obj[r] = NoOne)
    BY <1>2, <1>10 DEF ServeLocally, Account
  <2>3. ObserveGateway(status'[r]) /\ \A q \in Requests \ {r} : status'[q] = status[q]
    BY <1>2, <1>10 DEF ServeLocally, Account
  <2>4. Sent' = Sent /\ Done' = Done \cup {r} /\ r \notin Done /\ Unsent
    BY <1>2, <2>1, <2>2 DEF Goto, Sent, Done
  <2>5. \A q \in Done : status'[q] = status[q]
    BY <2>3, <2>4 DEF Done
  <2> QED
    BY <1>1, <2>1, <2>3, <2>4, <2>5, UpstreamUncounted, GatewayCounted DEF CountInv
<1>11. ASSUME NEW r \in Requests, Observe(r)
       PROVE  CountInv'
  <2> DEFINE class == IF pc[r] = "copied" THEN status[r] ELSE "none"
  <2>1. /\ Goto(r, "returning") /\ pc[r] \in {"failed", "copied"}
        /\ UNCHANGED <<obj, answer, status, gatewayRequests>>
        /\ upstreamRequests' = Incremented(upstreamRequests, [route |-> Route[r], class |-> class])
    BY Zenon, <1>11 DEF Observe, ObserveUpstream
  <2>2. class = answer[r]
    <3>1. Known(pc[r], answer[r], err[r], status[r], whole[r], seen[r])
      BY DEF Progress
    <3> QED
      BY Zenon, <2>1, <3>1 DEF Known
  <2> HIDE DEF class
  <2>3. obj[r] # NoOne
    BY <1>1, <2>1 DEF HasObject, Holds
  <2>4. Sent' = Sent \cup {r} /\ r \notin Sent /\ Done' = Done /\ Unsent
    BY ZenonT(60), <1>2, <2>1, <2>3 DEF Goto, Sent, Done
  <2>5. IsFiniteSet(Sent)
    <3>1. Sent \in SUBSET Requests
      BY DEF Sent
    <3> QED
      BY <3>1, FS_Subset
  <2>6. UpstreamKeys' = UpstreamKeys /\ UpstreamKeys[r] = [route |-> Route[r], class |-> answer[r]]
    BY <2>1 DEF UpstreamKeys
  <2>7. upstreamRequests' = Incremented(Tally(Sent, UpstreamKeys), UpstreamKeys[r])
    BY Zenon, <2>1, <2>2, <2>6 DEF CountInv
  <2>8. upstreamRequests' = Tally(Sent', UpstreamKeys')
    BY Zenon, <2>4, <2>5, <2>6, <2>7, TallyOneMore
  <2> QED
    BY <2>1, <2>4, <2>8, GatewayUncounted DEF CountInv
<1>12. CASE UNCHANGED vars
  BY <1>4, <1>12 DEF vars, counters
<1> QED
  BY <1>5, <1>6, <1>7, <1>8, <1>9, <1>10, <1>11, <1>12 DEF Next, Own

\* The counters are exact in every state.
THEOREM CountInvariant == Spec => []CountInv
<1>1. Init => CountInv
  <2> SUFFICES ASSUME Init PROVE CountInv
    OBVIOUS
  <2>1. Sent = {} /\ Done = {}
    BY DEF Init, Sent, Done
  <2>2. \A key : Tally({}, key) = <<>>
    BY DEF Tally
  <2> QED
    BY <2>1, <2>2 DEF Init, CountInv
<1>2. TimingInv /\ TimingInv' /\ Progress /\ CountInv /\ [Next]_vars => CountInv'
  BY CountStep DEF TimingInv
<1> QED
  BY <1>1, <1>2, TimingInvariant, ProgressInvariant, PTL DEF Spec

\* Stats counts the sent requests of a set of keys.
LEMMA StatsCount ==
  ASSUME CountInv, NEW K
  PROVE  Count(upstreamRequests, K) = Cardinality({r \in Sent : UpstreamKeys[r] \in K})
<1>1. IsFiniteSet(Sent)
  <2>1. Sent \in SUBSET Requests
    BY DEF Sent
  <2> QED
    BY <2>1, FS_Subset
<1>2. upstreamRequests = Tally(Sent, UpstreamKeys)
  BY DEF CountInv
<1>3. Count(Tally(Sent, UpstreamKeys), K) = Cardinality(Keyed(Sent, UpstreamKeys, K))
  BY <1>1, CountOfTally
<1> QED
  BY <1>2, <1>3 DEF Keyed

\* What GET /control/stats and the counter of the gateway report is what
\* happened, for any number of requests: every request is counted once by the
\* gateway, and once for its route if and only if Do was called for it.
THEOREM EachCountedOnce == Spec => []CountedOnce
<1>1. ASSUME CountInv PROVE CountedOnce
  <2> DEFINE keys == DOMAIN upstreamRequests
             failed == {k \in keys : k.class \in {"4xx", "5xx"}}
             routes == {k.route : k \in keys}
             Of(K) == {r \in Sent : UpstreamKeys[r] \in K}
  <2>1. keys = {UpstreamKeys[r] : r \in Sent}
    BY <1>1 DEF CountInv, Tally
  <2>2. \A r \in Sent : /\ UpstreamKeys[r] \in keys
                        /\ UpstreamKeys[r].route = Route[r]
                        /\ UpstreamKeys[r].class = answer[r]
    BY <2>1 DEF UpstreamKeys, Sent
  <2>3. \A K : Count(upstreamRequests, K) = Cardinality(Of(K))
    BY <1>1, StatsCount
  <2>4. /\ Of(keys) = Sent
        /\ Of({k \in keys : k.class = "4xx"}) = {r \in Sent : answer[r] \in {"4xx"}}
        /\ Of({k \in keys : k.class = "5xx"}) = {r \in Sent : answer[r] \in {"5xx"}}
    BY <2>2
  <2>5. \A i : /\ Of({k \in keys : k.route = i}) = {r \in Sent : Route[r] = i}
               /\ Of({k \in failed : k.route = i}) =
                    {r \in {q \in Sent : answer[q] \in {"4xx", "5xx"}} : Route[r] = i}
    BY <2>2
  <2>6. ASSUME NEW c PROVE Count(gatewayRequests, {c}) = Cardinality({r \in Requests : pc[r] = "done" /\ status[r] = c})
    <3>1. IsFiniteSet(Done)
      <4>1. Done \in SUBSET Requests
        BY DEF Done
      <4> QED
        BY <4>1, FS_Subset
    <3>2. Count(Tally(Done, status), {c}) = Cardinality(Keyed(Done, status, {c}))
      BY <3>1, CountOfTally
    <3>3. Keyed(Done, status, {c}) = {r \in Requests : pc[r] = "done" /\ status[r] = c}
      BY DEF Keyed, Done
    <3> QED
      BY <1>1, <3>2, <3>3 DEF CountInv
  <2>7. /\ Stats.total = Count(upstreamRequests, keys)
        /\ Stats.errors4xx = Count(upstreamRequests, {k \in keys : k.class = "4xx"})
        /\ Stats.errors5xx = Count(upstreamRequests, {k \in keys : k.class = "5xx"})
        /\ Stats.requests = [i \in routes |-> Count(upstreamRequests, {k \in keys : k.route = i})]
        /\ Stats.errors = [i \in routes |-> Count(upstreamRequests, {k \in failed : k.route = i})]
    BY Zenon DEF Stats
  <2> HIDE DEF keys, failed, routes, Of
  <2>8. ASSUME NEW i \in DOMAIN Stats.requests
        PROVE  /\ Stats.requests[i] = Cardinality({r \in Sent : Route[r] = i})
               /\ Stats.errors[i] = Cardinality({r \in {q \in Sent : answer[q] \in {"4xx", "5xx"}} : Route[r] = i})
    <3>1. i \in routes
      BY <2>7
    <3>2. /\ Stats.requests[i] = Count(upstreamRequests, {k \in keys : k.route = i})
          /\ Stats.errors[i] = Count(upstreamRequests, {k \in failed : k.route = i})
      BY <2>7, <3>1
    <3> QED
      BY Zenon, <2>3, <2>5, <3>2
  <2>9. /\ Stats.total = Cardinality(Sent)
        /\ Stats.errors4xx = Cardinality({r \in Sent : answer[r] \in {"4xx"}})
        /\ Stats.errors5xx = Cardinality({r \in Sent : answer[r] \in {"5xx"}})
    BY Zenon, <2>3, <2>4, <2>7
  <2> QED
    BY Zenon, <2>6, <2>8, <2>9 DEF CountedOnce, Sent
<1> QED
  BY <1>1, CountInvariant, PTL

=============================================================================
