------------------------------ MODULE LimitProofs ------------------------------
(***************************************************************************)
(* Proofs about LimitCount, for any number of concurrent requests, any     *)
(* keys, any limit and any window.                                         *)
(***************************************************************************)
EXTENDS LimitCount, TLAPS

USE ConfigAssumption

RequestType ==
  [key : Keys, window : Windows, reset : 1..TimeWindow,
   allowed : BOOLEAN, remaining : 0..Count, filling : Nat]

LimitTypeOK ==
  /\ now \in TimeWindow..MaxTime
  /\ counters \in [Keys -> [window : Windows, count : 0..Count]]
  /\ pc \in [Requests -> {"idle", "lock", "next"}]
  /\ req \in [Requests -> RequestType]
  /\ admitted \in [Keys \X Windows -> Nat]
  /\ entered \in [Keys \X Windows -> Nat]

\* The division of the clock by the window. Second t lies in one window, which
\* is one that is counted, and begins t % TimeWindow seconds before t.
LEMMA Division ==
  ASSUME NEW t \in TimeWindow..MaxTime
  PROVE  /\ t \div TimeWindow \in Windows
         /\ t \div TimeWindow >= 1
         /\ t % TimeWindow \in 0..(TimeWindow - 1)
         /\ t = TimeWindow * (t \div TimeWindow) + (t % TimeWindow)
<1>1. t % TimeWindow \in 0..(TimeWindow - 1)
  OBVIOUS
<1>2. t = TimeWindow * (t \div TimeWindow) + (t % TimeWindow)
  OBVIOUS
<1>3. MaxTime = TimeWindow * (MaxTime \div TimeWindow) + (MaxTime % TimeWindow)
      /\ MaxTime % TimeWindow \in 0..(TimeWindow - 1)
  OBVIOUS
<1>4. t \div TimeWindow \in Int /\ MaxTime \div TimeWindow \in Int
  OBVIOUS
<1>5. t \div TimeWindow >= 1
  BY <1>1, <1>2, <1>4
<1>6. t \div TimeWindow <= MaxTime \div TimeWindow
  BY <1>1, <1>2, <1>3, <1>4
<1> QED
  BY <1>1, <1>2, <1>4, <1>5, <1>6 DEF Windows

\* The critical section, read as one assignment: the bucket belongs to the window
\* of the request afterwards, and has one request more if and only if the request
\* is admitted, which it is unless the bucket was full.
Charged(r, k, w, count, counted, allowed) ==
  /\ count = IF counters[k].window # w THEN 0 ELSE counters[k].count
  /\ allowed => counted = count + 1
  /\ ~allowed => counted = Count /\ count = Count
  /\ counters' = [counters EXCEPT ![k] = [window |-> w, count |-> counted]]
  /\ admitted' = IF allowed THEN [admitted EXCEPT ![<<k, w>>] = @ + 1] ELSE admitted
  /\ entered' = IF counters[k].window # w THEN [entered EXCEPT ![<<k, w>>] = @ + 1] ELSE entered
  /\ req' = [req EXCEPT ![r] = [key |-> k, window |-> w, reset |-> req[r].reset,
                                allowed |-> allowed, remaining |-> Count - counted,
                                filling |-> entered'[<<k, w>>]]]
  /\ pc' = [pc EXCEPT ![r] = "next"]
  /\ now' = now

\* What the critical section does, case by case: the request is charged to the
\* window it computed, and only when the bucket has room.
LEMMA DecideCharges ==
  ASSUME LimitTypeOK, NEW r \in Requests, Decide(r)
  PROVE  \E count, counted \in 0..Count, allowed \in BOOLEAN :
           Charged(r, req[r].key, req[r].window, count, counted, allowed)
<1> DEFINE k == req[r].key
           w == req[r].window
           reset == Outdated(counters[k], w)
           count == IF reset THEN 0 ELSE counters[k].count
           allowed == Allowed(count)
           counted == IF allowed THEN count + 1 ELSE count
<1>1. k \in Keys /\ w \in Windows
  BY DEF LimitTypeOK, RequestType
<1>2. counters[k] \in [window : Windows, count : 0..Count] /\ count \in 0..Count
  BY <1>1 DEF LimitTypeOK
<1>3. allowed \in BOOLEAN
  BY <1>2 DEF Allowed
<1>31. counted \in 0..Count /\ (~allowed => counted = Count /\ count = Count)
  BY <1>2 DEF Allowed
<1>4. counters' = [counters EXCEPT ![k] = [window |-> w, count |-> counted]]
  BY DEF Decide
<1>5. req' = [req EXCEPT ![r] = [key |-> k, window |-> w, reset |-> req[r].reset,
                                allowed |-> allowed, remaining |-> Count - counted,
                                filling |-> entered'[<<k, w>>]]]
  <2>1. (IF counted > Count THEN 0 ELSE Count - counted) = Count - counted
    BY <1>31
  <2> QED
    BY Zenon, <2>1 DEF Decide
<1>6. Charged(r, k, w, count, counted, allowed)
  <2>1. /\ admitted' = IF allowed THEN [admitted EXCEPT ![<<k, w>>] = @ + 1] ELSE admitted
        /\ entered' = IF reset THEN [entered EXCEPT ![<<k, w>>] = @ + 1] ELSE entered
        /\ pc' = [pc EXCEPT ![r] = "next"]
        /\ now' = now
    BY DEF Decide
  <2> QED
    BY Zenon, <1>31, <1>4, <1>5, <2>1 DEF Charged, Outdated
<1> QED
  BY <1>2, <1>3, <1>31, <1>6

\* Every step keeps the types: the counters stay within the limit.
LEMMA LimitTypeStep ==
  ASSUME LimitTypeOK, [LimitNext]_limitVars
  PROVE  LimitTypeOK'
<1> USE DEF LimitTypeOK, RequestType
<1>1. ASSUME Tick
      PROVE  LimitTypeOK'
  BY <1>1 DEF Tick
<1>2. ASSUME NEW r \in Requests, NEW k \in Keys, ReadClock(r, k)
      PROVE  LimitTypeOK'
  <2> DEFINE w == now \div TimeWindow
             reset == TimeWindow - (now % TimeWindow)
  <2>1. w \in Windows /\ reset \in 1..TimeWindow
    <3>1. w \in Windows /\ now % TimeWindow \in 0..(TimeWindow - 1)
      BY Zenon, Division
    <3> QED
      BY <3>1
  <2> HIDE DEF w, reset
  <2>2. Computed(k, w, reset) \in RequestType
    BY <2>1 DEF Computed
  <2> HIDE DEF RequestType
  <2>3. req' \in [Requests -> RequestType]
    BY <1>2, <2>2 DEF ReadClock, w, reset
  <2> QED
    BY <1>2, <2>3 DEF ReadClock
<1>3. ASSUME NEW r \in Requests, Decide(r)
      PROVE  LimitTypeOK'
  <2> DEFINE k == req[r].key
             w == req[r].window
  <2>1. k \in Keys /\ w \in Windows /\ <<k, w>> \in Keys \X Windows
    OBVIOUS
  <2> PICK count \in 0..Count, counted \in 0..Count, allowed \in BOOLEAN :
        Charged(r, k, w, count, counted, allowed)
    BY <1>3, DecideCharges
  <2> HIDE DEF k, w
  <2>2. admitted' \in [Keys \X Windows -> Nat] /\ entered' \in [Keys \X Windows -> Nat]
    BY <2>1 DEF Charged
  <2>3. entered'[<<k, w>>] \in Nat
    BY <2>1, <2>2
  <2>4. [key |-> k, window |-> w, reset |-> req[r].reset, allowed |-> allowed,
         remaining |-> Count - counted, filling |-> entered'[<<k, w>>]] \in RequestType
    BY <2>1, <2>3
  <2>5. req' \in [Requests -> RequestType]
    BY <2>4 DEF Charged
  <2> QED
    BY <2>1, <2>2, <2>5 DEF Charged
<1>4. ASSUME NEW r \in Requests, Respond(r)
      PROVE  LimitTypeOK'
  BY <1>4 DEF Respond, Computed, Windows
<1>5. CASE UNCHANGED limitVars
  BY <1>5 DEF limitVars
<1> QED
  BY Zenon, <1>1, <1>2, <1>3, <1>4, <1>5 DEF LimitNext

-----------------------------------------------------------------------------
(* The inductive invariant *)

\* The clock is never in window 0, so no request is charged to the zero bucket.
\* What is left in the bucket of a window has not been admitted yet.
BurstInv ==
  /\ \A r \in Requests : pc[r] # "idle" => req[r].window # 0
  /\ \A k \in Keys, w \in Windows : admitted[<<k, w>>] <= Count * entered[<<k, w>>]
  /\ \A k \in Keys : counters[k].window # 0 =>
       admitted[<<k, counters[k].window>>] + Count
         <= Count * entered[<<k, counters[k].window>>] + counters[k].count

\* A request that was admitted from the present filling of a bucket has been told
\* at least what is left in it.
FillingInv ==
  \A r \in Requests : pc[r] = "next" =>
    LET k == req[r].key
        w == req[r].window
    IN  /\ req[r].filling <= entered[<<k, w>>]
        /\ req[r].allowed /\ counters[k].window = w /\ req[r].filling = entered[<<k, w>>]
             => req[r].remaining >= Count - counters[k].count

\* A window that no late request has touched is entered at most once, and the
\* bucket has not gone back behind it since.
LateInv ==
  \A k \in Keys, w \in Windows : <<k, w>> \notin overtaken =>
    /\ entered[<<k, w>>] <= 1
    /\ entered[<<k, w>>] = 1 => counters[k].window >= w

LimitInv == LimitTypeOK /\ BurstInv /\ LateInv /\ FillingInv /\ HeadersRight

\* A filling more is Count requests more.
LEMMA OneMore == \A n \in Nat : Count * (n + 1) = Count * n + Count /\ Count * n \in Nat
OBVIOUS

\* Every step keeps the account of what is admitted.
LEMMA BurstStep ==
  ASSUME LimitTypeOK, BurstInv, [LimitNext]_limitVars
  PROVE  BurstInv'
<1>1. ASSUME Tick
      PROVE  BurstInv'
  BY <1>1 DEF Tick, BurstInv
<1>2. ASSUME NEW r \in Requests, NEW k \in Keys, ReadClock(r, k)
      PROVE  BurstInv'
  <2>1. req'[r].window = now \div TimeWindow /\ now \div TimeWindow # 0
    BY <1>2, Division DEF ReadClock, Computed, LimitTypeOK
  <2> QED
    BY <1>2, <2>1 DEF ReadClock, BurstInv, LimitTypeOK
<1>3. ASSUME NEW r \in Requests, Decide(r)
      PROVE  BurstInv'
  <2> DEFINE k == req[r].key
             w == req[r].window
  <2>1. k \in Keys /\ w \in Windows /\ w # 0
    BY <1>3 DEF LimitTypeOK, RequestType, BurstInv, Decide
  <2> PICK count \in 0..Count, counted \in 0..Count, allowed \in BOOLEAN :
        Charged(r, k, w, count, counted, allowed)
    BY <1>3, DecideCharges
  <2>2. ASSUME NEW q \in Requests, pc'[q] # "idle"
        PROVE  req'[q].window # 0
    BY <2>1, <2>2 DEF Charged, LimitTypeOK, BurstInv
  <2>3. ASSUME NEW j \in Keys, NEW v \in Windows, <<j, v>> # <<k, w>>
        PROVE  /\ admitted'[<<j, v>>] = admitted[<<j, v>>] /\ entered'[<<j, v>>] = entered[<<j, v>>]
    BY <2>3 DEF Charged, LimitTypeOK
  <2> DEFINE a == admitted[<<k, w>>]
             e == entered[<<k, w>>]
  <2>4. a \in Nat /\ e \in Nat /\ Count * e \in Nat /\ Count * (e + 1) = Count * e + Count
    BY <2>1, OneMore DEF LimitTypeOK
  <2>5. admitted'[<<k, w>>] = a + (IF allowed THEN 1 ELSE 0)
    BY <2>1, <2>4 DEF Charged, LimitTypeOK
  <2>6. entered'[<<k, w>>] = IF counters[k].window # w THEN e + 1 ELSE e
    BY <2>1 DEF Charged, LimitTypeOK
  <2>7. counters'[k] = [window |-> w, count |-> counted]
        /\ \A j \in Keys : j # k => counters'[j] = counters[j]
    BY <2>1 DEF Charged, LimitTypeOK
  <2>8. admitted'[<<k, w>>] + Count <= Count * entered'[<<k, w>>] + counted
    <3>1. (allowed => counted = count + 1) /\ (~allowed => counted = Count /\ count = Count)
      BY DEF Charged
    <3>2. CASE counters[k].window # w
      <4>1. a <= Count * e /\ count = 0 /\ entered'[<<k, w>>] = e + 1
        BY <2>1, <2>6, <3>2 DEF BurstInv, Charged
      <4> HIDE DEF a, e
      <4> QED
        BY <2>4, <2>5, <3>1, <4>1
    <3>3. CASE counters[k].window = w
      <4>1. a + Count <= Count * e + count /\ entered'[<<k, w>>] = e
        BY <2>1, <2>6, <3>3 DEF BurstInv, Charged
      <4> HIDE DEF a, e
      <4> QED
        BY <2>4, <2>5, <3>1, <4>1
    <3> QED
      BY <3>2, <3>3
  <2>9. admitted'[<<k, w>>] <= Count * entered'[<<k, w>>]
    <3>1. entered'[<<k, w>>] \in Nat /\ admitted'[<<k, w>>] \in Nat
      BY <2>4, <2>5, <2>6
    <3>2. Count * entered'[<<k, w>>] \in Nat
      BY <3>1, OneMore
    <3> QED
      BY <2>8, <3>1, <3>2
  <2>10. ASSUME NEW j \in Keys, NEW v \in Windows
         PROVE  admitted'[<<j, v>>] <= Count * entered'[<<j, v>>]
    BY <2>3, <2>9 DEF BurstInv
  <2>11. ASSUME NEW j \in Keys, counters'[j].window # 0
         PROVE  admitted'[<<j, counters'[j].window>>] + Count
                  <= Count * entered'[<<j, counters'[j].window>>] + counters'[j].count
    <3>1. CASE j = k
      BY <2>7, <2>8, <3>1
    <3>2. CASE j # k
      <4>1. counters'[j] = counters[j] /\ counters[j].window \in Windows
        BY <2>7, <3>2 DEF LimitTypeOK
      <4>2. <<j, counters[j].window>> # <<k, w>>
        BY <3>2
      <4> QED
        BY <2>3, <2>11, <4>1, <4>2 DEF BurstInv
    <3> QED
      BY <3>1, <3>2
  <2> QED
    BY <2>2, <2>10, <2>11 DEF BurstInv
<1>4. ASSUME NEW r \in Requests, Respond(r)
      PROVE  BurstInv'
  BY <1>4 DEF Respond, BurstInv, LimitTypeOK
<1>5. CASE UNCHANGED limitVars
  BY <1>5 DEF limitVars, BurstInv
<1> QED
  BY <1>1, <1>2, <1>3, <1>4, <1>5 DEF LimitNext

\* Every step keeps the windows that no late request has touched in order.
LEMMA LateStep ==
  ASSUME LimitTypeOK, LateInv, [LimitNext]_limitVars
  PROVE  LateInv'
<1>1. ASSUME NEW r \in Requests, Decide(r)
      PROVE  LateInv'
  <2> DEFINE k == req[r].key
             w == req[r].window
             c == counters[k].window
  <2>1. k \in Keys /\ w \in Windows /\ c \in Windows
    BY DEF LimitTypeOK, RequestType
  <2>2. w \in Int /\ c \in Int
    BY <2>1 DEF Windows
  <2> PICK count \in 0..Count, counted \in 0..Count, allowed \in BOOLEAN :
        Charged(r, k, w, count, counted, allowed)
    BY <1>1, DecideCharges
  <2>3. /\ counters'[k].window = w
        /\ \A j \in Keys : j # k => counters'[j] = counters[j]
    BY <2>1 DEF Charged, LimitTypeOK
  <2>4. entered'[<<k, w>>] = IF c # w THEN entered[<<k, w>>] + 1 ELSE entered[<<k, w>>]
    BY <2>1 DEF Charged, LimitTypeOK
  <2>5. \A j \in Keys, v \in Windows :
          <<j, v>> # <<k, w>> => entered'[<<j, v>>] = entered[<<j, v>>]
    BY DEF Charged, LimitTypeOK
  <2>6. overtaken' = overtaken \cup (IF w < c THEN {k} \X (w..c) ELSE {})
    BY Zenon, <1>1 DEF Decide
  <2> SUFFICES ASSUME NEW j \in Keys, NEW v \in Windows, <<j, v>> \notin overtaken'
               PROVE  /\ entered'[<<j, v>>] <= 1
                      /\ entered'[<<j, v>>] = 1 => counters'[j].window >= v
    BY DEF LateInv
  <2>7. <<j, v>> \notin overtaken
    BY <2>6
  <2>8. /\ entered[<<j, v>>] \in Nat /\ entered[<<j, v>>] <= 1 /\ v \in Int
        /\ entered[<<j, v>>] = 1 => counters[j].window >= v
    BY <2>7 DEF LateInv, LimitTypeOK, Windows
  <2>9. CASE j # k
    BY <2>3, <2>5, <2>8, <2>9
  <2>10. CASE j = k
    <3>1. w < c => v < w \/ v > c
      <4> SUFFICES ASSUME w < c, v >= w, v <= c PROVE FALSE
        BY <2>2, <2>8
      <4>1. v \in w..c
        BY <2>2, <2>8
      <4>2. <<j, v>> \in {k} \X (w..c)
        BY Zenon, <2>10, <4>1
      <4> QED
        BY Zenon, <2>6, <4>2
    <3> HIDE DEF k, w, c
    <3>2. CASE v = w
      <4>1. entered'[<<j, v>>] = IF c # w THEN entered[<<j, v>>] + 1 ELSE entered[<<j, v>>]
        BY Zenon, <2>4, <2>10, <3>2
      <4>2. counters[j].window = c /\ counters'[j].window = w
        BY Zenon, <2>3, <2>10 DEF c
      <4> QED
        BY <2>2, <2>8, <3>1, <3>2, <4>1, <4>2
    <3>3. CASE v # w
      <4>1. entered'[<<j, v>>] = entered[<<j, v>>]
        BY <2>5, <3>3
      <4>2. counters[j].window = c /\ counters'[j].window = w
        BY Zenon, <2>3, <2>10 DEF c
      <4> QED
        BY <2>2, <2>8, <3>1, <4>1, <4>2
    <3> QED
      BY <3>2, <3>3
  <2> QED
    BY <2>9, <2>10
<1>2. ASSUME ~ \E r \in Requests : Decide(r)
      PROVE  UNCHANGED <<counters, entered, overtaken>>
  BY <1>2 DEF LimitNext, Tick, Respond, ReadClock, limitVars
<1> QED
  BY <1>1, <1>2 DEF LateInv

\* Every step keeps what the admitted requests were told above what is left.
LEMMA FillingStep ==
  ASSUME LimitTypeOK, BurstInv, FillingInv, [LimitNext]_limitVars
  PROVE  FillingInv'
<1>1. ASSUME Tick
      PROVE  FillingInv'
  BY <1>1 DEF Tick, FillingInv
<1>2. ASSUME NEW r \in Requests, NEW k \in Keys, ReadClock(r, k)
      PROVE  FillingInv'
  BY <1>2 DEF ReadClock, FillingInv, LimitTypeOK
<1>3. ASSUME NEW r \in Requests, Decide(r)
      PROVE  FillingInv'
  <2> DEFINE k == req[r].key
             w == req[r].window
  <2>1. k \in Keys /\ w \in Windows /\ <<k, w>> \in Keys \X Windows
    BY DEF LimitTypeOK, RequestType
  <2> PICK count \in 0..Count, counted \in 0..Count, allowed \in BOOLEAN :
        Charged(r, k, w, count, counted, allowed)
    BY <1>3, DecideCharges
  <2> SUFFICES ASSUME NEW q \in Requests, pc'[q] = "next"
               PROVE  /\ req'[q].filling <= entered'[<<req'[q].key, req'[q].window>>]
                      /\ req'[q].allowed
                           /\ counters'[req'[q].key].window = req'[q].window
                           /\ req'[q].filling = entered'[<<req'[q].key, req'[q].window>>]
                         => req'[q].remaining >= Count - counters'[req'[q].key].count
    BY DEF FillingInv
  <2>2. counters'[k] = [window |-> w, count |-> counted]
        /\ \A j \in Keys : j # k => counters'[j] = counters[j]
    BY <2>1 DEF Charged, LimitTypeOK
  <2>3. CASE q = r
    <3>1. /\ req'[q].key = k /\ req'[q].window = w /\ req'[q].remaining = Count - counted
          /\ req'[q].filling = entered'[<<k, w>>]
      BY <2>3 DEF Charged, LimitTypeOK
    <3>2. entered'[<<k, w>>] \in Nat
      BY <2>1 DEF Charged, LimitTypeOK
    <3> QED
      BY <2>2, <3>1, <3>2
  <2>4. CASE q # r
    <3> DEFINE j == req[q].key
               v == req[q].window
    <3>1. req'[q] = req[q] /\ pc[q] = "next" /\ req[q] \in RequestType
      BY <2>4 DEF Charged, LimitTypeOK
    <3>2. j \in Keys /\ v \in Windows /\ <<j, v>> \in Keys \X Windows
          /\ req[q].filling \in Nat /\ req[q].remaining \in 0..Count
      BY <3>1 DEF RequestType
    <3>3. entered[<<j, v>>] \in Nat /\ counters[j] \in [window : Windows, count : 0..Count]
      BY <3>2 DEF LimitTypeOK
    <3>4. /\ req[q].filling <= entered[<<j, v>>]
          /\ req[q].allowed /\ counters[j].window = v /\ req[q].filling = entered[<<j, v>>]
               => req[q].remaining >= Count - counters[j].count
      BY <3>1 DEF FillingInv
    <3>5. CASE j = k /\ v = w /\ counters[k].window # w
      <4>1. entered'[<<k, w>>] = entered[<<k, w>>] + 1
        BY <2>1, <3>5 DEF Charged, LimitTypeOK
      <4> QED
        BY <3>1, <3>2, <3>3, <3>4, <3>5, <4>1
    <3>6. CASE j = k /\ v = w /\ counters[k].window = w
      <4>1. /\ entered' = entered /\ count = counters[k].count
            /\ allowed => counted = count + 1
            /\ ~allowed => counted = count
        BY Zenon, <3>6 DEF Charged
      <4>2. counters[k].count \in Nat /\ counted \in Nat /\ Count \in Nat /\ req[q].remaining \in Nat
        BY <3>2, <3>3, <3>6, ConfigAssumption
      <4>3. req[q].remaining >= Count - counters[k].count => req[q].remaining >= Count - counted
        BY ONLY <4>1, <4>2
      <4>4. counters'[k].window = w /\ counters'[k].count = counted
        BY ONLY <2>2
      <4> QED
        BY <3>1, <3>4, <3>6, <4>1, <4>3, <4>4
    <3>7. CASE j = k /\ v # w
      <4>1. entered'[<<j, v>>] = entered[<<j, v>>]
        BY <2>1, <3>2, <3>7 DEF Charged, LimitTypeOK
      <4> QED
        BY <2>2, <3>1, <3>4, <3>7, <4>1
    <3>8. CASE j # k
      <4>1. entered'[<<j, v>>] = entered[<<j, v>>]
        BY <2>1, <3>2, <3>8 DEF Charged, LimitTypeOK
      <4> QED
        BY <2>2, <3>1, <3>2, <3>4, <3>8, <4>1
    <3> QED
      BY <3>5, <3>6, <3>7, <3>8
  <2> QED
    BY <2>3, <2>4
<1>4. ASSUME NEW r \in Requests, Respond(r)
      PROVE  FillingInv'
  BY <1>4 DEF Respond, FillingInv, LimitTypeOK
<1>5. CASE UNCHANGED limitVars
  BY <1>5 DEF limitVars, FillingInv
<1> QED
  BY <1>1, <1>2, <1>3, <1>4, <1>5 DEF LimitNext

\* Every step keeps what the responses say of the quota.
LEMMA HeadersStep ==
  ASSUME LimitTypeOK, BurstInv, FillingInv, HeadersRight, [LimitNext]_limitVars
  PROVE  HeadersRight'
<1> DEFINE Reset(r, t) == /\ t \div TimeWindow = req[r].window
                          /\ t + req[r].reset = (req[r].window + 1) * TimeWindow
           H1 == \A r \in Requests : pc[r] # "idle" => \E t \in 0..now : Reset(r, t)
           H2 == \A r \in Requests : pc[r] = "next" /\ ~req[r].allowed => req[r].remaining = 0
           H3 == \A r, q \in Requests :
                   /\ r # q /\ pc[r] = "next" /\ pc[q] = "next" /\ req[r].allowed /\ req[q].allowed
                   /\ req[r].key = req[q].key /\ req[r].window = req[q].window
                   /\ req[r].filling = req[q].filling
                   => req[r].remaining # req[q].remaining
<1>0. (HeadersRight <=> H1 /\ H2 /\ H3) /\ (HeadersRight' <=> H1' /\ H2' /\ H3')
  BY DEF HeadersRight
<1>1. ASSUME Tick
      PROVE  HeadersRight'
  <2>1. 0..now \subseteq 0..now'
    BY <1>1 DEF Tick, LimitTypeOK
  <2> QED
    BY <1>1, <2>1 DEF Tick, HeadersRight
<1>2. ASSUME NEW r \in Requests, NEW k \in Keys, ReadClock(r, k)
      PROVE  HeadersRight'
  <2>1. now' = now /\ pc'[r] = "lock" /\ \A q \in Requests : q # r => pc'[q] = pc[q] /\ req'[q] = req[q]
    BY <1>2 DEF ReadClock, LimitTypeOK
  <2>2. Reset(r, now)'
    <3>1. req'[r].window = now \div TimeWindow /\ req'[r].reset = TimeWindow - (now % TimeWindow)
      BY <1>2 DEF ReadClock, LimitTypeOK, Computed
    <3>2. /\ now = TimeWindow * (now \div TimeWindow) + (now % TimeWindow)
          /\ now % TimeWindow \in 0..(TimeWindow - 1) /\ now \div TimeWindow \in Int
      BY Division DEF LimitTypeOK, Windows
    <3>3. now + (TimeWindow - (now % TimeWindow)) = ((now \div TimeWindow) + 1) * TimeWindow
      BY <3>2
    <3> QED
      BY <2>1, <3>1, <3>3
  <2>3. H1'
    <3>1. now \in 0..now
      BY DEF LimitTypeOK
    <3> QED
      BY <1>0, <2>1, <2>2, <3>1
  <2> QED
    BY <1>0, <2>1, <2>3
<1>3. ASSUME NEW r \in Requests, Decide(r)
      PROVE  HeadersRight'
  <2> DEFINE k == req[r].key
             w == req[r].window
  <2>1. k \in Keys /\ w \in Windows /\ <<k, w>> \in Keys \X Windows
    BY DEF LimitTypeOK, RequestType
  <2> PICK count \in 0..Count, counted \in 0..Count, allowed \in BOOLEAN :
        Charged(r, k, w, count, counted, allowed)
    BY <1>3, DecideCharges
  <2>2. now' = now /\ pc[r] = "lock" /\ \A q \in Requests : q # r => pc'[q] = pc[q] /\ req'[q] = req[q]
    BY <1>3 DEF Charged, LimitTypeOK, Decide
  <2>3. /\ req'[r].key = k /\ req'[r].window = w /\ req'[r].reset = req[r].reset
        /\ req'[r].allowed = allowed /\ req'[r].remaining = Count - counted
        /\ req'[r].filling = entered'[<<k, w>>]
    BY DEF Charged, LimitTypeOK
  <2>4. (allowed => counted = count + 1) /\ (~allowed => counted = Count)
    BY DEF Charged
  <2>5. H1'
    BY <1>0, <2>2, <2>3
  <2>6. H2'
    BY <1>0, <2>2, <2>3, <2>4
  <2>7. ASSUME NEW q \in Requests, q # r, pc[q] = "next", req[q].allowed, allowed,
               req[q].key = k, req[q].window = w, req[q].filling = entered'[<<k, w>>]
        PROVE  req[q].remaining # Count - counted
    <3>1. entered[<<k, w>>] \in Nat /\ req[q].remaining \in 0..Count /\ counters[k].count \in 0..Count
      BY <2>1 DEF LimitTypeOK, RequestType
    <3>2. req[q].filling <= entered[<<k, w>>]
      BY <2>7 DEF FillingInv
    <3>3. entered'[<<k, w>>] = IF counters[k].window # w THEN entered[<<k, w>>] + 1 ELSE entered[<<k, w>>]
      BY <2>1 DEF Charged, LimitTypeOK
    <3>4. counters[k].window = w /\ req[q].filling = entered[<<k, w>>]
      BY <2>7, <3>1, <3>2, <3>3
    <3>5. req[q].remaining >= Count - counters[k].count
      BY <2>7, <3>4 DEF FillingInv
    <3>6. count = counters[k].count
      BY <3>4 DEF Charged
    <3> QED
      BY <2>4, <2>7, <3>1, <3>5, <3>6
  <2>8. H3'
    BY <1>0, <2>2, <2>3, <2>7
  <2> QED
    BY <1>0, <2>5, <2>6, <2>8
<1>4. ASSUME NEW r \in Requests, Respond(r)
      PROVE  HeadersRight'
  BY Zenon, <1>4 DEF Respond, HeadersRight, LimitTypeOK
<1>5. CASE UNCHANGED limitVars
  BY <1>5 DEF limitVars, HeadersRight
<1> QED
  BY <1>1, <1>2, <1>3, <1>4, <1>5 DEF LimitNext

\* The inductive invariant holds in every state of the plugin.
THEOREM LimitInvariant == LimitSpec => []LimitInv
<1>1. LimitInit => LimitInv
  <2> SUFFICES ASSUME LimitInit PROVE LimitInv
    OBVIOUS
  <2>1. 0 \in Windows
    <3>1. MaxTime \div TimeWindow \in Windows /\ MaxTime \div TimeWindow >= 1
      BY Division
    <3> QED
      BY <3>1 DEF Windows
  <2>2. LimitTypeOK
    BY <2>1 DEF LimitInit, LimitTypeOK, RequestType, Computed, NoBucket
  <2> QED
    BY <2>2, OneMore DEF LimitInit, LimitInv, BurstInv, LateInv, FillingInv, HeadersRight, NoBucket
<1>2. LimitInv /\ [LimitNext]_limitVars => LimitInv'
  BY LimitTypeStep, BurstStep, LateStep, FillingStep, HeadersStep DEF LimitInv
<1> QED
  BY <1>1, <1>2, PTL DEF LimitSpec

\* "Fixed-window rate limiting per key": however many requests read the clock and
\* reach the bucket in any order, a window is charged more than Count requests of
\* a key only when a late request has thrown its bucket away.
THEOREM LimitHolds == LimitSpec => []OverrunOnlyByLate
<1>1. LimitInv => OverrunOnlyByLate
  <2> SUFFICES ASSUME LimitInv, NEW k \in Keys, NEW w \in Windows, <<k, w>> \notin overtaken
               PROVE  admitted[<<k, w>>] <= Count
    BY DEF OverrunOnlyByLate
  <2>1. entered[<<k, w>>] = 0 \/ entered[<<k, w>>] = 1
    <3>1. entered[<<k, w>>] \in Nat
      BY DEF LimitInv, LimitTypeOK
    <3>2. entered[<<k, w>>] <= 1
      BY Zenon DEF LimitInv, LateInv
    <3> QED
      BY <3>1, <3>2
  <2>2. admitted[<<k, w>>] <= Count * entered[<<k, w>>] /\ admitted[<<k, w>>] \in Nat
    BY DEF LimitInv, BurstInv, LimitTypeOK
  <2> QED
    BY <2>1, <2>2
<1> QED
  BY <1>1, LimitInvariant, PTL

\* The headers X-RateLimit-Reset and X-RateLimit-Remaining are right in every
\* response: see HeadersRight.
THEOREM HeadersAreRight == LimitSpec => []HeadersRight
<1>1. LimitInv => HeadersRight
  BY DEF LimitInv
<1> QED
  BY <1>1, LimitInvariant, PTL

=============================================================================
