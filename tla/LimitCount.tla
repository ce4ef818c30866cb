------------------------------ MODULE LimitCount ------------------------------
(***************************************************************************)
(* The limit_count plugin (internal/plugin/builtin/limit_count.go): one    *)
(* handler closure, called by concurrent requests, with a counter per key  *)
(* for the current time window. The window is computed from the clock      *)
(* before the mutex is taken, so requests may reach the counter in another *)
(* order than they read the clock.                                         *)
(***************************************************************************)
EXTENDS Integers

CONSTANTS
  Requests,    \* goroutines that run the handler
  Keys,        \* counter keys: scope and derived key
  Count,       \* cfg.Count
  TimeWindow,  \* cfg.TimeWindow, in seconds
  MaxTime      \* bound on the clock

\* The plugin refuses other configurations; the bound lets the first window end.
ASSUME ConfigAssumption ==
  /\ Count \in Nat \ {0} /\ TimeWindow \in Nat \ {0}
  /\ MaxTime \in Nat /\ MaxTime >= 2 * TimeWindow - 1

VARIABLES
  now,       \* time.Now().Unix()
  counters,  \* the bucket of each key; the zero bucket before its first request
  pc,        \* where each request is in the handler
  req,       \* what it computed: key, window, reset, allowed, remaining;
             \* history: which filling of the bucket it was charged to
  admitted,  \* history: requests admitted per key and window
  entered,   \* history: how often the bucket of a key was set to a window
  overtaken  \* history: the windows of a key, from that of a late request on,
             \* whose bucket the late request threw away

limitVars == <<now, counters, pc, req, admitted, entered, overtaken>>

\* The clock starts in window 1: window 0 lies at the Unix epoch.
Windows == 0..(MaxTime \div TimeWindow)
Computed(k, window, reset) ==
  [key |-> k, window |-> window, reset |-> reset, allowed |-> FALSE, remaining |-> 0,
   filling |-> 0]
NoBucket == [window |-> 0, count |-> 0]

LimitInit ==
  /\ now \in TimeWindow..(2 * TimeWindow - 1)
  /\ counters = [k \in Keys |-> NoBucket]
  /\ pc = [r \in Requests |-> "idle"]
  /\ \E k \in Keys :
       req = [r \in Requests |-> Computed(k, 0, TimeWindow)]
  /\ admitted = [kw \in Keys \X Windows |-> 0]
  /\ entered = [kw \in Keys \X Windows |-> 0]
  /\ overtaken = {}

Tick ==
  /\ now < MaxTime
  /\ now' = now + 1
  /\ UNCHANGED <<counters, pc, req, admitted, entered, overtaken>>

\* The key is derived and the clock is read.
ReadClockRounded(r, k) ==
  /\ pc[r] = "idle"
  /\ req' = [req EXCEPT ![r] = Computed(k, now \div TimeWindow,
                                        TimeWindow - 1 - (now % TimeWindow))]
  /\ pc' = [pc EXCEPT ![r] = "lock"]
  /\ UNCHANGED <<now, counters, admitted, entered, overtaken>>
ReadClock(r, k) ==
  /\ pc[r] = "idle"
  /\ req' = [req EXCEPT ![r] = Computed(k, now \div TimeWindow,
                                        TimeWindow - (now % TimeWindow))]
  /\ pc' = [pc EXCEPT ![r] = "lock"]
  /\ UNCHANGED <<now, counters, admitted, entered, overtaken>>

\* bucket.count < cfg.Count
AllowedOffByOne(count) == count <= Count
Allowed(count) == count < Count

\* bucket.window != window: the bucket is set to the window of the request,
\* whichever of the two is the later one.
Outdated(bucket, window) == bucket.window # window

\* The critical section.
Decide(r) ==
  LET k == req[r].key
      w == req[r].window
      reset == Outdated(counters[k], w)
      count == IF reset THEN 0 ELSE counters[k].count
      allowed == Allowed(count)
      counted == IF allowed THEN count + 1 ELSE count
  IN  /\ pc[r] = "lock"
      /\ counters' = [counters EXCEPT ![k] = [window |-> w, count |-> counted]]
      /\ admitted' = IF allowed THEN [admitted EXCEPT ![<<k, w>>] = @ + 1] ELSE admitted
      /\ entered' = IF reset THEN [entered EXCEPT ![<<k, w>>] = @ + 1] ELSE entered
      /\ overtaken' = overtaken \cup
           IF w < counters[k].window THEN {k} \X (w..counters[k].window) ELSE {}
      /\ req' = [req EXCEPT ![r] =
           [key |-> k, window |-> w, reset |-> @.reset, allowed |-> allowed,
            remaining |-> IF counted > Count THEN 0 ELSE Count - counted,
            filling |-> entered'[<<k, w>>]]]
      /\ pc' = [pc EXCEPT ![r] = "next"]
      /\ UNCHANGED now

\* The rejection, or the rest of the chain and the headers of the response.
Respond(r) ==
  /\ pc[r] = "next"
  /\ pc' = [pc EXCEPT ![r] = "idle"]
  /\ req' = [req EXCEPT ![r] = Computed(@.key, 0, TimeWindow)]
  /\ UNCHANGED <<now, counters, admitted, entered, overtaken>>

LimitNext ==
  \/ Tick
  \/ \E r \in Requests : Decide(r) \/ Respond(r) \/ \E k \in Keys : ReadClock(r, k)

LimitSpec == LimitInit /\ [][LimitNext]_limitVars

-----------------------------------------------------------------------------
(* Properties *)

\* "max requests per window" (docs/guide.md:539): no more than Count requests of a
\* key are admitted in a window.
CountPerWindow == \A kw \in Keys \X Windows : admitted[kw] <= Count

\* The one way to exceed that bound is a request that read the clock in one
\* window and reached the bucket after a request of a later window: it throws
\* away the counts of the later window, and its own were thrown away before. A
\* window that no late request has touched keeps the bound, however requests
\* interleave and however many windows pass.
OverrunOnlyByLate ==
  \A kw \in Keys \X Windows : admitted[kw] <= Count \/ kw \in overtaken

\* What the response says of the quota. X-RateLimit-Reset leads from the second
\* in which the clock was read to the end of the window that is charged, and is
\* never zero. X-RateLimit-Remaining counts down: two requests admitted from the
\* same filling of the bucket report different numbers, and a rejected one zero,
\* although both headers are written long after the mutex was released.
HeadersRight ==
  /\ \A r \in Requests : pc[r] # "idle" =>
       \E t \in 0..now : /\ t \div TimeWindow = req[r].window
                         /\ t + req[r].reset = (req[r].window + 1) * TimeWindow
  /\ \A r \in Requests : pc[r] = "next" /\ ~req[r].allowed => req[r].remaining = 0
  /\ \A r, q \in Requests :
       /\ r # q /\ pc[r] = "next" /\ pc[q] = "next" /\ req[r].allowed /\ req[q].allowed
       /\ req[r].key = req[q].key /\ req[r].window = req[q].window /\ req[r].filling = req[q].filling
       => req[r].remaining # req[q].remaining

=============================================================================
