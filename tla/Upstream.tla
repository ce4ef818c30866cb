------------------------------ MODULE Upstream ------------------------------
(***************************************************************************)
(* A proxied request from the last handler of its chain to the answer:     *)
(* HTTPProxy.ServeHTTP (internal/proxy/proxy.go) with its pooled           *)
(* traceTimings, the mapping of its errors to 502 and 504 and the metrics  *)
(* of the request (internal/gateway/gateway.go), and MemoryRecorder with   *)
(* Stats (internal/observability/observability.go).                        *)
(*                                                                         *)
(* net/http is external. What matters of it is who runs the callbacks of   *)
(* httptrace: GotConn runs in the goroutine of the request, but the dial,  *)
(* the write loop and the read loop of a connection are goroutines of      *)
(* their own. A request that takes an idle connection, times out or is     *)
(* answered early leaves them running, and they still hold its trace.      *)
(*                                                                         *)
(* A field of a timing holds the request whose event it was set by instead *)
(* of the time, and NoOne for the zero value. gotConnAt, reusedConn,       *)
(* bodyReadDoneAt and start, which only the goroutine of the request sets, *)
(* are left out, and so are the labels of a metric no property looks at.   *)
(* Requests with different objects meet only in the counters, so it is the *)
(* requests that draw the same object one after the other that matter: a   *)
(* request for which the pool has none of Objects waits (a bound), where   *)
(* sync.Pool would make another one.                                       *)
(***************************************************************************)
EXTENDS Naturals, FiniteSets, Folds

CONSTANTS
  Requests,         \* The requests, each with one goroutine.
  Objects,          \* The traceTimings objects that are followed.
  NoOne,            \* The zero value of a field, and of an error.
  ServiceTimeout,   \* For each request the timeouts of its service ...
  UpstreamTimeout,  \* ... and of its upstream: [connect, read, write].
  Https,            \* The requests whose target has the scheme https.
  Route,            \* The route ID of each request.
  Answers           \* The classes of the statuses it may be answered with.

Classes == {"2xx", "4xx", "5xx"}

ASSUME UpstreamAssumption ==
  /\ IsFiniteSet(Requests)
  /\ NoOne \notin Requests /\ NoOne \notin Objects /\ NoOne \notin {"timeout", "other"}
  /\ Https \subseteq Requests
  /\ Answers \in [Requests -> SUBSET Classes]

VARIABLES
  pc,        \* Where the goroutine of a request is.
  obj,       \* The object that the trace of a request writes to.
  pool,      \* The objects in traceTimingsPool.
  timing,    \* The fields of every object.
  dial,      \* The dial goroutine that carries the trace of a request.
  writer,    \* The write loop that carries it.
  reader,    \* The read loop that carries it.
  err,       \* The error of Do or io.Copy: NoOne, "timeout" or "other".
  status,    \* The status in the Response of the client: a class of the
             \* upstream's, or "502" or "504" of the gateway's own.
  whole,     \* Whether the body in that Response is complete.
  answer,    \* History: the class of the status the upstream answered with.
  seen,      \* What ServeHTTP of the proxy recorded: the class of the status,
             \* the error_type, and the other requests whose events it reports.
             \* An empty class or error_type is "none".
  late,      \* History: whose callbacks ran on the object of a request
             \* after they had given it back.
  upstreamRequests, gatewayRequests   \* The counters of MemoryRecorder.

vars == <<pc, obj, pool, timing, dial, writer, reader, err, status, whole,
          answer, seen, late, upstreamRequests, gatewayRequests>>
transport == <<dial, writer, reader>>
counters == <<upstreamRequests, gatewayRequests>>

Fields == {"connectStart", "connectDone", "connectErr", "tlsStart", "tlsDone", "tlsErr",
           "wrote", "writeErr", "firstByte"}
Zero == [f \in Fields |-> NoOne]
NotSeen == [class |-> "none", error |-> "unset", others |-> {}]

(***************************************************************************)
(* Timeouts.                                                               *)
(***************************************************************************)
MergedTimeout(service, upstream) ==
  [f \in DOMAIN service |-> IF service[f] = 0 THEN upstream[f] ELSE service[f]]

RequestTimeoutOfRead(t) == t.read

RequestTimeout(t) ==
  LET total == t.connect + t.read + t.write IN
  IF total > 0 THEN total ELSE IF t.read > 0 THEN t.read ELSE t.write

Timed(r) == RequestTimeout(MergedTimeout(ServiceTimeout[r], UpstreamTimeout[r])) > 0

(***************************************************************************)
(* traceTimings.                                                           *)
(***************************************************************************)
Holds(r) == pc[r] \in {"connect", "sent", "body", "failed", "copied", "returning"}

\* A callback of the trace of r sets and clears fields of the object it was
\* made for, whoever has that object now.
Stamp(r, set, clear) ==
  /\ timing' = [timing EXCEPT ![obj[r]] =
       [f \in Fields |-> IF f \in set THEN r ELSE IF f \in clear THEN NoOne ELSE @[f]]]
  /\ late' = [q \in Requests |->
       IF q # r /\ Holds(q) /\ obj[q] = obj[r] /\ ~Holds(r) THEN late[q] \cup {r} ELSE late[q]]

\* snapshot: the phases it reports, each with the fields it is computed from.
PhaseFields ==
  [connect |-> {"connectStart", "connectDone"}, tls_handshake |-> {"tlsStart", "tlsDone"},
   request_write |-> {"wrote"}, first_byte |-> {"wrote", "firstByte"}, response_read |-> {"firstByte"}]

Measured(t) == {p \in DOMAIN PhaseFields : \A f \in PhaseFields[p] : t[f] # NoOne}

\* The requests whose events the snapshot reports: those of the phases, and
\* the handshake where the write is taken to begin.
SnapshotFrom(t) ==
  LET used == (UNION {PhaseFields[p] : p \in Measured(t)})
              \cup (IF t["wrote"] = NoOne THEN {} ELSE {"tlsDone"})
  IN {t[f] : f \in used} \ {NoOne}

ClassifyErrorType(e, t) ==
  IF t["connectErr"] # NoOne THEN "connect_error"
  ELSE IF t["tlsErr"] # NoOne THEN "tls_error"
  ELSE IF t["writeErr"] # NoOne THEN "write_error"
  ELSE IF e = "timeout" THEN "timeout"
  ELSE IF t["firstByte"] # NoOne THEN "read_error" ELSE "bad_gateway"

ErrorFrom(t) == {t[f] : f \in {"connectErr", "tlsErr", "writeErr", "firstByte"}} \ {NoOne}

(***************************************************************************)
(* The recorder: each call holds its mutex, so each is one step.           *)
(***************************************************************************)
\* map[key]++, where a key that is not in the map counts as 0.
Incremented(map, key) ==
  [k \in DOMAIN map \cup {key} |->
     (IF k \in DOMAIN map THEN map[k] ELSE 0) + (IF k = key THEN 1 ELSE 0)]

ObserveUpstreamAnswered(route, class) ==
  IF class = "none" THEN UNCHANGED upstreamRequests
  ELSE upstreamRequests' = Incremented(upstreamRequests, [route |-> route, class |-> class])

ObserveUpstream(route, class) ==
  upstreamRequests' = Incremented(upstreamRequests, [route |-> route, class |-> class])

ObserveGateway(class) == gatewayRequests' = Incremented(gatewayRequests, class)

StatusClass(code) == IF code \in {"502", "504"} THEN "5xx" ELSE code

\* How often the keys of S were counted.
Count(map, S) ==
  MapThenFoldSet(+, 0, LAMBDA k : map[k], LAMBDA K : CHOOSE k \in K : TRUE, (DOMAIN map) \cap S)

\* GET /control/stats: computed from the counters of the upstream requests.
Stats ==
  LET keys == DOMAIN upstreamRequests
      failed == {k \in keys : k.class \in {"4xx", "5xx"}}
      routes == {k.route : k \in keys}
  IN [total |-> Count(upstreamRequests, keys),
      errors4xx |-> Count(upstreamRequests, {k \in keys : k.class = "4xx"}),
      errors5xx |-> Count(upstreamRequests, {k \in keys : k.class = "5xx"}),
      requests |-> [i \in routes |-> Count(upstreamRequests, {k \in keys : k.route = i})],
      errors |-> [i \in routes |-> Count(upstreamRequests, {k \in failed : k.route = i})]]

Init ==
  /\ pc = [r \in Requests |-> "new"] /\ obj = [r \in Requests |-> NoOne]
  /\ pool = Objects /\ timing = [o \in Objects |-> Zero]
  /\ dial = [r \in Requests |-> "none"]
  /\ writer = [r \in Requests |-> "none"] /\ reader = [r \in Requests |-> "none"]
  /\ err = [r \in Requests |-> NoOne] /\ status = [r \in Requests |-> "none"]
  /\ whole = [r \in Requests |-> FALSE] /\ answer = [r \in Requests |-> "none"]
  /\ seen = [r \in Requests |-> NotSeen] /\ late = [r \in Requests |-> {}]
  /\ upstreamRequests = <<>> /\ gatewayRequests = <<>>

Goto(r, label) == pc' = [pc EXCEPT ![r] = label]

(***************************************************************************)
(* The requests that never reach the proxy: the admin API, /metrics, no    *)
(* snapshot, no route, a plugin that aborts, no handler, no endpoint.      *)
(***************************************************************************)
ServeLocally(r) ==
  /\ pc[r] = "new"
  /\ \E class \in Answers[r] : status' = [status EXCEPT ![r] = class] /\ ObserveGateway(class)
  /\ Goto(r, "done")
  /\ UNCHANGED <<obj, pool, timing, transport, err, whole, answer, seen, late, upstreamRequests>>

(***************************************************************************)
(* HTTPProxy.ServeHTTP.                                                    *)
(***************************************************************************)
\* newUpstreamRequest fails: nothing is sent and nothing is recorded.
InvalidTarget(r) ==
  /\ pc[r] = "new"
  /\ status' = [status EXCEPT ![r] = "502"]
  /\ Goto(r, "answered")
  /\ UNCHANGED <<obj, pool, timing, transport, err, whole, answer, seen, late, counters>>

BeginUncleared(r) ==
  /\ pc[r] = "new"
  /\ \E o \in pool :
       /\ pool' = pool \ {o}
       /\ obj' = [obj EXCEPT ![r] = o]
  /\ Goto(r, "connect")
  /\ UNCHANGED <<timing, transport, err, status, whole, answer, seen, late, counters>>

\* newTraceTimings and the call of Do.
Begin(r) ==
  /\ pc[r] = "new"
  /\ \E o \in pool :
       /\ pool' = pool \ {o}
       /\ obj' = [obj EXCEPT ![r] = o]
       /\ timing' = [timing EXCEPT ![o] = Zero]
  /\ Goto(r, "connect")
  /\ UNCHANGED <<transport, err, status, whole, answer, seen, late, counters>>

(***************************************************************************)
(* External: the transport. No connection is idle and a dial is started,   *)
(* whose goroutine runs the callbacks of connecting and of the handshake.  *)
(***************************************************************************)
StartDial(r) ==
  /\ pc[r] = "connect" /\ dial[r] = "none"
  /\ dial' = [dial EXCEPT ![r] = "connecting"]
  /\ Stamp(r, {"connectStart"}, {})
  /\ UNCHANGED <<pc, obj, pool, writer, reader, err, status, whole, answer, seen, counters>>

\* A request that no longer waits for its dial does not learn how it ends.
DialEnds(r, how) == dial' = [dial EXCEPT ![r] = IF pc[r] = "connect" THEN how ELSE "none"]

Dial(r) ==
  /\ \/ /\ dial[r] = "connecting" /\ r \notin Https /\ DialEnds(r, "ready")
        /\ Stamp(r, {"connectDone"}, {"connectErr"})
     \/ /\ dial[r] = "connecting" /\ r \in Https /\ dial' = [dial EXCEPT ![r] = "handshake"]
        /\ Stamp(r, {"connectDone", "tlsStart"}, {"connectErr"})
     \/ /\ dial[r] = "connecting" /\ DialEnds(r, "failed")
        /\ Stamp(r, {"connectDone", "connectErr"}, {})
     \/ /\ dial[r] = "handshake" /\ DialEnds(r, "ready")
        /\ Stamp(r, {"tlsDone"}, {"tlsErr"})
     \/ /\ dial[r] = "handshake" /\ DialEnds(r, "failed")
        /\ Stamp(r, {"tlsDone", "tlsErr"}, {})
  /\ UNCHANGED <<pc, obj, pool, writer, reader, err, status, whole, answer, seen, counters>>

\* The request is given the connection it dialled, or one that is idle or
\* becomes idle before; its own dial then goes on.
GotConn(r) ==
  /\ pc[r] = "connect" /\ dial[r] # "failed"
  /\ dial' = [dial EXCEPT ![r] = IF @ = "ready" THEN "none" ELSE @]
  /\ writer' = [writer EXCEPT ![r] = "busy"] /\ reader' = [reader EXCEPT ![r] = "busy"]
  /\ Goto(r, "sent")
  /\ UNCHANGED <<obj, pool, timing, err, status, whole, answer, seen, late, counters>>

WriteLoop(r) ==
  /\ writer[r] = "busy" /\ writer' = [writer EXCEPT ![r] = "none"]
  /\ Stamp(r, {"wrote"}, {"writeErr"}) \/ Stamp(r, {"wrote", "writeErr"}, {})
  /\ UNCHANGED <<pc, obj, pool, dial, reader, err, status, whole, answer, seen, counters>>

ReadLoop(r) ==
  /\ reader[r] = "busy" /\ reader' = [reader EXCEPT ![r] = IF pc[r] = "sent" THEN "head" ELSE "none"]
  /\ Stamp(r, {"firstByte"}, {})
  /\ UNCHANGED <<pc, obj, pool, dial, writer, err, status, whole, answer, seen, counters>>

\* The goroutines that are still at work when the request stops waiting for
\* them. One of them is followed (a bound); the others never call.
LeaveBehind(r) ==
  \E g \in {"dial", "writer", "reader"} :
    /\ dial' = [dial EXCEPT ![r] = IF g = "dial" /\ @ \in {"connecting", "handshake"} THEN @ ELSE "none"]
    /\ writer' = [writer EXCEPT ![r] = IF g = "writer" THEN @ ELSE "none"]
    /\ reader' = [reader EXCEPT ![r] = IF g = "reader" /\ @ = "busy" THEN @ ELSE "none"]

(***************************************************************************)
(* Do returns.                                                             *)
(***************************************************************************)
\* With an error: a dial that failed, a connection that broke, a timeout of
\* the transport.
RoundTripFails(r) ==
  /\ \/ pc[r] = "connect" /\ dial[r] = "failed"
     \/ pc[r] = "sent"
  /\ \E e \in {"timeout", "other"} : err' = [err EXCEPT ![r] = e]
  /\ LeaveBehind(r)
  /\ Goto(r, "failed")
  /\ UNCHANGED <<obj, pool, timing, status, whole, answer, seen, late, counters>>

\* With a response: the Response of the client is reset and takes its status.
Responds(r) ==
  /\ pc[r] = "sent" /\ reader[r] = "head" /\ reader' = [reader EXCEPT ![r] = "none"]
  /\ \E c \in Answers[r] :
       status' = [status EXCEPT ![r] = c] /\ answer' = [answer EXCEPT ![r] = c]
  /\ Stamp(r, IF timing[obj[r]]["firstByte"] = NoOne THEN {"firstByte"} ELSE {}, {})
  /\ Goto(r, "body")
  /\ UNCHANGED <<obj, pool, dial, writer, err, whole, seen, counters>>

\* io.Copy and finishBodyRead.
CopyBody(r) ==
  /\ pc[r] = "body"
  /\ \/ whole' = [whole EXCEPT ![r] = TRUE] /\ UNCHANGED err
     \/ (\E e \in {"timeout", "other"} : err' = [err EXCEPT ![r] = e]) /\ UNCHANGED whole
  /\ LeaveBehind(r)
  /\ Goto(r, "copied")
  /\ UNCHANGED <<obj, pool, timing, status, answer, seen, late, counters>>

\* The Timeout of the client ends Do or the reading of the body.
TimesOut(r) ==
  /\ pc[r] \in {"connect", "sent", "body"} /\ Timed(r)
  /\ err' = [err EXCEPT ![r] = "timeout"]
  /\ LeaveBehind(r)
  /\ Goto(r, IF pc[r] = "body" THEN "copied" ELSE "failed")
  /\ UNCHANGED <<obj, pool, timing, status, whole, answer, seen, late, counters>>

\* recordUpstreamObservation of snapshot and classifyErrorType.
Observe(r) ==
  /\ pc[r] \in {"failed", "copied"}
  /\ LET t == timing[obj[r]]
         class == IF pc[r] = "copied" THEN status[r] ELSE "none"
         error == IF err[r] = NoOne THEN "none" ELSE ClassifyErrorType(err[r], t)
     IN /\ seen' = [seen EXCEPT ![r] =
             [class |-> class, error |-> error,
              others |-> (SnapshotFrom(t) \cup (IF err[r] = NoOne THEN {} ELSE ErrorFrom(t))) \ {r}]]
        /\ ObserveUpstream(Route[r], class)
  /\ Goto(r, "returning")
  /\ UNCHANGED <<obj, pool, timing, transport, err, status, whole, answer, late, gatewayRequests>>

\* What only ServeHTTP of the proxy knew of the request is gone.
Forget(r) ==
  /\ err' = [err EXCEPT ![r] = NoOne] /\ whole' = [whole EXCEPT ![r] = FALSE]
  /\ seen' = [seen EXCEPT ![r] = NotSeen] /\ late' = [late EXCEPT ![r] = {}]

ReturnBodyErrorIgnored(r) ==
  /\ pc[r] = "returning"
  /\ timing' = [timing EXCEPT ![obj[r]] = Zero] /\ pool' = pool \cup {obj[r]}
  /\ status' = [status EXCEPT ![r] =
       IF err[r] = NoOne \/ answer[r] # "none" THEN @ ELSE IF err[r] = "timeout" THEN "504" ELSE "502"]
  /\ Forget(r)
  /\ Goto(r, "answered")
  /\ UNCHANGED <<obj, transport, answer, counters>>

\* The deferred releaseTraceTimings, and the last handler of the chain, which
\* turns an error into the status of the answer.
Return(r) ==
  /\ pc[r] = "returning"
  /\ timing' = [timing EXCEPT ![obj[r]] = Zero] /\ pool' = pool \cup {obj[r]}
  /\ status' = [status EXCEPT ![r] =
       IF err[r] = NoOne THEN @ ELSE IF err[r] = "timeout" THEN "504" ELSE "502"]
  /\ Forget(r)
  /\ Goto(r, "answered")
  /\ UNCHANGED <<obj, transport, answer, counters>>

\* The deferred ObserveGateway of Gateway.ServeHTTP.
Account(r) ==
  /\ pc[r] = "answered"
  /\ ObserveGateway(StatusClass(status[r]))
  /\ Goto(r, "done")
  /\ status' = [status EXCEPT ![r] = StatusClass(@)]
  /\ UNCHANGED <<obj, pool, timing, transport, err, whole, answer, seen, late, upstreamRequests>>

\* Every request is answered: a callback finds no one any more.
Quiet == \A r \in Requests : pc[r] = "done"

Own(r) == Observe(r) \/ Return(r) \/ Account(r)

Next ==
  \/ \E r \in Requests :
       \/ ServeLocally(r) \/ InvalidTarget(r) \/ Begin(r)
       \/ StartDial(r) \/ GotConn(r)
       \/ ~Quiet /\ (Dial(r) \/ WriteLoop(r) \/ ReadLoop(r))
       \/ RoundTripFails(r) \/ Responds(r) \/ CopyBody(r) \/ TimesOut(r) \/ Own(r)
  \/ Quiet /\ UNCHANGED vars

Spec == Init /\ [][Next]_vars

\* The goroutine of a request goes on, and time passes. Nothing is assumed of
\* the upstream, and a goroutine of the transport may never come to its end.
FairSpec == Spec /\ \A r \in Requests : WF_vars(Own(r) \/ TimesOut(r))

(***************************************************************************)
(* Properties.                                                             *)
(***************************************************************************)
\* What is recorded of a request, its phases and its error_type, comes from its
\* own round trips. The one exception is a goroutine that an
\* earlier user of the same object left behind and whose callback ran after
\* that user had given the object back to traceTimingsPool: the pool hands on
\* an object that the trace of a finished request still writes to.
OwnTimings ==
  \A r \in Requests : seen[r].others \subseteq late[r]

\* The client and the metrics are told the same: without an error_type the
\* client has the status the upstream answered with and the whole body; with
\* one it has 502 or 504 and never the upstream's status over a body that
\* broke off; "timeout" is 504; the recorded class is the upstream's.
AnswerMatchesRecord ==
  [][\A r \in Requests : pc[r] = "returning" /\ pc'[r] # "returning" =>
       /\ seen[r].class = answer[r]
       /\ seen[r].error = "none" => status'[r] = answer[r] /\ whole[r]
       /\ seen[r].error # "none" => status'[r] \in {"502", "504"}
       /\ seen[r].error = "timeout" => status'[r] = "504"]_vars

\* Whatever way a request takes it is counted once by the gateway, and once
\* as an upstream request if and only if Do was called. So Stats reports as
\* requests those that were sent, and as errors those the upstream answered
\* with 4xx or 5xx, also when the body then broke off; a request that got no
\* answer is in the total but is no error.
CountedOnce ==
  LET sent == {r \in Requests : obj[r] # NoOne /\ pc[r] \in {"returning", "answered", "done"}}
      AnsweredWith(c) == {r \in sent : answer[r] \in c}
  IN /\ Stats.total = Cardinality(sent)
     /\ Stats.errors4xx = Cardinality(AnsweredWith({"4xx"}))
     /\ Stats.errors5xx = Cardinality(AnsweredWith({"5xx"}))
     /\ \A i \in DOMAIN Stats.requests :
          /\ Stats.requests[i] = Cardinality({r \in sent : Route[r] = i})
          /\ Stats.errors[i] = Cardinality({r \in AnsweredWith({"4xx", "5xx"}) : Route[r] = i})
     /\ \A c \in Classes : Count(gatewayRequests, {c}) =
          Cardinality({r \in Requests : pc[r] = "done" /\ status[r] = c})

\* A request with any timeout set on its service or on its upstream is
\* answered, whatever the upstream and the connections to it do.
Answered ==
  \A r \in Requests :
    (\E f \in {"connect", "read", "write"} : ServiceTimeout[r][f] > 0 \/ UpstreamTimeout[r][f] > 0)
      => (pc[r] = "connect" ~> pc[r] = "done")
=============================================================================
