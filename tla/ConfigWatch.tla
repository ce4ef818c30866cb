------------------------------ MODULE ConfigWatch ------------------------------
(***************************************************************************)
(* How a configuration reaches the gateway: lumen.go loads it, starts the  *)
(* gateway and runs the Watch of the etcd source on a goroutine            *)
(* (internal/provider/provider.go), which loads the whole prefix again for *)
(* every watch response and hands it to Gateway.Reload.                    *)
(*                                                                         *)
(* etcd is external: a sequence of revisions, a read of the whole prefix   *)
(* at the latest revision, and a watch stream that reports, in order, the  *)
(* revisions written after it was created. A revision is abstracted to     *)
(* what becomes of it. Reload, modelled step by step in Gateway, is here   *)
(* its compilation, its Swap and the return of the Close of the old        *)
(* snapshot. The configurations of this source carry no logging options,   *)
(* so logging.Configure after a reload changes nothing.                    *)
(***************************************************************************)
EXTENDS Integers, Sequences

CONSTANTS
  MaxRev,     \* bound on the revisions written to the prefix
  MaxBreaks,  \* bound on the failures of the watch stream
  LoadFaults  \* whether a read of etcd may fail or time out

ASSUME BoundsAssumption ==
  MaxRev \in Nat \ {0} /\ MaxBreaks \in Nat /\ LoadFaults \in BOOLEAN

VARIABLES
  kinds,      \* kinds[i]: what the prefix holds at revision i
  streamUp,   \* the watch stream of the current watchCh is alive
  sent,       \* the revision up to which the stream has reported
  watchCh,    \* the responses the stream has delivered
  breaks,     \* failures of the stream so far
  wpc,        \* where the watch goroutine is
  notified,   \* the revision reported by the response being handled
  loaded,     \* the revision Load returned
  seen,       \* the latest revision any Load has read
  serving,    \* the revision of g.snapshot, 0 when it is nil
  cancelled,  \* runCtx is cancelled
  errCh,      \* errCh of the main goroutine
  running,    \* gw.Run() has not returned
  mpc,        \* where the main goroutine is
  gap         \* revisions of which the gateway is not going to hear

etcdVars == <<kinds, streamUp, sent, watchCh, breaks>>
watchVars == <<wpc, notified, loaded, seen, serving, gap>>
mainVars == <<cancelled, errCh, running, mpc>>
vars == <<kinds, streamUp, sent, watchCh, breaks, wpc, notified, loaded, seen,
          serving, gap, cancelled, errCh, running, mpc>>

\* A malformed prefix fails in Load (decoding, translation, validation), an
\* uncompilable one in Compile (a plugin out of scope, bad plugin parameters).
Kinds == {"good", "malformed", "uncompilable"}
Revisions == 1..MaxRev
rev == Len(kinds)

Responses == [type : {"events", "empty", "error", "closed"}, upTo : 0..MaxRev]
Response(type) == [type |-> type, upTo |-> 0]
WatchLabels == {"boot", "startWatch", "select", "sleep", "load", "compile", "swap",
                "drain", "returned"}

TypeOK ==
  /\ kinds \in Seq(Kinds) /\ rev \in Revisions
  /\ streamUp \in BOOLEAN /\ sent \in 0..rev /\ breaks \in 0..MaxBreaks
  /\ watchCh \in Seq(Responses)
  /\ wpc \in WatchLabels
  /\ loaded \in 0..rev /\ seen \in 0..rev /\ serving \in 0..rev
  /\ notified \in 0..MaxRev /\ gap \subseteq Revisions
  /\ cancelled \in BOOLEAN /\ running \in BOOLEAN
  /\ errCh \in Seq({"nil", "canceled"})
  /\ mpc \in {"boot", "select", "shutdown", "closing", "exit", "abandoned"}

Init ==
  /\ kinds \in {<<k>> : k \in Kinds}
  /\ streamUp = FALSE /\ sent = 0 /\ breaks = 0 /\ watchCh = <<>>
  /\ wpc = "boot" /\ notified = 0 /\ loaded = 0 /\ seen = 0 /\ serving = 0
  /\ gap = {}
  /\ cancelled = FALSE /\ errCh = <<>> /\ running = FALSE /\ mpc = "boot"

\* The process exists until the main goroutine returns.
Alive == mpc \notin {"exit", "abandoned"}

-----------------------------------------------------------------------------
(* etcd *)

Write(k) ==
  /\ Alive /\ rev < MaxRev
  /\ kinds' = Append(kinds, k)
  /\ UNCHANGED <<streamUp, sent, watchCh, breaks, watchVars, mainVars>>

Deliver(response) == watchCh' = Append(watchCh, response)

\* One response reports one or more revisions.
SendEvents ==
  /\ Alive /\ streamUp
  /\ \E r \in (sent + 1)..rev :
       /\ sent' = r
       /\ Deliver([type |-> "events", upTo |-> r])
  /\ UNCHANGED <<kinds, streamUp, breaks, watchVars, mainVars>>

SendEmpty ==
  /\ Alive /\ streamUp /\ watchCh = <<>>
  /\ Deliver(Response("empty"))
  /\ UNCHANGED <<kinds, streamUp, sent, breaks, watchVars, mainVars>>

\* The stream ends, with an error response (a compaction, a lost leader) or
\* with the channel closed; it reports nothing after that.
BreakStream ==
  /\ Alive /\ streamUp
  /\ breaks < MaxBreaks
  /\ breaks' = breaks + 1
  /\ streamUp' = FALSE
  /\ \E type \in {"error", "closed"} : Deliver(Response(type))
  /\ UNCHANGED <<kinds, sent, watchVars, mainVars>>

-----------------------------------------------------------------------------
(* Start of the process *)

\* source.Load and gateway.NewWithCompiler; either error ends the process.
Boot ==
  /\ mpc = "boot"
  /\ IF kinds[rev] = "good"
       THEN /\ wpc' = "startWatch" /\ seen' = rev /\ serving' = rev
            /\ mpc' = "select" /\ running' = TRUE
       ELSE /\ mpc' = "exit"
            /\ UNCHANGED <<wpc, seen, serving, running>>
  /\ UNCHANGED <<etcdVars, notified, loaded, gap, cancelled, errCh>>

-----------------------------------------------------------------------------
(* etcdApisixSource.Watch *)

\* s.client.Watch without a start revision: the stream begins after the latest
\* revision, whatever was read before.
StartWatch ==
  /\ Alive /\ wpc = "startWatch"
  /\ streamUp' = TRUE /\ sent' = rev /\ watchCh' = <<>>
  /\ gap' = gap \cup (seen + 1)..rev
  /\ wpc' = "select"
  /\ UNCHANGED <<kinds, breaks, notified, loaded, seen, serving, mainVars>>

\* ctx.Done() in the select or in sleepContext: Watch returns ctx.Err().
WatchDone ==
  /\ Alive /\ cancelled
  /\ wpc \in {"select", "sleep"}
  /\ wpc' = "returned"
  /\ errCh' = Append(errCh, "canceled")
  /\ UNCHANGED <<etcdVars, notified, loaded, seen, serving, gap, cancelled, running, mpc>>

\* A response: events are loaded, an empty response is skipped, an error or a
\* closed channel leads to a new watch after the retry delay.
ReceiveIgnoresCoalesced ==
  /\ Alive /\ wpc = "select"
  /\ watchCh # <<>>
  /\ watchCh' = Tail(watchCh)
  /\ LET response == Head(watchCh)
     IN  /\ wpc' = CASE response.type = "events" ->
                          IF response.upTo > seen + 1 THEN "select" ELSE "load"
                     [] response.type = "empty" -> "select"
                     [] OTHER -> "sleep"
         /\ notified' = IF response.type = "events" THEN response.upTo ELSE notified
  /\ UNCHANGED <<kinds, streamUp, sent, breaks, loaded, seen, serving, gap, mainVars>>
Receive ==
  /\ Alive /\ wpc = "select"
  /\ watchCh # <<>>
  /\ watchCh' = Tail(watchCh)
  /\ LET response == Head(watchCh)
     IN  /\ wpc' = CASE response.type = "events" -> "load"
                     [] response.type = "empty" -> "select"
                     [] OTHER -> "sleep"
         /\ notified' = IF response.type = "events" THEN response.upTo ELSE notified
  /\ UNCHANGED <<kinds, streamUp, sent, breaks, loaded, seen, serving, gap, mainVars>>

RetrySameChannel ==
  /\ Alive /\ wpc = "sleep"
  /\ wpc' = "select"
  /\ UNCHANGED <<etcdVars, notified, loaded, seen, serving, gap, mainVars>>
RetryDelayOver ==
  /\ Alive /\ wpc = "sleep"
  /\ wpc' = "startWatch"
  /\ UNCHANGED <<etcdVars, notified, loaded, seen, serving, gap, mainVars>>

\* s.Load reads the prefix as it is now, not as it was at the event; what does
\* not decode or translate is reported to the callback, which skips it.
LoadStale ==
  /\ Alive /\ wpc = "load"
  /\ \E r \in 1..rev :
       IF kinds[r] = "malformed"
         THEN wpc' = "select" /\ UNCHANGED <<loaded, seen>>
         ELSE wpc' = "compile" /\ loaded' = r /\ seen' = r
  /\ UNCHANGED <<etcdVars, notified, serving, gap, mainVars>>
Load ==
  /\ Alive /\ wpc = "load"
  /\ seen' = rev
  /\ IF kinds[rev] = "malformed"
       THEN wpc' = "select" /\ UNCHANGED loaded
       ELSE wpc' = "compile" /\ loaded' = rev
  /\ UNCHANGED <<etcdVars, notified, serving, gap, mainVars>>

\* The read fails or times out: the event is consumed and not retried.
LoadFails ==
  /\ Alive /\ wpc = "load"
  /\ LoadFaults \/ cancelled
  /\ wpc' = "select"
  /\ gap' = gap \cup (seen + 1)..notified
  /\ UNCHANGED <<etcdVars, notified, loaded, seen, serving, mainVars>>

-----------------------------------------------------------------------------
(* The callback: Gateway.Reload *)

CompileUnchecked ==
  /\ Alive /\ wpc = "compile"
  /\ wpc' = "swap"
  /\ UNCHANGED <<etcdVars, notified, loaded, seen, serving, gap, mainVars>>
Compile ==
  /\ Alive /\ wpc = "compile"
  /\ wpc' = IF kinds[loaded] = "good" THEN "swap" ELSE "select"
  /\ UNCHANGED <<etcdVars, notified, loaded, seen, serving, gap, mainVars>>

Swap ==
  /\ Alive /\ wpc = "swap"
  /\ serving' = loaded
  /\ wpc' = "drain"
  /\ UNCHANGED <<etcdVars, notified, loaded, seen, gap, mainVars>>

\* The Close of the old snapshot has returned.
Drained ==
  /\ Alive /\ wpc = "drain"
  /\ wpc' = "select"
  /\ UNCHANGED <<etcdVars, notified, loaded, seen, serving, gap, mainVars>>

-----------------------------------------------------------------------------
(* The main goroutine *)

\* SIGINT or SIGTERM.
SignalCancelsOnly ==
  /\ mpc = "select"
  /\ cancelled' = TRUE
  /\ UNCHANGED <<etcdVars, watchVars, errCh, running, mpc>>
Signal ==
  /\ mpc = "select"
  /\ cancelled' = TRUE /\ mpc' = "shutdown"
  /\ UNCHANGED <<etcdVars, watchVars, errCh, running>>

\* gw.Run() returns nil, when the server stops by itself or in Shutdown.
RunReturns ==
  /\ Alive /\ running
  /\ running' = FALSE
  /\ errCh' = Append(errCh, "nil")
  /\ UNCHANGED <<etcdVars, watchVars, cancelled, mpc>>

\* <-errCh: a cancellation ends the process without a shutdown.
MainErr ==
  /\ mpc = "select"
  /\ errCh # <<>>
  /\ errCh' = Tail(errCh)
  /\ IF Head(errCh) = "canceled"
       THEN mpc' = "abandoned" /\ UNCHANGED cancelled
       ELSE mpc' = "shutdown" /\ cancelled' = TRUE
  /\ UNCHANGED <<etcdVars, watchVars, running>>

\* ShutdownContext: the server stops, the snapshot is taken out and closed.
ShutdownSwap ==
  /\ mpc = "shutdown"
  /\ serving' = 0
  /\ mpc' = "closing"
  /\ UNCHANGED <<etcdVars, wpc, notified, loaded, seen, gap, cancelled, errCh, running>>

Exit ==
  /\ mpc = "closing"
  /\ mpc' = "exit"
  /\ UNCHANGED <<etcdVars, watchVars, cancelled, errCh, running>>

-----------------------------------------------------------------------------
EtcdStep ==
  \/ \E k \in Kinds : Write(k)
  \/ SendEmpty
  \/ BreakStream

WatchStep ==
  \/ StartWatch
  \/ WatchDone
  \/ Receive
  \/ RetryDelayOver
  \/ Load
  \/ LoadFails
  \/ Compile
  \/ Swap
  \/ Drained

MainStep ==
  \/ Boot
  \/ MainErr
  \/ ShutdownSwap
  \/ Exit

Next ==
  \/ EtcdStep
  \/ SendEvents
  \/ WatchStep
  \/ MainStep
  \/ Signal
  \/ RunReturns

Spec == Init /\ [][Next]_vars

\* etcd delivers the events of a stream that stays up, the goroutines run, and a
\* read ends or times out. No write, failure or signal is bound to happen, and
\* the snapshot that a Reload replaced need not drain: a request may hold it.
Fairness ==
  /\ WF_vars(SendEvents)
  /\ WF_vars(wpc # "drain" /\ WatchStep)
  /\ WF_vars(MainStep)

FairSpec == Spec /\ Fairness

-----------------------------------------------------------------------------
(* Properties *)

\* "Bad config does not replace current snapshot." (route_map.md:342): what is
\* served was good when it was read, although reads and writes interleave.
BadNeverServed == serving # 0 => kinds[serving] = "good"

\* A configuration is never replaced by an older one: each Load reads the
\* latest revision, and one goroutine loads and reloads in turn.
NeverGoesBack == [][serving' # 0 => serving' >= serving]_vars

\* watchCh holds a response that ends the stream, one that reports revision r.
Ended == \E i \in DOMAIN watchCh : watchCh[i].type \in {"error", "closed"}
Reported(r) == \E i \in DOMAIN watchCh : watchCh[i].type = "events" /\ watchCh[i].upTo = r

\* The latest revision, as long as no Load has read it, is going to be reported
\* by the stream or by a response not yet handled, or falls into a gap: it was
\* written while no stream was up, or the read that it caused failed.
NoSilentLoss ==
  Alive /\ wpc \notin {"boot", "returned"} /\ rev > seen =>
    \/ rev \in gap
    \/ streamUp /\ sent < rev
    \/ Reported(rev)
    \/ wpc = "load" /\ notified = rev
    \/ Ended \/ wpc \in {"sleep", "startWatch"}

\* The main goroutine never leaves through the branch that returns without
\* ShutdownContext: Watch reports a cancellation only after main cancelled.
NoExitWithoutShutdown == mpc # "abandoned"

\* No Reload waits forever for the requests on the snapshot it replaced.
DrainsEnd == []<>(wpc # "drain")

\* The latest good revision is eventually served, unless another one follows,
\* the process is shut down, or the revision fell into a gap; provided that every
\* replaced snapshot drains, since the goroutine that watches waits for it.
EventuallyServed ==
  DrainsEnd => \A r \in Revisions :
    (rev = r /\ kinds[r] = "good" /\ mpc = "select")
      ~> (serving = r \/ rev > r \/ r \in gap \/ cancelled)

\* "The gateway watches etcd for changes and hot-reloads automatically."
\* (docs/guide.md:116): the latest good revision is eventually served, at least if
\* no request keeps a Reload waiting forever.
HotReloads ==
  DrainsEnd => \A r \in Revisions :
    (rev = r /\ kinds[r] = "good" /\ mpc = "select")
      ~> (serving = r \/ rev > r \/ cancelled)

-----------------------------------------------------------------------------
(* The inductive invariant behind the safety properties. *)

\* The reload in progress is of the revision read last.
ReloadInv ==
  /\ serving <= seen
  /\ wpc \in {"compile", "swap"} => loaded = seen /\ loaded # 0
  /\ wpc = "swap" => kinds[loaded] = "good"

\* A watch goroutine that waits for responses has a stream, or finds in its
\* channel that the stream ended.
StreamInv ==
  ~streamUp => Ended \/ wpc \in {"boot", "startWatch", "sleep", "returned"}

\* Cancellation comes from main, which is then past its select.
CancelInv ==
  /\ cancelled => mpc \in {"shutdown", "closing", "exit"}
  /\ mpc \in {"boot", "select"} => \A i \in DOMAIN errCh : errCh[i] = "nil"

WatchInv ==
  /\ TypeOK
  /\ ReloadInv
  /\ BadNeverServed
  /\ StreamInv
  /\ NoSilentLoss
  /\ CancelInv
  /\ NoExitWithoutShutdown

=============================================================================
