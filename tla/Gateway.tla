-------------------------------- MODULE Gateway --------------------------------
(***************************************************************************)
(* The gateway (internal/gateway/gateway.go): ServeHTTP on request         *)
(* goroutines, Reload on the goroutine of the configuration watch and      *)
(* ShutdownContext on the main goroutine, around the atomic pointer        *)
(* g.snapshot. The snapshots are those of RuntimeSnapshot, whose actions   *)
(* appear here as the steps of the calls of acquire, release and Close.    *)
(***************************************************************************)
EXTENDS RuntimeSnapshot

CONSTANT Reloaders   \* the closers that run Reload; the others shut down

ASSUME ReloadersAssumption == Reloaders \subseteq Closers

Stoppers == Closers \ Reloaders

VARIABLES
  current,    \* g.snapshot
  phase,      \* where each request is in ServeHTTP
  loaded,     \* the snapshot it loaded from g.snapshot
  gpc,        \* where each closer is in Reload or ShutdownContext
  fresh,      \* the snapshot Reload compiled and has not installed yet
  old         \* what g.snapshot.Swap returned

gatewayVars == <<current, phase, loaded, gpc, fresh, old>>
vars == <<built, state, inFlight, drainSignaled, drainedCh, closedCh,
          closersRun, pc, held, cpc, target,
          current, phase, loaded, gpc, fresh, old>>

Pointers == Snapshots \cup {None}
Phases == {"idle", "loop", "acquire", "serve", "exit"}
GatewayLabels == {"idle", "compile", "swap", "closeOld", "closing", "stopped"}

GTypeOK ==
  /\ TypeOK
  /\ current \in Pointers
  /\ phase \in [Requests -> Phases]
  /\ loaded \in [Requests -> Pointers]
  /\ gpc \in [Closers -> GatewayLabels]
  /\ fresh \in [Closers -> Pointers]
  /\ old \in [Closers -> Pointers]

\* NewWithCompiler has compiled and stored the first snapshot.
GInit ==
  /\ Init
  /\ current \in Snapshots
  /\ built = {current}
  /\ phase = [r \in Requests |-> "idle"]
  /\ loaded = [r \in Requests |-> None]
  /\ gpc = [c \in Closers |-> "idle"]
  /\ fresh = [c \in Closers |-> None]
  /\ old = [c \in Closers |-> None]

-----------------------------------------------------------------------------
(* ServeHTTP *)

\* A request that neither the admin handler nor /metrics answers enters the
\* loop that acquires a snapshot. hertz may deliver requests at any time, on
\* connections it keeps alive while it shuts down too.
Arrive(r) ==
  /\ phase[r] = "idle"
  /\ phase' = [phase EXCEPT ![r] = "loop"]
  /\ UNCHANGED <<snapshotVars, current, loaded, gpc, fresh, old>>

\* snapshot = g.snapshot.Load(); without a snapshot the answer is 503.
LoadSnapshotOnce(r) ==
  /\ phase[r] = "loop" /\ pc[r] = "idle"
  /\ loaded' = [loaded EXCEPT ![r] = IF @ = None THEN current ELSE @]
  /\ phase' = [phase EXCEPT ![r] = IF loaded'[r] = None THEN "exit" ELSE "acquire"]
  /\ UNCHANGED <<snapshotVars, current, gpc, fresh, old>>
LoadSnapshot(r) ==
  /\ phase[r] = "loop" /\ pc[r] = "idle"
  /\ loaded' = [loaded EXCEPT ![r] = current]
  /\ phase' = [phase EXCEPT ![r] = IF current = None THEN "exit" ELSE "acquire"]
  /\ UNCHANGED <<snapshotVars, current, gpc, fresh, old>>

\* The first check of acquire(): refused, the loop starts over.
TryAcquire(r) ==
  /\ phase[r] = "acquire"
  /\ AcquireLoad(r, loaded[r])
  /\ phase' = [phase EXCEPT ![r] = IF state[loaded[r]] = "open" THEN @ ELSE "loop"]
  /\ UNCHANGED <<current, loaded, gpc, fresh, old>>

CountAcquire(r) ==
  /\ phase[r] = "acquire"
  /\ AcquireAdd(r)
  /\ UNCHANGED gatewayVars

\* The double-check of acquire(): refused, the loop starts over once the
\* increment is undone.
ConfirmAcquire(r) ==
  /\ phase[r] = "acquire"
  /\ AcquireRecheck(r)
  /\ phase' = [phase EXCEPT ![r] = IF pc'[r] = "using" THEN "serve" ELSE "loop"]
  /\ UNCHANGED <<current, loaded, gpc, fresh, old>>

\* Router.Match, the lookup of the route's handlers and their chain, whether it
\* ends in 404, 503 or the proxied answer: all of it reads the snapshot.
Serve(r) ==
  /\ phase[r] = "serve"
  /\ phase' = [phase EXCEPT ![r] = "exit"]
  /\ UNCHANGED <<snapshotVars, current, loaded, gpc, fresh, old>>

\* release(): deferred to the end of ServeHTTP, or the undo of acquire().
Release(r) ==
  /\ phase[r] \in {"loop", "exit"}
  /\ ReleaseAdd(r) \/ ReleaseLoad(r) \/ SignalCAS(r) \/ SignalClose(r)
  /\ UNCHANGED gatewayVars

Finish(r) ==
  /\ phase[r] = "exit" /\ pc[r] = "idle"
  /\ phase' = [phase EXCEPT ![r] = "idle"]
  /\ loaded' = [loaded EXCEPT ![r] = None]
  /\ UNCHANGED <<snapshotVars, current, gpc, fresh, old>>

-----------------------------------------------------------------------------
(* Reload and ShutdownContext *)

StartReload(c) ==
  /\ gpc[c] = "idle"
  /\ gpc' = [gpc EXCEPT ![c] = "compile"]
  /\ UNCHANGED <<snapshotVars, current, phase, loaded, fresh, old>>

\* Compile failed: Reload returns and g.snapshot keeps the running snapshot.
CompileFails(c) ==
  /\ gpc[c] = "compile"
  /\ gpc' = [gpc EXCEPT ![c] = "idle"]
  /\ UNCHANGED <<snapshotVars, current, phase, loaded, fresh, old>>

CompileSucceeds(c, s) ==
  /\ gpc[c] = "compile"
  /\ newRuntimeSnapshot(s)
  /\ gpc' = [gpc EXCEPT ![c] = "swap"]
  /\ fresh' = [fresh EXCEPT ![c] = s]
  /\ UNCHANGED <<current, phase, loaded, old>>

\* old := g.snapshot.Swap(snapshot); a nil old is not closed.
SwapFreshForgetsOld(c) ==
  /\ gpc[c] = "swap"
  /\ current' = fresh[c]
  /\ fresh' = [fresh EXCEPT ![c] = None]
  /\ gpc' = [gpc EXCEPT ![c] = "idle"]
  /\ UNCHANGED <<snapshotVars, phase, loaded, old>>
SwapFresh(c) ==
  /\ gpc[c] = "swap"
  /\ current' = fresh[c]
  /\ fresh' = [fresh EXCEPT ![c] = None]
  /\ old' = [old EXCEPT ![c] = current]
  /\ gpc' = [gpc EXCEPT ![c] = IF current = None THEN "idle" ELSE "closeOld"]
  /\ UNCHANGED <<snapshotVars, phase, loaded>>

\* g.server.Shutdown(ctx) returns, all requests done or the deadline passed.
ServerStopped(c) ==
  /\ gpc[c] = "idle"
  /\ gpc' = [gpc EXCEPT ![c] = "swap"]
  /\ UNCHANGED <<snapshotVars, current, phase, loaded, fresh, old>>

\* snapshot := g.snapshot.Swap(nil)
SwapNil(c) ==
  /\ gpc[c] = "swap"
  /\ current' = None
  /\ old' = [old EXCEPT ![c] = current]
  /\ gpc' = [gpc EXCEPT ![c] = IF current = None THEN "stopped" ELSE "closeOld"]
  /\ UNCHANGED <<snapshotVars, phase, loaded, fresh>>

\* The call of Close() on the swapped-out snapshot, its steps and its return.
CallClose(c) ==
  /\ gpc[c] = "closeOld"
  /\ CloseCAS(c, old[c])
  /\ gpc' = [gpc EXCEPT ![c] = "closing"]
  /\ UNCHANGED <<current, phase, loaded, fresh, old>>

CloseProgress(c) ==
  /\ gpc[c] = "closing"
  /\ CloserStep(c)
  /\ UNCHANGED gatewayVars

CloseReturned(c) ==
  /\ gpc[c] = "closing" /\ cpc[c] = "idle"
  /\ gpc' = [gpc EXCEPT ![c] = IF c \in Reloaders THEN "idle" ELSE "stopped"]
  /\ old' = [old EXCEPT ![c] = None]
  /\ UNCHANGED <<snapshotVars, current, phase, loaded, fresh>>

-----------------------------------------------------------------------------
ServeStep(r) ==
  \/ LoadSnapshot(r)
  \/ TryAcquire(r)
  \/ CountAcquire(r)
  \/ ConfirmAcquire(r)
  \/ Serve(r)
  \/ Release(r)
  \/ Finish(r)

CloseStep(c) ==
  \/ CallClose(c)
  \/ CloseProgress(c)
  \/ CloseReturned(c)

ReloadStep(c) ==
  \/ CompileFails(c)
  \/ \E s \in Snapshots : CompileSucceeds(c, s)
  \/ SwapFresh(c)
  \/ CloseStep(c)

StopStep(c) ==
  \/ SwapNil(c)
  \/ CloseStep(c)

GNext ==
  \/ \E r \in Requests : Arrive(r) \/ ServeStep(r)
  \/ \E c \in Reloaders : StartReload(c) \/ ReloadStep(c)
  \/ \E c \in Stoppers : ServerStopped(c) \/ StopStep(c)

GSpec == GInit /\ [][GNext]_vars

\* Every goroutine that can run runs, and a compilation ends. Requests need not
\* arrive, the handlers of a request need not return, and neither reloads nor the
\* shutdown need happen.
GFairness ==
  /\ \A r \in Requests : WF_vars(phase[r] # "serve" /\ ServeStep(r))
  /\ \A c \in Reloaders : WF_vars(ReloadStep(c))
  /\ \A c \in Stoppers : WF_vars(StopStep(c))

GFairSpec == GSpec /\ GFairness

-----------------------------------------------------------------------------
(* Properties *)

\* The snapshot that ServeHTTP can load is open: Reload and ShutdownContext take
\* it out of g.snapshot before they call Close on it. A request that is refused
\* therefore finds another snapshot, or none, when it loads again.
CurrentIsOpen ==
  current # None => current \in built /\ state[current] = "open"

\* An open snapshot that no request could load and no goroutine would close, a
\* leaked file descriptor and flusher goroutine of the access log, does not
\* exist.
NoLeak ==
  \A s \in built :
    state[s] = "open" =>
      \/ s = current
      \/ \E c \in Closers : fresh[c] = s
      \/ \E c \in Closers : gpc[c] = "closeOld" /\ old[c] = s

\* Swap hands each snapshot to one goroutine, so no two calls of Close meet on
\* the same snapshot: the branch of Close that waits on closedCh is never taken
\* from Reload or ShutdownContext.
CloseUncontended == \A c \in Closers : cpc[c] # "waitClosed"

\* Every snapshot has exactly one owner that may close it: g.snapshot, the Reload
\* that compiled it, or the goroutine whose Swap returned it. With none it would
\* leak, with two their calls of Close would meet, however Reload and
\* ShutdownContext interleave.
OneOwner == NoLeak /\ CloseUncontended

\* "The closer is called when that snapshot is replaced or shut down"
\* (plugin/plugin.go:87-88): when ShutdownContext has returned and no Reload is
\* running, the closers of every snapshot have been called.
ShutdownClosesAll ==
  (\E c \in Stoppers : gpc[c] = "stopped") /\ (\A c \in Reloaders : gpc[c] = "idle")
    => \A s \in built : closersRun[s] = 1

\* How the state of the gateway is seen as a state of SnapshotRegister: an open
\* snapshot is installed when g.snapshot points to it, fresh while the Reload that
\* compiled it holds it, and retired otherwise; from the CAS of Close on its life
\* is its state. A request chooses until its acquire() has succeeded.
Life(s) ==
  IF s \notin built THEN "unbuilt"
  ELSE IF state[s] # "open" THEN state[s]
  ELSE IF s = current THEN "installed"
  ELSE IF \E c \in Closers : fresh[c] = s THEN "fresh"
  ELSE "retired"
Stage(r) ==
  IF phase[r] \in {"loop", "acquire"} THEN "choosing"
  ELSE IF phase[r] = "serve" THEN "serving"
  ELSE IF phase[r] = "exit" THEN "answered"
  ELSE "idle"

Register == INSTANCE SnapshotRegister WITH
  register <- current,
  life <- [s \in Snapshots |-> Life(s)],
  stage <- [r \in Requests |-> Stage(r)],
  choice <- loaded

\* ServeHTTP, Reload and ShutdownContext, with all the steps of acquire, release
\* and Close, implement the register: whatever interleaves, a request is served
\* with a snapshot that g.snapshot held when it last loaded it and whose Close
\* had not begun when it started, no snapshot is installed twice, and only a
\* snapshot that has left g.snapshot is closed.
ImplementsRegister == Register!Spec

\* A request that entered ServeHTTP gets out of the acquisition loop, with a
\* snapshot or with 503, although snapshots are replaced under it, and even when
\* another request never ends.
RequestLeavesLoop ==
  \A r \in Requests : phase[r] = "loop" ~> phase[r] \in {"serve", "exit"}

\* Reload returns, and with it the watch goroutine gets back to its channel,
\* provided that the requests on the old snapshot end: Reload waits for them
\* (gateway.go:190) without a limit of its own.
ReloadReturns == RequestsEnd => \A c \in Reloaders : gpc[c] # "idle" ~> gpc[c] = "idle"

-----------------------------------------------------------------------------
(* The inductive invariant behind the safety properties. *)

Free(s) == s \in built /\ state[s] = "open"

\* What Reload compiled is open and nobody else's.
FreshOwned ==
  \A c \in Closers : fresh[c] # None =>
    /\ c \in Reloaders /\ gpc[c] = "swap" /\ Free(fresh[c]) /\ fresh[c] # current
    /\ \A d \in Closers : fresh[d] = fresh[c] => d = c

\* What a Swap returned is open and nobody else's.
OldOwned ==
  \A c \in Closers : gpc[c] = "closeOld" =>
    /\ Free(old[c]) /\ old[c] # current
    /\ \A d \in Closers : fresh[d] # old[c]
    /\ \A d \in Closers : gpc[d] = "closeOld" /\ old[d] = old[c] => d = c

OwnershipInv ==
  /\ FreshOwned
  /\ OldOwned
  /\ \A c \in Reloaders : gpc[c] = "swap" => fresh[c] # None
  /\ \A c \in Closers : gpc[c] # "closing" => cpc[c] = "idle"
  /\ \A s \in Snapshots \ built : state[s] = "open"

GatewayInv ==
  /\ SnapshotInv
  /\ GTypeOK
  /\ CurrentIsOpen
  /\ OwnershipInv
  /\ NoLeak
  /\ CloseUncontended

=============================================================================
