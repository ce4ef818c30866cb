------------------------------ MODULE BundleSync ------------------------------
(***************************************************************************)
(* The command sync --watch (SyncBundleFile, internal/controlplane/        *)
(* filebundle.go): a process that imports a bundle file and imports it     *)
(* again whenever a poll finds a later modification time, next to the      *)
(* other clients of the control plane. The imports are those of            *)
(* ControlPlane, one store call per step.                                  *)
(*                                                                         *)
(* The file system is external. Whoever edits the file replaces its        *)
(* content by a bundle or by something that does not parse, such as a file *)
(* that is only half written, and may leave it with any modification time: *)
(* a later one, the same one when the clock is coarse, an earlier one when *)
(* the file is restored with its time.                                     *)
(***************************************************************************)
EXTENDS ControlPlane

CONSTANTS
  Syncer,       \* the client that runs SyncBundleFile
  Files,        \* the bundles that the file may hold
  Malformed,    \* a content that ParseBundle refuses
  syncPrune,    \* SyncOptions.Prune
  MaxTime,      \* bound on the modification times
  MaxEdits      \* bound on the edits of the file

ASSUME SyncAssumption ==
  /\ Syncer \in Clients /\ \A b \in Files : IsBundle(b)
  /\ Malformed \notin Files

VARIABLES
  file,        \* its content, modification time and number of edits
  spc,         \* where SyncBundleFile is
  polling,     \* it is in the loop, past the first import
  lastMod,     \* the modification time it remembers
  loaded,      \* the edit that its last LoadBundleFile read
  applied,     \* history: the edit that its last complete import applied
  gap,         \* history: why an edit may go unnoticed, or "none"
  disturbed    \* history: another client has written since the last load

syncVars == <<file, spc, polling, lastMod, loaded, applied, gap, disturbed>>
allVars == <<vars, syncVars>>

Others == Clients \ {Syncer}
Contents == Files \cup {Malformed}

SyncInit ==
  /\ Init
  /\ file \in [content : Files, mtime : {1}, edit : {1}]
  /\ spc = "load" /\ polling = FALSE /\ lastMod = 0
  /\ loaded = [edit |-> 0, content |-> Malformed]
  /\ applied = 0 /\ gap = "none" /\ disturbed = FALSE

-----------------------------------------------------------------------------
(* The environment *)

\* An edit that does not move the modification time forward may escape the poll.
Edit(content, mtime) ==
  /\ file.edit < MaxEdits
  /\ file' = [content |-> content, mtime |-> mtime, edit |-> file.edit + 1]
  /\ gap' = IF mtime <= file.mtime THEN "time" ELSE gap
  /\ UNCHANGED <<vars, spc, polling, lastMod, loaded, applied, disturbed>>

OtherClient(c) ==
  /\ StartSomething(c) \/ Step(c) \/ CallFails(c)
  /\ disturbed' = (disturbed \/ store' # store)
  /\ UNCHANGED <<file, spc, polling, lastMod, loaded, applied, gap>>

-----------------------------------------------------------------------------
(* SyncBundleFile *)

\* apply(): LoadBundleFile, then the calls of ApplyBundleWithOptions. An error of
\* either makes SyncBundleFile return; the last call stands for their success.
\* A file older than the remembered time, which an edit between the tick and the
\* read may have left, hides the edits that do not make it later again.
PrunedBy(bundle) == resolvePruneKinds(bundle, syncPrune, {})
Load ==
  /\ spc = "load"
  /\ loaded' = [edit |-> file.edit, content |-> file.content]
  /\ gap' = IF file.mtime < lastMod THEN "time" ELSE "none"
  /\ disturbed' = FALSE
  /\ IF file.content = Malformed
       THEN spc' = "returned" /\ UNCHANGED vars
       ELSE /\ spc' = "apply"
            /\ Begin(Syncer, ApplyCalls(file.content, PrunedBy(file.content))
                               \o <<[call |-> "applied"]>>, NoGoal)
            /\ UNCHANGED ops
  /\ UNCHANGED <<file, polling, lastMod, applied>>

ApplyStep ==
  /\ spc = "apply"
  /\ Step(Syncer) \/ (~Calls(Syncer, "applied") /\ CallFails(Syncer))
  /\ UNCHANGED syncVars

\* OnApply has been called; the first import is followed by the Stat that starts
\* the polling.
AppliedThenStat ==
  /\ spc = "apply" /\ Calls(Syncer, "applied")
  /\ Proceed(Syncer, <<>>)
  /\ spc' = IF polling THEN "poll" ELSE "stat"
  /\ lastMod' = file.mtime
  /\ applied' = loaded.edit
  /\ UNCHANGED <<storeVars, historyVars, file, polling, loaded, gap, disturbed>>
Applied ==
  /\ spc = "apply" /\ Calls(Syncer, "applied")
  /\ Proceed(Syncer, <<>>)
  /\ spc' = IF polling THEN "poll" ELSE "stat"
  /\ applied' = loaded.edit
  /\ UNCHANGED <<storeVars, historyVars, file, polling, lastMod, loaded, gap, disturbed>>

ApplyFailed ==
  /\ spc = "apply" /\ todo[Syncer] = <<>>
  /\ spc' = "returned"
  /\ UNCHANGED <<vars, file, polling, lastMod, loaded, applied, gap, disturbed>>

\* info, err := os.Stat(path); lastMod := info.ModTime(): the file may have been
\* edited since it was read.
FirstStat ==
  /\ spc = "stat"
  /\ lastMod' = file.mtime
  /\ polling' = TRUE
  /\ spc' = "poll"
  /\ gap' = IF file.edit # loaded.edit THEN "start" ELSE gap
  /\ UNCHANGED <<vars, file, loaded, applied, disturbed>>

\* A tick: the file is loaded again when its modification time is later.
PollForgetful ==
  /\ spc = "poll"
  /\ file.mtime > lastMod
  /\ lastMod' = file.mtime
  /\ UNCHANGED <<vars, file, spc, polling, loaded, applied, gap, disturbed>>
Poll ==
  /\ spc = "poll"
  /\ file.mtime > lastMod
  /\ lastMod' = file.mtime
  /\ spc' = "load"
  /\ UNCHANGED <<vars, file, polling, loaded, applied, gap, disturbed>>

\* A failing Stat, or the cancelled context found by the select.
Return ==
  /\ spc \in {"stat", "poll"}
  /\ spc' = "returned"
  /\ UNCHANGED <<vars, file, polling, lastMod, loaded, applied, gap, disturbed>>

\* The command is run again: it knows nothing of what it did before.
Rerun ==
  /\ spc = "returned"
  /\ spc' = "load" /\ polling' = FALSE /\ lastMod' = 0 /\ gap' = "none"
  /\ UNCHANGED <<vars, file, loaded, applied, disturbed>>

SyncStep == Load \/ ApplyStep \/ Applied \/ ApplyFailed \/ FirstStat \/ Poll

SyncNext ==
  \/ SyncStep
  \/ Return
  \/ Rerun
  \/ \E c \in Others : OtherClient(c)
  \/ \E content \in Contents, mtime \in 1..MaxTime : Edit(content, mtime)

SyncSpec == SyncInit /\ [][SyncNext]_allVars

\* The process runs and its ticker ticks. Nobody has to edit the file, and nothing
\* is assumed of the other clients.
SyncFairSpec == SyncSpec /\ WF_allVars(SyncStep)

-----------------------------------------------------------------------------
(* Properties *)

\* "Keep polling the file and reapply on change" (lumen.go:410): while it polls,
\* an edit that it has not read is one that the next tick will find, because its
\* modification time is later than the remembered one. There are two gaps: an
\* edit between the first import and the first Stat, and edits that do not move
\* the modification time forward: such an edit goes unnoticed, or, if it comes
\* just before the read, later ones may until the time passes the remembered one.
\* In the loop the Stat comes before the read, so an edit between these two is
\* read at once and found again.
NoEditMissed ==
  spc = "poll" /\ gap = "none" => loaded.edit = file.edit \/ file.mtime > lastMod

\* Every edit is applied, or one after it, unless the process returns with an
\* error, a signal ends it, or the edit falls into one of the gaps.
EditsAreApplied ==
  \A n \in 1..MaxEdits :
    file.edit >= n ~> applied >= n \/ spc = "returned" \/ gap # "none"

\* When nobody else has written since the file was read, a complete import has
\* left the bundle in the store, and nothing else of the kinds it prunes:
\* whatever the earlier imports of other contents, complete or given up, had put
\* there.
StoreFollowsFile ==
  spc \in {"stat", "poll"} /\ ~disturbed =>
    LET bundle == loaded.content
    IN  /\ Only(store, DOMAIN bundle.resources) = bundle.resources
        /\ \A x \in DOMAIN store \ DOMAIN bundle.resources : kind[x] \notin PrunedBy(bundle)

=============================================================================
