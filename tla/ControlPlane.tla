------------------------------ MODULE ControlPlane ------------------------------
(***************************************************************************)
(* The control plane (internal/controlplane, internal/adminapi): admin     *)
(* requests and admin commands that read and write resources in etcd, one  *)
(* call at a time, next to each other, and the history of bundles.         *)
(*                                                                         *)
(* An operation is the sequence of store calls it still has to make; each  *)
(* call is one step, since etcd executes it atomically. A resource body is *)
(* abstracted to what validation tells apart: whether its fields have the  *)
(* types that the decoder expects, whether the required ones are there     *)
(* (nodes, uri, a service or an upstream) and which resources it refers    *)
(* to. The kinds without references (plugin_configs, global_rules), the    *)
(* timestamps and the reads that only decide them or the status code are   *)
(* left out; a read that fails before a write is a failure of the write,   *)
(* and a write that takes effect although its answer is lost is one after  *)
(* which the next call fails. Readings of the clock are distinct and grow. *)
(***************************************************************************)
EXTENDS Integers, Sequences, FiniteSets, Functions

CONSTANTS
  Clients,        \* goroutines and processes that execute operations
  Resources,      \* resource keys
  kind,           \* the kind of each resource
  Bodies,         \* the bodies a client may write to each resource
  Patches,        \* the patches a client may apply
  Bundles,        \* the bundles a client may import
  InitialStores,  \* contents of etcd at the start
  historyLimit,   \* Service.historyLimit
  MaxOps          \* bound on the operations started and the calls that fail

VARIABLES
  store,       \* the resources in etcd: a function from some keys to bodies
  history,     \* the entries in etcd: a set of [id, bundle]
  nextID,      \* the next reading of the clock of generateResourceID
  todo,        \* the calls each client still has to make
  view,        \* what the Lists of its current operation returned
  ops,         \* operations started plus calls failed
  goal,        \* history: the bundle operation a client executes alone
  unchecked,   \* history: a write took place without validation
  saved,       \* history: the IDs of the entries, in the order they were put
  untrimmed    \* history: those whose Save has not returned successfully

vars == <<store, history, nextID, todo, view, ops, goal, unchecked,
          saved, untrimmed>>

supportedKinds == <<"routes", "services", "upstreams">>
applyOrderRoutesFirst == <<"routes", "services", "upstreams">>
applyOrder == <<"upstreams", "services", "routes">>

Kinds == Range(supportedKinds)
Empty == [x \in {} |-> {}]
OfKind(resources, k) == {x \in DOMAIN resources : kind[x] = k}
Only(resources, S) == [x \in (DOMAIN resources) \cap S |-> resources[x]]
Over(f, g) == [x \in (DOMAIN f) \cup DOMAIN g |-> IF x \in DOMAIN f THEN f[x] ELSE g[x]]
With(resources, x, b) == [y \in {x} \cup DOMAIN resources |-> IF y = x THEN b ELSE resources[y]]
NoGoal == [bundle |-> <<>>]

-----------------------------------------------------------------------------
(* validate.go *)

\* validateSnapshot: a resource lacks a required field, or refers to one that
\* is not there.
issues(resources) ==
  {x \in DOMAIN resources :
     ~resources[x].complete \/ ~(resources[x].refs \subseteq DOMAIN resources)}

Valid(resources) == issues(resources) = {}

\* applyResourceBody: every body decodes into the struct of its kind. If one
\* does not, validation has no verdict but an error.
Decodes(resources) == \A x \in DOMAIN resources : resources[x].decodes

\* A service names an upstream, a route a service or an upstream.
refersTo(k) ==
  {l \in Kinds : (k = "routes" /\ l # "routes") \/ (k = "services" /\ l = "upstreams")}

BodyOf(x) ==
  [refs : SUBSET {y \in Resources : kind[y] \in refersTo(kind[x])},
   decodes : BOOLEAN, complete : BOOLEAN]
IsStore(f) ==
  /\ DOMAIN f \subseteq Resources /\ f = [x \in DOMAIN f |-> f[x]]
  /\ \A x \in DOMAIN f : f[x] \in BodyOf(x)
IsBundle(b) == IsStore(b.resources) /\ b.managed \subseteq Kinds

ASSUME ControlPlaneAssumption ==
  /\ IsFiniteSet(Resources) /\ kind \in [Resources -> Kinds]
  /\ \A x \in Resources : /\ Bodies[x] \subseteq BodyOf(x)
                          /\ \A p \in Patches[x], b \in BodyOf(x) : Over(p, b) \in BodyOf(x)
  /\ \A b \in Bundles : IsBundle(b)
  /\ \A s \in InitialStores : IsStore(s) /\ Valid(s)
  /\ historyLimit \in Nat \ {0}

-----------------------------------------------------------------------------
(* Bundles (filebundle.go, preview.go). A bundle names the kinds it manages and *)
(* has, for each kind it includes, the bodies of some resources.                 *)

\* resolvePruneKinds: the kinds asked for, else the managed kinds, else the
\* kinds included. Of an empty selection normalizeResourceKindSelection makes
\* all supported kinds.
normalizeResourceKindSelection(kinds) == IF kinds = {} THEN Kinds ELSE kinds
included(bundle) == {kind[x] : x \in DOMAIN bundle.resources}
resourceKinds(bundle) == normalizeResourceKindSelection(included(bundle))
resolvePruneKindsUnmanaged(bundle, prune, pruneKinds) ==
  IF ~prune THEN {} ELSE IF pruneKinds # {} THEN pruneKinds ELSE resourceKinds(bundle)
resolvePruneKinds(bundle, prune, pruneKinds) ==
  IF ~prune THEN {}
  ELSE IF pruneKinds # {} THEN pruneKinds
  ELSE IF bundle.managed # {} THEN bundle.managed
  ELSE resourceKinds(bundle)

\* The bundle laid over what is stored, less what is pruned.
Outcome(resources, bundle, pruned) ==
  Only(Over(bundle.resources, resources),
       {x \in Resources : kind[x] \in pruned => x \in DOMAIN bundle.resources})

\* ValidateBundle: an error when a stored body (snapshotFromStore) or one of the
\* bundle does not decode, also one that is replaced or pruned; else a verdict.
ValidateBundle(resources, bundle, pruned) ==
  IF ~Decodes(resources) \/ ~Decodes(bundle.resources) THEN "error"
  ELSE IF Valid(Outcome(resources, bundle, pruned)) THEN "valid" ELSE "invalid"

\* BuildApplyPlan: for every kind, what is created, what is updated, and what
\* the pruning deletes.
BuildApplyPlanIncluded(resources, bundle, pruned) ==
  LET desired == bundle.resources
  IN  [create |-> DOMAIN desired \ DOMAIN resources,
       update |-> {x \in DOMAIN desired \cap DOMAIN resources : desired[x] # resources[x]},
       delete |-> {x \in DOMAIN resources \ DOMAIN desired :
                     kind[x] \in pruned /\ OfKind(desired, kind[x]) # {}}]
BuildApplyPlan(resources, bundle, pruned) ==
  LET desired == bundle.resources
  IN  [create |-> DOMAIN desired \ DOMAIN resources,
       update |-> {x \in DOMAIN desired \cap DOMAIN resources : desired[x] # resources[x]},
       delete |-> {x \in DOMAIN resources \ DOMAIN desired : kind[x] \in pruned}]

-----------------------------------------------------------------------------
(* The calls an operation makes. The fields are written in the order in which
   TLC sorts them, because its workers share constant records and sort them in
   place. *)

ListCalls(kinds) == [i \in DOMAIN kinds |-> [kind |-> kinds[i], call |-> "list"]]
Put(x, b, checked) == [call |-> "put", checked |-> checked, key |-> x, body |-> b]
Delete(x) == [call |-> "delete", key |-> x]

\* validateBeforeWrite reads every kind, one after the other; then the write.
PutCalls(x, b) ==
  ListCalls(supportedKinds)
    \o <<[call |-> "validate", key |-> x, body |-> b], Put(x, b, TRUE)>>

\* The IDs in the order of a sort or of a List.
Sorted(S) == CHOOSE s \in [1..Cardinality(S) -> S] : Range(s) = S

\* ApplyBundleWithOptions: kind by kind the puts, then the prune. A put reads
\* back what it has written.
GroupPuts(resources, group) ==
  [i \in 1..2 * Cardinality(group) |->
     LET x == Sorted(group)[(i + 1) \div 2]
     IN  IF i % 2 = 1 THEN Put(x, resources[x], FALSE) ELSE [call |-> "readback", key |-> x]]

KindCallsIncludedOnly(bundle, pruned, k) ==
  LET group == OfKind(bundle.resources, k)
  IN  IF group = {} THEN <<>>
      ELSE GroupPuts(bundle.resources, group)
             \o IF k \in pruned THEN <<[kind |-> k, call |-> "prune", keep |-> group]>> ELSE <<>>
KindCalls(bundle, pruned, k) ==
  LET group == OfKind(bundle.resources, k)
  IN  GroupPuts(bundle.resources, group)
        \o IF k \in pruned THEN <<[kind |-> k, call |-> "prune", keep |-> group]>> ELSE <<>>

ApplyCalls(bundle, pruned) ==
  KindCalls(bundle, pruned, applyOrder[1]) \o KindCalls(bundle, pruned, applyOrder[2])
    \o KindCalls(bundle, pruned, applyOrder[3])

\* saveHistorySnapshot: the export, the ID, and Save of the history store.
SaveCalls == ListCalls(supportedKinds) \o <<[call |-> "stamp"]>>

-----------------------------------------------------------------------------
Init ==
  /\ store \in InitialStores
  /\ history = {} /\ nextID = 1
  /\ todo = [c \in Clients |-> <<>>] /\ view = [c \in Clients |-> Empty]
  /\ ops = 0
  /\ goal = [c \in Clients |-> NoGoal]
  /\ unchecked = FALSE /\ saved = <<>> /\ untrimmed = {}

\* An operation starts. Nobody runs alone any more, except c if the others are
\* idle.
Begin(c, calls, newGoal) ==
  /\ todo[c] = <<>>
  /\ todo' = [todo EXCEPT ![c] = calls]
  /\ view' = [view EXCEPT ![c] = Empty]
  /\ goal' = [d \in Clients |->
                IF d = c /\ \A e \in Clients \ {c} : todo[e] = <<>> THEN newGoal ELSE NoGoal]
  /\ UNCHANGED <<store, history, nextID, unchecked, saved, untrimmed>>

Start(c, calls, newGoal) ==
  /\ ops < MaxOps
  /\ ops' = ops + 1
  /\ Begin(c, calls, newGoal)

\* The call at the head is made; the calls of rest remain.
Proceed(c, rest) ==
  /\ todo' = [todo EXCEPT ![c] = rest]
  /\ goal' = [goal EXCEPT ![c] = IF rest = <<>> THEN NoGoal ELSE @]
  /\ view' = [view EXCEPT ![c] = IF rest = <<>> THEN Empty ELSE @]
  /\ UNCHANGED ops

Calls(c, name) == todo[c] # <<>> /\ Head(todo[c]).call = name
storeVars == <<store, unchecked>>
historyVars == <<history, nextID, saved, untrimmed>>

\* What an import or a rollback is asked to bring about, and what a preview and a
\* validation with the same options (handleImportPreview, handleValidate) answer
\* when they are evaluated at its start.
Goal(bundle, prune, pruneKinds) ==
  LET pruned == resolvePruneKinds(bundle, prune, pruneKinds)
  IN  [bundle |-> bundle, prune |-> prune, pruneKinds |-> pruneKinds, pruned |-> pruned,
       before |-> store,
       plan |-> BuildApplyPlan(store, bundle, pruned),
       verdict |-> ValidateBundle(store, bundle, pruned)]

-----------------------------------------------------------------------------
(* The operations (adminapi.go, lumen.go) *)

\* PUT and POST.
handlePut(c, x, b) == Start(c, PutCalls(x, b), NoGoal)

\* PATCH is not validated.
handlePatch(c, x, p) == Start(c, <<[call |-> "get", key |-> x, patch |-> p]>>, NoGoal)

\* DELETE is not validated either.
handleDelete(c, x) == Start(c, <<Delete(x)>>, NoGoal)

\* An import over the admin API, with a history entry after it.
handleImportApply(c, bundle, prune, pruneKinds) ==
  Start(c, ApplyCalls(bundle, resolvePruneKinds(bundle, prune, pruneKinds)) \o SaveCalls,
        Goal(bundle, prune, pruneKinds))

\* The commands import and sync without --watch: no history entry.
adminImport(c, bundle, prune, pruneKinds) ==
  Start(c, ApplyCalls(bundle, resolvePruneKinds(bundle, prune, pruneKinds)), NoGoal)

handleHistoryRollback(c, id) ==
  Start(c, <<[call |-> "rollback", id |-> id]>>, NoGoal)

-----------------------------------------------------------------------------
(* Calls of the resource store (etcdstore.go) *)

StoreList(c) ==
  /\ Calls(c, "list")
  /\ todo' = [todo EXCEPT ![c] = Tail(@)]
  /\ view' = [view EXCEPT ![c] = Over(Only(store, OfKind(store, Head(todo[c]).kind)), @)]
  /\ UNCHANGED <<goal, ops, storeVars, historyVars>>

\* The put that is left when validation has reported an error: any error, of
\* etcd or of a body that does not decode, lets the write proceed.
Unchecked(calls) == LET put == calls[Len(calls)] IN <<Put(put.key, put.body, FALSE)>>

\* ValidateResource on what was listed, the stored body of the same key included;
\* 422 ends the operation.
ValidateFieldsOnly(c) ==
  /\ Calls(c, "validate")
  /\ Proceed(c, IF Head(todo[c]).body.complete THEN Tail(todo[c]) ELSE <<>>)
  /\ UNCHANGED <<storeVars, historyVars>>
ValidateResource(c) ==
  /\ Calls(c, "validate")
  /\ LET call == Head(todo[c])
     IN  Proceed(c, IF ~Decodes(view[c]) \/ ~call.body.decodes THEN Unchecked(todo[c])
                    ELSE IF Valid(With(view[c], call.key, call.body)) THEN Tail(todo[c])
                    ELSE <<>>)
  /\ UNCHANGED <<storeVars, historyVars>>

StorePut(c) ==
  /\ Calls(c, "put")
  /\ LET call == Head(todo[c])
     IN  /\ store' = With(store, call.key, call.body)
         /\ unchecked' = (unchecked \/ ~call.checked)
  /\ Proceed(c, Tail(todo[c]))
  /\ UNCHANGED historyVars

\* The Get at the end of a put of an import: the import ends when somebody has
\* deleted the resource meanwhile.
ReadBack(c) ==
  /\ Calls(c, "readback")
  /\ Proceed(c, IF Head(todo[c]).key \in DOMAIN store THEN Tail(todo[c]) ELSE <<>>)
  /\ UNCHANGED <<storeVars, historyVars>>

StoreDelete(c) ==
  /\ Calls(c, "delete")
  /\ store' = Only(store, Resources \ {Head(todo[c]).key})
  /\ unchecked' = TRUE
  /\ Proceed(c, Tail(todo[c]))
  /\ UNCHANGED historyVars

\* The Get of Patch: the merged body, computed now, is put later. A patch of a
\* resource that is not there ends the operation.
PatchGet(c) ==
  /\ Calls(c, "get")
  /\ LET call == Head(todo[c])
     IN  Proceed(c, IF call.key \in DOMAIN store
                      THEN <<Put(call.key, Over(call.patch, store[call.key]), FALSE)>>
                      ELSE <<>>)
  /\ UNCHANGED <<storeVars, historyVars>>

\* The List of the prune; every resource listed and not kept is deleted.
PruneList(c) ==
  /\ Calls(c, "prune")
  /\ LET call == Head(todo[c])
         extra == Sorted(OfKind(store, call.kind) \ call.keep)
     IN  Proceed(c, [i \in DOMAIN extra |-> Delete(extra[i])] \o Tail(todo[c]))
  /\ UNCHANGED <<storeVars, historyVars>>

-----------------------------------------------------------------------------
(* Calls of the history store (historystore.go) *)

IDs(entries) == {e.id : e \in entries}
Newer(entries, e) == {f \in entries : f.id > e.id}

\* RollbackHistory: the entry is applied, pruning the kinds it manages, and a
\* new entry is saved. An entry that was trimmed ends the operation.
HistoryGet(c) ==
  /\ Calls(c, "rollback")
  /\ LET found == {e \in history : e.id = Head(todo[c]).id}
     IN  IF found = {}
           THEN Proceed(c, <<>>)
           ELSE LET bundle == (CHOOSE e \in found : TRUE).bundle
                    pruned == resolvePruneKinds(bundle, TRUE, bundle.managed)
                IN  /\ todo' = [todo EXCEPT ![c] = ApplyCalls(bundle, pruned) \o SaveCalls]
                    /\ goal' = [goal EXCEPT ![c] =
                                  IF \A d \in Clients \ {c} : todo[d] = <<>>
                                    THEN Goal(bundle, TRUE, bundle.managed) ELSE NoGoal]
                    /\ UNCHANGED <<view, ops>>
  /\ UNCHANGED <<storeVars, historyVars>>

\* generateResourceID, after the export.
StampEntry(c) ==
  /\ Calls(c, "stamp")
  /\ nextID' = nextID + 1
  /\ Proceed(c, <<[call |-> "save",
                   entry |-> [id |-> nextID,
                              bundle |-> [resources |-> view[c], managed |-> Kinds]]]>>)
  /\ UNCHANGED <<storeVars, history, saved, untrimmed>>

\* Save: the Put, then the List that finds what to trim, then the Deletes.
HistoryPut(c) ==
  /\ Calls(c, "save")
  /\ LET entry == Head(todo[c]).entry
     IN  /\ history' = history \cup {entry}
         /\ saved' = Append(saved, entry.id)
         /\ untrimmed' = untrimmed \cup {entry.id}
         /\ Proceed(c, <<[call |-> "trim", id |-> entry.id]>>)
  /\ UNCHANGED <<storeVars, nextID>>

\* The entries after the first historyLimit in the order of descending IDs.
BeyondLimitNewest(entries) == {e \in entries : Cardinality(Newer(entries, e)) < Cardinality(entries) - historyLimit}
BeyondLimit(entries) == {e \in entries : Cardinality(Newer(entries, e)) >= historyLimit}

HistoryTrim(c) ==
  /\ Calls(c, "trim")
  /\ LET id == Head(todo[c]).id
         drop == Sorted(IDs(BeyondLimit(history)))
     IN  /\ Proceed(c, [i \in DOMAIN drop |-> [call |-> "drop", id |-> drop[i], save |-> id]])
         /\ untrimmed' = IF drop = <<>> THEN untrimmed \ {id} ELSE untrimmed
  /\ UNCHANGED <<storeVars, history, nextID, saved>>

HistoryDelete(c) ==
  /\ Calls(c, "drop")
  /\ LET call == Head(todo[c])
     IN  /\ history' = {e \in history : e.id # call.id}
         /\ Proceed(c, Tail(todo[c]))
         /\ untrimmed' = IF Tail(todo[c]) = <<>> THEN untrimmed \ {call.save} ELSE untrimmed
  /\ UNCHANGED <<storeVars, nextID, saved>>

\* A call fails. Validation that could not read lets the write proceed; any
\* other operation ends where it is.
CallFails(c) ==
  /\ todo[c] # <<>> /\ Head(todo[c]).call \notin {"validate", "stamp"}
  /\ ops < MaxOps /\ ops' = ops + 1
  /\ LET validating == \E i \in DOMAIN todo[c] : todo[c][i].call = "validate"
     IN  todo' = [todo EXCEPT ![c] =
                    IF validating THEN Unchecked(@) ELSE <<>>]
  /\ goal' = [goal EXCEPT ![c] = NoGoal]
  /\ view' = [view EXCEPT ![c] = Empty]
  /\ UNCHANGED <<storeVars, historyVars>>

-----------------------------------------------------------------------------
StartSomething(c) ==
  \/ \E x \in Resources : \/ \E b \in Bodies[x] : handlePut(c, x, b)
                          \/ \E p \in Patches[x] : handlePatch(c, x, p)
                          \/ handleDelete(c, x)
  \/ \E bundle \in Bundles, prune \in BOOLEAN :
     \E pruneKinds \in IF prune THEN {{}, {"routes"}} ELSE {{}} :
       \/ handleImportApply(c, bundle, prune, pruneKinds)
       \/ adminImport(c, bundle, prune, pruneKinds)
  \/ \E e \in history : handleHistoryRollback(c, e.id)

Step(c) ==
  \/ StoreList(c)
  \/ ValidateResource(c)
  \/ StorePut(c)
  \/ ReadBack(c)
  \/ StoreDelete(c)
  \/ PatchGet(c)
  \/ PruneList(c)
  \/ HistoryGet(c)
  \/ StampEntry(c)
  \/ HistoryPut(c)
  \/ HistoryTrim(c)
  \/ HistoryDelete(c)

Next == \E c \in Clients : StartSomething(c) \/ Step(c) \/ CallFails(c)

Spec == Init /\ [][Next]_vars

-----------------------------------------------------------------------------
(* Properties *)

\* "Validate cross-references before writing to etcd." (adminapi.go:477, 503):
\* the validation reads kind after kind and the write comes later, yet as long
\* as every write is a validated PUT or POST the references stay resolved,
\* however the requests interleave. Only a DELETE, a PATCH, an import, a
\* rollback or a write whose validation reported an error can break them.
PutsKeepReferences == ~unchecked => Valid(store)

\* The bundle operation of c, which has run alone, has made its writes.
Finished(c) ==
  /\ goal[c] # NoGoal
  /\ \A i \in DOMAIN todo[c] : todo[c][i].call \notin {"put", "prune", "delete"}

\* The kinds for which the options and the bundle name what is pruned: "Delete
\* managed resources missing from the bundle for included kinds" and "Restrict
\* prune to specific resource kinds" (lumen.go:338, 339).
PruneScope(g) ==
  CASE ~g.prune -> {}
    [] g.prune /\ g.pruneKinds # {} -> g.pruneKinds
    [] g.prune /\ g.pruneKinds = {} /\ g.bundle.managed # {} -> g.bundle.managed
    [] OTHER -> included(g.bundle)

\* An import or a rollback that nobody disturbs leaves exactly the bundle and
\* the resources of the kinds outside the scope of the prune, whatever was there
\* before (ApplyBundleWithOptions). A prune for which neither the options nor the
\* bundle name a kind is the subject of PrunesOnlyInScope.
ApplyIsExact ==
  \A c \in Clients : Finished(c) =>
    LET g == goal[c]
    IN  \/ g.prune /\ PruneScope(g) = {}
        \/ store = Over(g.bundle.resources,
                        Only(g.before, {x \in Resources : kind[x] \notin PruneScope(g)}))

\* "Delete managed resources missing from the bundle for included kinds"
\* (lumen.go:338, 411): a resource that an undisturbed import deletes is of a kind
\* that was asked for, is managed or is included. resolvePruneKinds makes every
\* supported kind of none.
PrunesOnlyInScope ==
  \A c \in Clients : Finished(c) =>
    \A x \in DOMAIN goal[c].before \ DOMAIN store : kind[x] \in PruneScope(goal[c])

\* A preview says what the import then does: its plan lists exactly the changes
\* that the import makes (BuildApplyPlan), and its verdict on the bundle, when it
\* has one, is the one on the store that the import leaves (ValidateBundle): a
\* store called valid is valid and decodes, one called invalid is not valid.
PreviewIsExact ==
  \A c \in Clients : Finished(c) =>
    LET before == goal[c].before
    IN  /\ goal[c].plan =
             [create |-> DOMAIN store \ DOMAIN before,
              update |-> {x \in DOMAIN store \cap DOMAIN before : store[x] # before[x]},
              delete |-> DOMAIN before \ DOMAIN store]
        /\ goal[c].verdict = "valid" => Valid(store) /\ Decodes(store)
        /\ goal[c].verdict = "invalid" => ~Valid(store)

\* c is going to write or to prune x.
WillRepair(c, x) ==
  \E i \in DOMAIN todo[c] :
    LET call == todo[c][i]
    IN  \/ call.call \in {"put", "delete"} /\ call.key = x
        \/ call.call = "prune" /\ call.kind = kind[x]

\* applyOrder writes what is referred to before what refers to it: an undisturbed
\* import that leaves a valid store never leaves a reference dangling between two
\* of its writes, when the gateway may load, unless it prunes; and then only in a
\* resource that the import has yet to write or to prune itself, so nothing that
\* it has written is ever broken.
ApplyKeepsReferences ==
  \A c \in Clients :
    goal[c] # NoGoal /\ Valid(goal[c].before)
      /\ Valid(Outcome(goal[c].before, goal[c].bundle, goal[c].pruned))
      => \A x \in issues(store) : goal[c].pruned # {} /\ WillRepair(c, x)

\* "History is enabled by default for the latest `10` successful apply
\* snapshots." (docs/ADMIN_API.md:532): concurrent Saves, each trimming what it
\* has listed, never delete one of the latest entries; and when nothing runs and
\* the last Save succeeded no more than historyLimit entries are left, although
\* earlier Saves may have failed to trim.
KeepsLatest ==
  /\ \A i \in DOMAIN saved :
       Cardinality({j \in DOMAIN saved : saved[j] > saved[i]}) < historyLimit
         => saved[i] \in IDs(history)
  /\ (\A c \in Clients : todo[c] = <<>>) /\ saved # <<>> /\ saved[Len(saved)] \notin untrimmed
       => Cardinality(history) <= historyLimit

=============================================================================
