----------------------------- MODULE HistoryProofs -----------------------------
(***************************************************************************)
(* Proofs about the history of bundles of ControlPlane, for any limit and  *)
(* any number of clients, operations and failing calls.                    *)
(***************************************************************************)
EXTENDS ControlPlaneProofs, WellFoundedInduction

-----------------------------------------------------------------------------
(* What is beyond the limit *)

\* Of the entries saved so far, historyLimit or more are newer than id.
NewerSaved(s, id) == {j \in DOMAIN s : s[j] > id}
Enough(s, id) == Cardinality(NewerSaved(s, id)) >= historyLimit

UniqueIDs(entries) == \A e, f \in entries : e.id = f.id => e = f

\* What is enough stays enough.
LEMMA EnoughStays ==
  ASSUME NEW s \in Seq(Nat), NEW n \in Nat, NEW id \in Nat, Enough(s, id)
  PROVE  Enough(Append(s, n), id)
<1> DEFINE t == Append(s, n)
<1>1. /\ DOMAIN t = 1..(Len(s) + 1) /\ DOMAIN s = 1..Len(s) /\ Len(s) \in Nat
      /\ \A i \in DOMAIN s : t[i] = s[i]
  OBVIOUS
<1> HIDE DEF t
<1>2. NewerSaved(s, id) \in SUBSET NewerSaved(t, id) /\ NewerSaved(t, id) \in SUBSET (1..(Len(s) + 1))
  BY <1>1 DEF NewerSaved
<1>3. IsFiniteSet(NewerSaved(t, id))
  <2>1. IsFiniteSet(1..(Len(s) + 1))
    BY <1>1, FS_Interval
  <2> QED
    BY <1>2, <2>1, FS_Subset
<1>4. /\ Cardinality(NewerSaved(s, id)) <= Cardinality(NewerSaved(t, id)) /\ IsFiniteSet(NewerSaved(s, id))
  BY <1>2, <1>3, FS_Subset
<1>5. Cardinality(NewerSaved(s, id)) \in Nat /\ Cardinality(NewerSaved(t, id)) \in Nat
  BY <1>3, <1>4, FS_CardinalityType
<1> QED
  BY <1>4, <1>5, ControlPlaneAssumption DEF Enough, t

\* For the entries that a trim finds beyond the limit, enough is saved.
LEMMA BeyondIsEnough ==
  ASSUME HistoryType, UniqueIDs(history), \A f \in history : f.id \in Range(saved),
         NEW e \in BeyondLimit(history)
  PROVE  Enough(saved, e.id)
<1> DEFINE S == Newer(history, e)
           T == NewerSaved(saved, e.id)
           g == [f \in S |-> CHOOSE j \in DOMAIN saved : saved[j] = f.id]
<1>1. e \in history /\ Cardinality(S) >= historyLimit
  BY DEF BeyondLimit
<1>2. \A f \in S : f \in history /\ f.id > e.id
  BY DEF Newer
<1>3. \A f \in S : g[f] \in DOMAIN saved /\ saved[g[f]] = f.id
  BY <1>2 DEF Range
<1> HIDE DEF g
<1>4. g \in [S -> T]
  <2>1. g = [f \in S |-> g[f]]
    BY DEF g
  <2>2. \A f \in S : g[f] \in T
    BY <1>2, <1>3 DEF NewerSaved
  <2> QED
    BY <2>1, <2>2
<1>5. g \in Injection(S, T)
  <2>1. \A f, h \in S : g[f] = g[h] => f = h
    BY <1>2, <1>3 DEF UniqueIDs
  <2> QED
    BY <1>4, <2>1 DEF Injection, IsInjective
<1>6. IsFiniteSet(T)
  <2>1. DOMAIN saved = 1..Len(saved) /\ Len(saved) \in Nat
    BY DEF HistoryType
  <2>2. IsFiniteSet(1..Len(saved)) /\ T \in SUBSET (1..Len(saved))
    BY <2>1, FS_Interval DEF NewerSaved
  <2> QED
    BY <2>2, FS_Subset
<1>7. Cardinality(S) <= Cardinality(T) /\ IsFiniteSet(S)
  BY <1>5, <1>6, FS_Injection
<1>8. Cardinality(S) \in Nat /\ Cardinality(T) \in Nat
  BY <1>6, <1>7, FS_CardinalityType
<1>9. historyLimit \in Nat
  BY ControlPlaneAssumption
<1>10. Cardinality(T) >= historyLimit
  <2> HIDE DEF S, T
  <2> QED
    BY ONLY <1>1, <1>7, <1>8, <1>9
<1> QED
  BY ONLY <1>10 DEF Enough

\* No entry is beyond the limit of fewer entries that was not before.
LEMMA BeyondShrinks ==
  ASSUME NEW h, IsFiniteSet(h), NEW g \in SUBSET h
  PROVE  BeyondLimit(g) \subseteq BeyondLimit(h)
<1> SUFFICES ASSUME NEW e \in BeyondLimit(g) PROVE e \in BeyondLimit(h)
  OBVIOUS
<1> DEFINE S == Newer(g, e)
           T == Newer(h, e)
<1>1. e \in g /\ Cardinality(S) >= historyLimit /\ S \in SUBSET T /\ T \in SUBSET h
  BY DEF BeyondLimit, Newer
<1>2. IsFiniteSet(T)
  BY <1>1, FS_Subset
<1>3. Cardinality(S) <= Cardinality(T) /\ IsFiniteSet(S)
  BY <1>1, <1>2, FS_Subset
<1>4. Cardinality(S) \in Nat /\ Cardinality(T) \in Nat
  BY <1>2, <1>3, FS_CardinalityType
<1>5. historyLimit \in Nat
  BY ControlPlaneAssumption
<1>6. Cardinality(T) >= historyLimit
  <2> HIDE DEF S, T
  <2> QED
    BY ONLY <1>1, <1>3, <1>4, <1>5
<1> QED
  BY <1>1, <1>6 DEF BeyondLimit

\* A set of natural numbers has a least element.
LEMMA LeastElement ==
  ASSUME NEW T, T \subseteq Nat, T # {}
  PROVE  \E n \in T : \A m \in T : n <= m
<1> DEFINE R == OpToRel(<, Nat)
<1>1. IsWellFoundedOn(R, Nat)
  BY Zenon, NatLessThanWellFounded
<1>2. \A y, x \in Nat : <<y, x>> \in R <=> y < x
  BY DEF OpToRel
<1> HIDE DEF R
<1>3. PICK n \in T : \A m \in T : <<m, n>> \notin R
  BY Zenon, <1>1, WFMin
<1>4. ASSUME NEW m \in T
      PROVE  n <= m
  <2>1. m \in Nat /\ n \in Nat
    OBVIOUS
  <2>2. ~(m < n)
    BY Zenon, <1>2, <1>3, <2>1
  <2> QED
    BY <2>1, <2>2
<1> QED
  BY <1>4

\* When none is beyond the limit, no more than the limit are there: all others are
\* newer than the oldest.
LEMMA WithinLimit ==
  ASSUME NEW h, IsFiniteSet(h), UniqueIDs(h), \A e \in h : e.id \in Nat, BeyondLimit(h) = {}
  PROVE  Cardinality(h) <= historyLimit
<1>1. CASE h = {}
  <2>1. Cardinality(h) = 0
    BY Zenon, <1>1, FS_EmptySet
  <2>2. historyLimit \in Nat
    BY ONLY ControlPlaneAssumption
  <2> QED
    BY ONLY <2>1, <2>2
<1>2. CASE h # {}
  <2> DEFINE ids == {e.id : e \in h}
  <2>1. ids \subseteq Nat /\ ids # {}
    BY <1>2
  <2>2. PICK m \in ids : \A n \in ids : m <= n
    BY <2>1, LeastElement
  <2>3. PICK e \in h : e.id = m
    OBVIOUS
  <2>4. \A f \in h \ {e} : f.id > e.id
    <3> SUFFICES ASSUME NEW f \in h \ {e} PROVE f.id > e.id
      OBVIOUS
    <3>1. f.id \in Nat /\ e.id \in Nat /\ f.id # e.id /\ e.id <= f.id
      BY <2>2, <2>3 DEF UniqueIDs
    <3> QED
      BY <3>1
  <2>5. Newer(h, e) = h \ {e}
    <3>1. ~(e.id > e.id)
      BY <2>3
    <3> QED
      BY <2>4, <3>1 DEF Newer
  <2>6. Cardinality(h \ {e}) = Cardinality(h) - 1 /\ Cardinality(h) \in Nat
    BY FS_RemoveElement, FS_CardinalityType
  <2>7. ~(Cardinality(h \ {e}) >= historyLimit)
    BY <2>5 DEF BeyondLimit
  <2> QED
    BY <2>6, <2>7, ControlPlaneAssumption
<1> QED
  BY <1>1, <1>2

\* The calls of Save.
Saving(k) == k.call \in {"save", "trim", "drop"}
Quiet(s) == \A k \in Range(s) : ~Saving(k)

\* The other operations have none.
LEMMA QuietCalls ==
  /\ Quiet(<<>>) /\ \A k : ~Saving(k) => Quiet(<<k>>)
  /\ Quiet(SaveCalls)
  /\ \A x \in Resources : \A b \in Bodies[x] : Quiet(PutCalls(x, b))
  /\ \A bundle : \A pruned \in SUBSET Kinds : IsBundle(bundle) =>
       Quiet(ApplyCalls(bundle, pruned)) /\ Quiet(ApplyCalls(bundle, pruned) \o SaveCalls)
<1>1. Quiet(<<>>) /\ \A k : ~Saving(k) => Quiet(<<k>>)
  BY OneCall DEF Quiet
<1>2. Quiet(SaveCalls)
  BY SaveLists DEF Quiet, Saving
<1>3. ASSUME NEW x \in Resources, NEW b \in Bodies[x]
      PROVE  Quiet(PutCalls(x, b))
  <2> DEFINE s == PutCalls(x, b)
             n == Len(s)
  <2>1. Good(s) /\ Validated(s)
    BY QueuePut, ControlPlaneAssumption
  <2>2. DOMAIN s = 1..n /\ n \in Nat
    BY <2>1 DEF Good, Sequenced
  <2> HIDE DEF s
  <2>3. ASSUME NEW i \in DOMAIN s PROVE s[i].call \in {"list", "validate", "put"}
    <3>1. CASE i = n
      BY <2>1, <3>1 DEF Validated
    <3>2. CASE i = n - 1
      <4>1. n > 1 /\ i = Len(s) - 1
        BY <2>2, <3>2
      <4>2. s[Len(s) - 1] = [call |-> "validate", key |-> s[Len(s)].key, body |-> s[Len(s)].body]
        BY <2>1, <4>1 DEF Validated
      <4> QED
        BY <4>1, <4>2
    <3>3. CASE i # n /\ i # n - 1
      <4>1. i \in 1..(Len(s) - 2)
        BY <2>2, <3>3
      <4> QED
        BY <2>1, <4>1 DEF Validated
    <3> QED
      BY <3>1, <3>2, <3>3
  <2> QED
    BY <2>3 DEF Quiet, Saving, Range, s
<1>4. ASSUME NEW bundle, NEW pruned \in SUBSET Kinds, IsBundle(bundle)
      PROVE  Quiet(ApplyCalls(bundle, pruned)) /\ Quiet(ApplyCalls(bundle, pruned) \o SaveCalls)
  <2> DEFINE a == ApplyCalls(bundle, pruned)
             all == DOMAIN bundle.resources
  <2>1. /\ Sequenced(a)
        /\ Range(a) = {Put(x, bundle.resources[x], FALSE) : x \in all}
                        \cup {ReadBackCall(x) : x \in all} \cup {PruneCall(bundle, k) : k \in pruned}
    BY <1>4, ApplyRange
  <2> HIDE DEF a
  <2>2. /\ \A x, b : ~Saving(Put(x, b, FALSE))
        /\ \A x : ~Saving(ReadBackCall(x))
        /\ \A k : ~Saving(PruneCall(bundle, k))
    BY DEF Saving, Put, ReadBackCall, PruneCall
  <2>3. Quiet(a)
    BY <2>1, <2>2 DEF Quiet
  <2>4. Range(a \o SaveCalls) = Range(a) \cup Range(SaveCalls)
    BY <2>1, SaveLists, Joined
  <2> QED
    BY <1>2, <2>3, <2>4 DEF Quiet, a
<1> QED
  BY <1>1, <1>2, <1>3, <1>4

\* What a client has to do for a Save remains or is given up, except in the steps
\* of Save.
LEMMA SavesKept ==
  ASSUME TypeInv, NEW c \in Clients, Act(c),
         ~StampEntry(c), ~HistoryPut(c), ~HistoryTrim(c), ~HistoryDelete(c)
  PROVE  /\ \/ Quiet(todo'[c])
            \/ \A k : Saving(k) => (k \in Range(todo'[c]) <=> k \in Range(todo[c]))
         /\ UNCHANGED <<history, saved, nextID, untrimmed>>
<1> DEFINE Result(s) ==
             Quiet(s) \/ \A k : Saving(k) => (k \in Range(s) <=> k \in Range(todo[c]))
<1>1. DOMAIN todo = Clients /\ Queue(todo[c]) /\ Sequenced(todo[c]) /\ IsStore(store) /\ HistoryType
  BY DEF TypeInv, QueueType, Queue, Plain, Good
<1>2. \A s : Quiet(s) => Result(s)
  OBVIOUS
<1>3. ASSUME NEW name, Calls(c, name), name \notin {"save", "trim", "drop"}
      PROVE  todo[c] # <<>> /\ Result(Tail(todo[c])) /\ ~Saving(Head(todo[c]))
  <2>1. todo[c] # <<>> /\ ~Saving(Head(todo[c]))
    BY <1>3 DEF Calls, Saving
  <2>2. Range(todo[c]) = {Head(todo[c])} \cup Range(Tail(todo[c]))
    BY <1>1, <2>1, TailOf
  <2> QED
    BY <2>1, <2>2
<1>4. \A s : Quiet(Unchecked(s))
  <2> SUFFICES ASSUME NEW s PROVE Quiet(Unchecked(s))
    OBVIOUS
  <2>1. \A x, b : ~Saving(Put(x, b, FALSE))
    BY DEF Saving, Put
  <2> QED
    BY <2>1, QuietCalls DEF Unchecked
<1>5. UNCHANGED <<history, saved, nextID, untrimmed>>
  <2>1. CASE StartSomething(c)
    <3>1. \A r, s : Start(c, r, s) => UNCHANGED <<history, saved, nextID, untrimmed>>
      BY DEF Start, Begin
    <3> QED
      BY <2>1, <3>1 DEF StartSomething, handlePut, handlePatch, handleDelete, handleImportApply,
                adminImport, handleHistoryRollback
  <2>2. CASE Step(c)
    BY <2>2 DEF Step, StoreList, ValidateResource, StorePut, ReadBack, StoreDelete, PatchGet,
                PruneList, HistoryGet, historyVars
  <2>3. CASE CallFails(c)
    BY <2>3 DEF CallFails, historyVars
  <2> QED
    BY <2>1, <2>2, <2>3 DEF Act
<1> SUFFICES Result(todo'[c])
  BY <1>5
<1> HIDE DEF Result
<1>6. ASSUME NEW rest, Proceed(c, rest), Result(rest) PROVE Result(todo'[c])
  BY <1>1, <1>6 DEF Proceed
<1>7. CASE StartSomething(c)
  <2>1. ASSUME NEW calls, NEW g, Start(c, calls, g), Quiet(calls)
        PROVE  Result(todo'[c])
    <3>1. todo'[c] = calls
      BY <1>1, <2>1 DEF Start, Begin
    <3> QED
      BY <1>2, <2>1, <3>1
  <2>2. ASSUME NEW x \in Resources, NEW b \in Bodies[x], handlePut(c, x, b)
        PROVE  Result(todo'[c])
    BY <2>1, <2>2, QuietCalls DEF handlePut
  <2>3. ASSUME NEW x \in Resources, NEW p, handlePatch(c, x, p)
        PROVE  Result(todo'[c])
    <3>1. ~Saving([call |-> "get", key |-> x, patch |-> p])
      BY DEF Saving
    <3> QED
      BY <2>1, <2>3, <3>1, QuietCalls DEF handlePatch
  <2>4. ASSUME NEW x \in Resources, handleDelete(c, x)
        PROVE  Result(todo'[c])
    <3>1. ~Saving(Delete(x))
      BY DEF Saving, Delete
    <3> QED
      BY <2>1, <2>4, <3>1, QuietCalls DEF handleDelete
  <2>5. ASSUME NEW bundle \in Bundles, NEW prune, NEW pruneKinds \in {{}, {"routes"}},
               \/ handleImportApply(c, bundle, prune, pruneKinds)
               \/ adminImport(c, bundle, prune, pruneKinds)
        PROVE  Result(todo'[c])
    <3> DEFINE pruned == resolvePruneKinds(bundle, prune, pruneKinds)
    <3>1. IsBundle(bundle) /\ pruneKinds \in SUBSET Kinds
      BY TheKinds, ControlPlaneAssumption
    <3>2. pruned \in SUBSET Kinds
      BY <3>1, PrunedKinds
    <3>3. Quiet(ApplyCalls(bundle, pruned)) /\ Quiet(ApplyCalls(bundle, pruned) \o SaveCalls)
      BY <3>1, <3>2, QuietCalls
    <3> QED
      BY <2>1, <2>5, <3>3 DEF handleImportApply, adminImport
  <2>6. ASSUME NEW id, handleHistoryRollback(c, id)
        PROVE  Result(todo'[c])
    <3>1. ~Saving([call |-> "rollback", id |-> id])
      BY DEF Saving
    <3> QED
      BY <2>1, <2>6, <3>1, QuietCalls DEF handleHistoryRollback
  <2> QED
    BY <1>7, <2>2, <2>3, <2>4, <2>5, <2>6 DEF StartSomething
<1>8. CASE StoreList(c)
  <2>1. Calls(c, "list") /\ todo'[c] = Tail(todo[c])
    BY <1>1, <1>8 DEF StoreList
  <2> QED
    BY <1>3, <2>1
<1>9. CASE ValidateResource(c)
  <2>1. \/ Proceed(c, Unchecked(todo[c])) \/ Proceed(c, <<>>)
        \/ Proceed(c, Tail(todo[c])) /\ Calls(c, "validate")
    BY <1>9 DEF ValidateResource
  <2> QED
    BY <1>2, <1>3, <1>4, <1>6, <2>1, QuietCalls
<1>10. CASE StorePut(c) \/ StoreDelete(c) \/ ReadBack(c)
  <2>1. \/ Proceed(c, <<>>)
        \/ /\ Proceed(c, Tail(todo[c]))
           /\ Calls(c, "put") \/ Calls(c, "delete") \/ Calls(c, "readback")
    BY <1>10 DEF StorePut, StoreDelete, ReadBack
  <2> QED
    BY <1>2, <1>3, <1>6, <2>1, QuietCalls
<1>11. CASE PatchGet(c)
  <2>1. \A x, b : ~Saving(Put(x, b, FALSE))
    BY DEF Saving, Put
  <2>2. \E x, b : Proceed(c, <<Put(x, b, FALSE)>>) \/ Proceed(c, <<>>)
    BY Zenon, <1>11 DEF PatchGet
  <2>3. \A x, b : Quiet(<<Put(x, b, FALSE)>>)
    BY Zenon, <2>1, QuietCalls
  <2> QED
    BY Zenon, <1>2, <1>6, <2>2, <2>3, QuietCalls
<1>12. CASE PruneList(c)
  <2> DEFINE extra == OfKind(store, Head(todo[c]).kind) \ Head(todo[c]).keep
             deletes == [i \in DOMAIN Sorted(extra) |-> Delete(Sorted(extra)[i])]
             tail == Tail(todo[c])
  <2>1. todo[c] # <<>> /\ Proceed(c, deletes \o tail) /\ Calls(c, "prune")
    BY <1>12 DEF PruneList, Calls
  <2>2. Sequenced(deletes) /\ Range(deletes) = {Delete(x) : x \in extra}
    <3>1. extra \in SUBSET Resources
      BY <1>1 DEF OfKind, IsStore
    <3>2. IsFiniteSet(extra)
      BY <3>1, FS_Subset, ControlPlaneAssumption
    <3> QED
      BY <3>2, DeletesOf
  <2>3. \A x : ~Saving(Delete(x))
    BY DEF Saving, Delete
  <2>4. Sequenced(tail) /\ Result(tail)
    BY <1>1, <1>3, <2>1, TailOf
  <2> HIDE DEF deletes, tail, extra
  <2>5. Range(deletes \o tail) = Range(deletes) \cup Range(tail)
    BY <2>2, <2>4, Joined
  <2>6. Result(deletes \o tail)
    BY <2>2, <2>3, <2>4, <2>5 DEF Result, Quiet
  <2> QED
    BY <1>6, <2>1, <2>6
<1>13. CASE HistoryGet(c)
  <2> DEFINE found == {e \in history : e.id = Head(todo[c]).id}
             bundle == (CHOOSE e \in found : TRUE).bundle
             pruned == resolvePruneKinds(bundle, TRUE, bundle.managed)
  <2>1. CASE found = {}
    <3>1. Proceed(c, <<>>)
      BY <1>13, <2>1 DEF HistoryGet
    <3> QED
      BY <1>2, <1>6, <3>1, QuietCalls
  <2>2. CASE found # {}
    <3>1. todo'[c] = ApplyCalls(bundle, pruned) \o SaveCalls
      BY Zenon, <1>1, <1>13, <2>2 DEF HistoryGet
    <3>2. IsBundle(bundle)
      BY <1>1, <2>2 DEF HistoryType
    <3> HIDE DEF bundle
    <3>3. pruned \in SUBSET Kinds
      BY Zenon, <3>2, PrunedKinds DEF IsBundle
    <3> HIDE DEF pruned
    <3>4. Quiet(ApplyCalls(bundle, pruned) \o SaveCalls)
      BY <3>2, <3>3, QuietCalls
    <3> QED
      BY <1>2, <3>1, <3>4
  <2> QED
    BY <2>1, <2>2
<1>14. CASE CallFails(c)
  <2>1. todo'[c] = Unchecked(todo[c]) \/ todo'[c] = <<>>
    BY <1>1, <1>14 DEF CallFails
  <2> QED
    BY <1>2, <1>4, <2>1, QuietCalls
<1> QED
  BY <1>7, <1>8, <1>9, <1>10, <1>11, <1>12, <1>13, <1>14 DEF Act, Step

\* The last entry saved.
Last == saved[Len(saved)]

\* IDs are taken from a clock that is ahead, and an entry is there unless enough
\* newer ones were saved.
SavedInv ==
  \A i \in DOMAIN saved : saved[i] < nextID /\ (saved[i] \in IDs(history) \/ Enough(saved, saved[i]))
EntriesInv == UniqueIDs(history) /\ \A e \in history : e.id \in Range(saved)

\* A Save puts a new entry, and deletes entries only when enough newer ones were
\* saved.
SaveOK(k) ==
  /\ k.call = "save" => k.entry.id < nextID /\ k.entry.id \notin Range(saved)
  /\ k.call = "trim" => k.id \in Range(saved)
  /\ k.call = "drop" => k.save \in Range(saved) /\ Enough(saved, k.id)
SavesInv ==
  /\ \A c \in Clients : \A k \in Range(todo[c]) : SaveOK(k)
  /\ \A c, d \in Clients : c # d =>
       \A k \in Range(todo[c]), l \in Range(todo[d]) :
         k.call = "save" /\ l.call = "save" => k.entry.id # l.entry.id

\* The last Save has still to trim, or is deleting all that is beyond the limit,
\* or nothing is beyond it.
Drops(s, id) == \E k \in Range(s) : k.call = "drop" /\ k.id = id
TrimInv ==
  saved # <<>> =>
    /\ Last \in untrimmed \/ Cardinality(history) <= historyLimit
    /\ \A c \in Clients : \A k \in Range(todo[c]) : k.call = "drop" /\ k.save = Last =>
         \A e \in BeyondLimit(history) : Drops(todo[c], e.id)

LatestInv == SavedInv /\ EntriesInv /\ SavesInv /\ TrimInv

\* Steps of other operations.
LEMMA LatestOther ==
  ASSUME TypeInv, LatestInv, NEW c \in Clients, Act(c),
         ~StampEntry(c), ~HistoryPut(c), ~HistoryTrim(c), ~HistoryDelete(c)
  PROVE  LatestInv'
<1>1. UNCHANGED <<history, saved, nextID, untrimmed>>
  BY SavesKept
<1>2. ASSUME NEW d \in Clients
      PROVE  Quiet(todo'[d]) \/ \A k : Saving(k) => (k \in Range(todo'[d]) <=> k \in Range(todo[d]))
  BY SavesKept, OthersKeep
<1>3. \A d \in Clients : \A k \in Range(todo'[d]) : Saving(k) => k \in Range(todo[d])
  BY <1>2 DEF Quiet
<1>4. SavesInv'
  <2>1. \A d \in Clients : \A k \in Range(todo'[d]) : SaveOK(k)'
    <3> SUFFICES ASSUME NEW d \in Clients, NEW k \in Range(todo'[d]) PROVE SaveOK(k)'
      OBVIOUS
    <3>1. Saving(k) => SaveOK(k)
      BY <1>3 DEF LatestInv, SavesInv
    <3> QED
      BY <1>1, <3>1 DEF SaveOK, Saving
  <2>2. \A d, e \in Clients : d # e =>
          \A k \in Range(todo'[d]), l \in Range(todo'[e]) :
            k.call = "save" /\ l.call = "save" => k.entry.id # l.entry.id
    BY <1>3 DEF LatestInv, SavesInv, Saving
  <2> QED
    BY <2>1, <2>2 DEF SavesInv
<1>5. TrimInv'
  <2>1. ASSUME saved # <<>>, NEW d \in Clients, NEW k \in Range(todo'[d]),
               k.call = "drop", k.save = Last, NEW e \in BeyondLimit(history)
        PROVE  Drops(todo'[d], e.id)
    <3>1. Saving(k) /\ k \in Range(todo[d])
      BY <1>3, <2>1 DEF Saving
    <3>2. Drops(todo[d], e.id)
      BY <2>1, <3>1 DEF LatestInv, TrimInv
    <3>3. \A l : Saving(l) => (l \in Range(todo'[d]) <=> l \in Range(todo[d]))
      BY <1>2, <3>1 DEF Quiet
    <3>4. PICK l \in Range(todo[d]) : l.call = "drop" /\ l.id = e.id
      BY Zenon, <3>2 DEF Drops
    <3>5. Saving(l)
      BY ONLY <3>4 DEF Saving
    <3>6. l \in Range(todo'[d])
      BY Zenon, <3>3, <3>4, <3>5
    <3> QED
      BY Zenon, <3>4, <3>6 DEF Drops
  <2>2. Last' = Last /\ BeyondLimit(history)' = BeyondLimit(history)
    BY <1>1 DEF Last, BeyondLimit, Newer
  <2> QED
    BY <1>1, <2>1, <2>2 DEF TrimInv, LatestInv
<1>6. SavedInv' /\ EntriesInv'
  BY <1>1 DEF SavedInv, EntriesInv, IDs, LatestInv
<1> QED
  BY <1>4, <1>5, <1>6 DEF LatestInv

\* generateResourceID.
LEMMA LatestStamp ==
  ASSUME TypeInv, LatestInv, NEW c \in Clients, StampEntry(c)
  PROVE  LatestInv'
<1>1. PICK new : new.call = "save" /\ new.entry.id = nextID /\ Proceed(c, <<new>>)
  <2> DEFINE k == [call |-> "save",
                   entry |-> [id |-> nextID,
                              bundle |-> [resources |-> view[c], managed |-> Kinds]]]
  <2>1. k.call = "save" /\ k.entry.id = nextID /\ Proceed(c, <<k>>)
    BY DEF StampEntry
  <2> QED
    BY <2>1
<1>2. nextID' = nextID + 1 /\ UNCHANGED <<history, saved, untrimmed>>
  BY DEF StampEntry
<1>3. todo'[c] = <<new>> /\ Range(todo'[c]) = {new}
  BY <1>1, OneCall DEF Proceed, TypeInv, QueueType
<1>4. \A d \in Clients \ {c} : todo'[d] = todo[d]
  BY OthersKeep DEF Act, Step
<1>5. nextID \in Nat /\ saved \in Seq(Nat)
  BY DEF TypeInv, HistoryType
<1>6. nextID \notin Range(saved)
  BY <1>5 DEF LatestInv, SavedInv, Range
<1>7. \A d \in Clients : \A k \in Range(todo[d]) : k.call = "save" => k.entry.id \in Nat /\ k.entry.id < nextID
  BY DEF LatestInv, SavesInv, SaveOK, TypeInv, QueueType, Queue, Plain, Good, CallOK
<1>8. SavesInv'
  <2>1. SaveOK(new)'
    <3>1. nextID < nextID' /\ nextID \notin Range(saved')
      BY ONLY <1>2, <1>5, <1>6
    <3> QED
      BY ONLY <1>1, <3>1 DEF SaveOK
  <2>2. ASSUME NEW d \in Clients \ {c}, NEW k \in Range(todo[d]) PROVE SaveOK(k)'
    <3>1. SaveOK(k) /\ (k.call = "save" => k.entry.id \in Nat /\ k.entry.id < nextID)
      BY <1>7 DEF LatestInv, SavesInv
    <3>2. k.call = "save" => k.entry.id < nextID'
      BY <1>2, <1>5, <3>1
    <3> QED
      BY <1>2, <3>1, <3>2 DEF SaveOK
  <2>3. ASSUME NEW d \in Clients, NEW e \in Clients, d # e,
               NEW k \in Range(todo'[d]), NEW l \in Range(todo'[e]), k.call = "save", l.call = "save"
        PROVE  k.entry.id # l.entry.id
    <3>1. CASE d = c
      <4>1. k = new /\ l \in Range(todo[e])
        BY <1>3, <1>4, <2>3, <3>1
      <4>2. l.entry.id \in Nat /\ l.entry.id < nextID /\ k.entry.id = nextID
        BY <1>1, <1>7, <2>3, <4>1
      <4> QED
        BY <1>5, <4>2
    <3>2. CASE e = c
      <4>1. l = new /\ k \in Range(todo[d])
        BY <1>3, <1>4, <2>3, <3>2
      <4>2. k.entry.id \in Nat /\ k.entry.id < nextID /\ l.entry.id = nextID
        BY <1>1, <1>7, <2>3, <4>1
      <4> QED
        BY <1>5, <4>2
    <3>3. CASE d # c /\ e # c
      BY <1>4, <2>3, <3>3 DEF LatestInv, SavesInv
    <3> QED
      BY <3>1, <3>2, <3>3
  <2>4. ASSUME NEW d \in Clients, NEW k \in Range(todo'[d]) PROVE SaveOK(k)'
    <3>1. CASE d = c
      BY <1>3, <2>1, <3>1
    <3>2. CASE d # c
      BY <1>4, <2>2, <3>2
    <3> QED
      BY <3>1, <3>2
  <2> QED
    BY <2>3, <2>4 DEF SavesInv
<1>9. TrimInv'
  <2>1. Last' = Last /\ BeyondLimit(history)' = BeyondLimit(history)
    BY <1>2 DEF Last, BeyondLimit, Newer
  <2>2. ASSUME saved # <<>>, NEW d \in Clients, NEW k \in Range(todo'[d]),
               k.call = "drop", k.save = Last, NEW e \in BeyondLimit(history)
        PROVE  Drops(todo'[d], e.id)
    <3>1. d # c
      BY <1>1, <1>3, <2>2
    <3> QED
      BY <1>4, <2>2, <3>1 DEF LatestInv, TrimInv
  <2> QED
    BY <1>2, <2>1, <2>2 DEF TrimInv, LatestInv
<1>10. SavedInv' /\ EntriesInv'
  <2>1. \A i \in DOMAIN saved : saved[i] < nextID'
    BY <1>2, <1>5 DEF LatestInv, SavedInv
  <2> QED
    BY <1>2, <2>1 DEF SavedInv, EntriesInv, IDs, LatestInv
<1> QED
  BY <1>8, <1>9, <1>10 DEF LatestInv

\* The Put of Save.
LEMMA LatestPut ==
  ASSUME TypeInv, LatestInv, NEW c \in Clients, HistoryPut(c)
  PROVE  LatestInv'
<1>1. PICK entry : entry = Head(todo[c]).entry
  OBVIOUS
<1> DEFINE id == entry.id
           trim == [call |-> "trim", id |-> id]
<1>2. /\ Calls(c, "save") /\ history' = history \cup {entry} /\ saved' = Append(saved, id)
      /\ untrimmed' = untrimmed \cup {id} /\ Proceed(c, <<trim>>) /\ UNCHANGED nextID
  BY <1>1 DEF HistoryPut
<1>3. trim.call = "trim" /\ trim.id = id
  OBVIOUS
<1> HIDE DEF trim
<1>4. todo'[c] = <<trim>> /\ Range(todo'[c]) = {trim}
  BY <1>2, OneCall DEF Proceed, TypeInv, QueueType
<1>5. \A d \in Clients \ {c} : todo'[d] = todo[d]
  BY OthersKeep DEF Act, Step
<1>6. HistoryType /\ saved \in Seq(Nat) /\ \A d \in Clients : \A k \in Range(todo[d]) : CallOK(k)
  BY DEF TypeInv, HistoryType, QueueType, Queue, Plain, Good
<1>7. Head(todo[c]) \in Range(todo[c]) /\ Head(todo[c]).call = "save"
  BY <1>2, QueueTail DEF Calls, TypeInv, QueueType
<1>8. id \in Nat /\ id < nextID /\ id \notin Range(saved)
  BY <1>1, <1>6, <1>7 DEF CallOK, LatestInv, SavesInv, SaveOK
<1>9. /\ DOMAIN saved = 1..Len(saved) /\ Len(saved) \in Nat
      /\ DOMAIN saved' = 1..(Len(saved) + 1) /\ Len(saved') = Len(saved) + 1
      /\ \A i \in DOMAIN saved : saved'[i] = saved[i] /\ saved[i] \in Nat
      /\ saved'[Len(saved) + 1] = id
  <2>1. saved' = Append(saved, id) /\ saved \in Seq(Nat) /\ id \in Nat
    BY <1>2, <1>6, <1>8
  <2> HIDE DEF id
  <2> QED
    BY ONLY <2>1
<1>10. Range(saved') = Range(saved) \cup {id}
  <2>1. \A i \in DOMAIN saved : i \in DOMAIN saved'
    BY <1>9
  <2>2. \A i \in DOMAIN saved' : i \in DOMAIN saved \/ i = Len(saved) + 1
    BY <1>9
  <2>3. Len(saved) + 1 \in DOMAIN saved'
    BY <1>9
  <2> QED
    BY <1>9, <2>1, <2>2, <2>3 DEF Range
<1>11. \A n \in Nat : Enough(saved, n) => Enough(saved', n)
  BY <1>2, <1>6, <1>8, EnoughStays
<1>12. SavedInv'
  <2> SUFFICES ASSUME NEW i \in DOMAIN saved'
               PROVE  saved'[i] < nextID /\ (saved'[i] \in IDs(history') \/ Enough(saved', saved'[i]))
    BY <1>2 DEF SavedInv
  <2>1. CASE i \in DOMAIN saved
    <3>1. saved[i] < nextID /\ (saved[i] \in IDs(history) \/ Enough(saved, saved[i]))
      BY <2>1 DEF LatestInv, SavedInv
    <3>2. IDs(history) \subseteq IDs(history')
      BY <1>2 DEF IDs
    <3> QED
      BY <1>9, <1>11, <2>1, <3>1, <3>2
  <2>2. CASE i \notin DOMAIN saved
    <3>1. saved'[i] = id
      BY <1>9, <2>2
    <3> QED
      BY <1>2, <1>8, <3>1 DEF IDs
  <2> QED
    BY <2>1, <2>2
<1>13. EntriesInv'
  <2>1. \A e \in history : e.id # id
    BY <1>8 DEF LatestInv, EntriesInv
  <2> QED
    BY <1>2, <1>10, <2>1 DEF LatestInv, EntriesInv, UniqueIDs
<1>14. SavesInv'
  <2>1. ASSUME NEW d \in Clients, NEW k \in Range(todo'[d]) PROVE SaveOK(k)'
    <3>1. CASE d = c
      BY <1>3, <1>4, <1>10, <3>1 DEF SaveOK
    <3>2. CASE d # c
      <4>1. k \in Range(todo[d]) /\ SaveOK(k) /\ CallOK(k)
        BY <1>5, <1>6, <3>2 DEF LatestInv, SavesInv
      <4>2. k.call = "save" => k.entry.id # id
        BY <1>1, <1>7, <3>2, <4>1 DEF LatestInv, SavesInv
      <4> QED
        BY <1>2, <1>10, <1>11, <4>1, <4>2 DEF SaveOK, CallOK
    <3> QED
      BY <3>1, <3>2
  <2>2. \A d \in Clients : \A k \in Range(todo'[d]) : k.call = "save" => k \in Range(todo[d])
    BY <1>3, <1>4, <1>5
  <2>3. \A d, e \in Clients : d # e =>
          \A k \in Range(todo'[d]), l \in Range(todo'[e]) :
            k.call = "save" /\ l.call = "save" => k.entry.id # l.entry.id
    BY <2>2 DEF LatestInv, SavesInv
  <2> QED
    BY <2>1, <2>3 DEF SavesInv
<1>15. TrimInv'
  <2>1. Last' = id
    BY <1>9 DEF Last
  <2>2. ASSUME NEW d \in Clients, NEW k \in Range(todo'[d]), k.call = "drop", k.save = id PROVE FALSE
    <3>1. d # c
      BY <1>3, <1>4, <2>2
    <3>2. k.save \in Range(saved)
      BY <1>5, <2>2, <3>1 DEF LatestInv, SavesInv, SaveOK
    <3> QED
      BY <1>8, <2>2, <3>2
  <2>3. id \in untrimmed'
    BY <1>2
  <2> QED
    BY <2>1, <2>2, <2>3 DEF TrimInv
<1> QED
  BY <1>12, <1>13, <1>14, <1>15 DEF LatestInv

\* The List of Save.
LEMMA LatestTrim ==
  ASSUME TypeInv, LatestInv, NEW c \in Clients, HistoryTrim(c)
  PROVE  LatestInv'
<1>1. PICK id : id = Head(todo[c]).id
  OBVIOUS
<1>2. PICK ids : ids = IDs(BeyondLimit(history))
  OBVIOUS
<1> DEFINE Drop(i) == [call |-> "drop", id |-> i, save |-> id]
           drops == [i \in DOMAIN Sorted(ids) |-> Drop(Sorted(ids)[i])]
<1>3. /\ Calls(c, "trim") /\ Proceed(c, drops)
      /\ untrimmed' = IF Sorted(ids) = <<>> THEN untrimmed \ {id} ELSE untrimmed
      /\ UNCHANGED <<history, nextID, saved>>
  BY <1>1, <1>2 DEF HistoryTrim
<1>4. HistoryType /\ IsFiniteSet(ids) /\ ids \in SUBSET Nat
  BY <1>2, DroppedIDs DEF TypeInv
<1>5. Range(drops) = {Drop(i) : i \in ids} /\ (Sorted(ids) = <<>> => ids = {})
  <2>1. Range(drops) = {Drop(i) : i \in ids}
    BY <1>4, DropsOf
  <2>2. Sorted(ids) = <<>> => ids = {}
    BY <1>4, SortedOf
  <2> QED
    BY <2>1, <2>2
<1>6. \A i \in ids : Drop(i).call = "drop" /\ Drop(i).id = i /\ Drop(i).save = id
  OBVIOUS
<1> HIDE DEF drops, Drop
<1>7. todo'[c] = drops
  BY <1>3 DEF Proceed, TypeInv, QueueType
<1>8. \A d \in Clients \ {c} : todo'[d] = todo[d]
  BY OthersKeep DEF Act, Step
<1>9. id \in Range(saved)
  <2>1. Head(todo[c]) \in Range(todo[c]) /\ Head(todo[c]).call = "trim"
    BY <1>3, QueueTail DEF Calls, TypeInv, QueueType
  <2> QED
    BY <1>1, <2>1 DEF LatestInv, SavesInv, SaveOK
<1>10. \A i \in ids : Enough(saved, i)
  <2> SUFFICES ASSUME NEW e \in BeyondLimit(history) PROVE Enough(saved, e.id)
    BY <1>2 DEF IDs
  <2> QED
    BY <1>4, BeyondIsEnough DEF LatestInv, EntriesInv
<1>11. SavesInv'
  <2>1. ASSUME NEW d \in Clients, NEW k \in Range(todo'[d]) PROVE SaveOK(k)'
    <3>1. CASE d = c
      BY <1>3, <1>5, <1>6, <1>7, <1>9, <1>10, <3>1 DEF SaveOK
    <3>2. CASE d # c
      <4>1. SaveOK(k)
        BY <1>8, <3>2 DEF LatestInv, SavesInv
      <4> QED
        BY <1>3, <4>1 DEF SaveOK
    <3> QED
      BY <3>1, <3>2
  <2>2. \A d \in Clients : \A k \in Range(todo'[d]) : k.call = "save" => k \in Range(todo[d])
    BY <1>5, <1>6, <1>7, <1>8
  <2>3. \A d, e \in Clients : d # e =>
          \A k \in Range(todo'[d]), l \in Range(todo'[e]) :
            k.call = "save" /\ l.call = "save" => k.entry.id # l.entry.id
    BY <2>2 DEF LatestInv, SavesInv
  <2> QED
    BY <2>1, <2>3 DEF SavesInv
<1>12. TrimInv'
  <2>1. Last' = Last /\ BeyondLimit(history)' = BeyondLimit(history)
    BY <1>3 DEF Last, BeyondLimit, Newer
  <2>2. ASSUME saved # <<>> PROVE Last \in untrimmed' \/ Cardinality(history) <= historyLimit
    <3>1. CASE Sorted(ids) = <<>>
      <4>1. BeyondLimit(history) = {}
        BY <1>2, <1>5, <3>1 DEF IDs
      <4> QED
        BY <1>4, <4>1, WithinLimit DEF HistoryType, LatestInv, EntriesInv
    <3>2. CASE Sorted(ids) # <<>>
      BY <1>3, <2>2, <3>2 DEF LatestInv, TrimInv
    <3> QED
      BY <3>1, <3>2
  <2>3. ASSUME saved # <<>>, NEW d \in Clients, NEW k \in Range(todo'[d]),
               k.call = "drop", k.save = Last, NEW e \in BeyondLimit(history)
        PROVE  Drops(todo'[d], e.id)
    <3>1. CASE d = c
      <4>1. e.id \in ids
        BY <1>2 DEF IDs
      <4> QED
        BY <1>5, <1>6, <1>7, <3>1, <4>1 DEF Drops
    <3>2. CASE d # c
      BY <1>8, <2>3, <3>2 DEF LatestInv, TrimInv
    <3> QED
      BY <3>1, <3>2
  <2> QED
    BY <1>3, <2>1, <2>2, <2>3 DEF TrimInv
<1>13. SavedInv' /\ EntriesInv'
  BY <1>3 DEF SavedInv, EntriesInv, IDs, LatestInv
<1> QED
  BY <1>11, <1>12, <1>13 DEF LatestInv

\* A Delete of Save.
LEMMA LatestDelete ==
  ASSUME TypeInv, LatestInv, NEW c \in Clients, HistoryDelete(c)
  PROVE  LatestInv'
<1>1. PICK call : call = Head(todo[c])
  OBVIOUS
<1>2. PICK tail : tail = Tail(todo[c])
  OBVIOUS
<1>3. /\ Calls(c, "drop") /\ history' = {e \in history : e.id # call.id} /\ Proceed(c, tail)
      /\ untrimmed' = IF tail = <<>> THEN untrimmed \ {call.save} ELSE untrimmed
      /\ UNCHANGED <<nextID, saved>>
  BY <1>1, <1>2 DEF HistoryDelete
<1>4. todo'[c] = tail
  BY <1>3 DEF Proceed, TypeInv, QueueType
<1>5. \A d \in Clients \ {c} : todo'[d] = todo[d]
  BY OthersKeep DEF Act, Step
<1>6. call.call = "drop" /\ Range(todo[c]) = {call} \cup Range(tail)
  BY <1>1, <1>2, <1>3, TailOf DEF Calls, TypeInv, QueueType, Queue, Plain, Good
<1>7. Enough(saved, call.id)
  BY <1>6 DEF LatestInv, SavesInv, SaveOK
<1>8. \A d \in Clients : Range(todo'[d]) \subseteq Range(todo[d])
  BY <1>4, <1>5, <1>6
<1>9. IsFiniteSet(history) /\ history' \in SUBSET history /\ UniqueIDs(history)
      /\ \A e \in history : e.id \in Nat
  BY <1>3 DEF TypeInv, HistoryType, LatestInv, EntriesInv
<1>10. IsFiniteSet(history') /\ Cardinality(history') <= Cardinality(history)
  BY <1>9, FS_Subset
<1>11. \A e \in BeyondLimit(history') : e \in BeyondLimit(history) /\ e.id # call.id
  <2>1. BeyondLimit(history') \subseteq BeyondLimit(history)
    BY <1>9, BeyondShrinks
  <2>2. BeyondLimit(history') \subseteq history'
    BY DEF BeyondLimit
  <2> QED
    BY <1>3, <2>1, <2>2
<1>12. SavedInv'
  <2> SUFFICES ASSUME NEW i \in DOMAIN saved
               PROVE  saved[i] < nextID /\ (saved[i] \in IDs(history') \/ Enough(saved, saved[i]))
    BY <1>3 DEF SavedInv
  <2>1. saved[i] < nextID /\ (saved[i] \in IDs(history) \/ Enough(saved, saved[i]))
    BY DEF LatestInv, SavedInv
  <2>2. CASE saved[i] = call.id
    BY <1>7, <2>1, <2>2
  <2>3. CASE saved[i] # call.id
    BY <1>3, <2>1, <2>3 DEF IDs
  <2> QED
    BY <2>2, <2>3
<1>13. EntriesInv'
  BY <1>3 DEF LatestInv, EntriesInv, UniqueIDs
<1>14. SavesInv'
  <2>1. \A d \in Clients : \A k \in Range(todo'[d]) : SaveOK(k)'
    BY <1>3, <1>8 DEF SaveOK, LatestInv, SavesInv
  <2>2. \A d, e \in Clients : d # e =>
          \A k \in Range(todo'[d]), l \in Range(todo'[e]) :
            k.call = "save" /\ l.call = "save" => k.entry.id # l.entry.id
    BY <1>8 DEF LatestInv, SavesInv
  <2> QED
    BY <2>1, <2>2 DEF SavesInv
<1>15. TrimInv'
  <2>1. Last' = Last /\ BeyondLimit(history)' = BeyondLimit(history')
    BY <1>3 DEF Last, BeyondLimit, Newer
  <2>2. ASSUME saved # <<>>, Last \notin untrimmed' PROVE Cardinality(history') <= historyLimit
    <3>1. CASE Last \notin untrimmed
      <4>1. Cardinality(history) <= historyLimit
        BY <2>2, <3>1 DEF LatestInv, TrimInv
      <4>2. Cardinality(history) \in Nat /\ Cardinality(history') \in Nat
        BY <1>9, <1>10, FS_CardinalityType
      <4>3. historyLimit \in Nat
        BY ONLY ControlPlaneAssumption
      <4> QED
        BY ONLY <1>10, <4>1, <4>2, <4>3
    <3>2. CASE Last \in untrimmed
      <4>1. tail = <<>> /\ call.save = Last
        BY <1>3, <2>2, <3>2
      <4>2. Range(todo[c]) = {call}
        BY <1>6, <4>1, OneCall
      <4>3. \A e \in BeyondLimit(history) : Drops(todo[c], e.id)
        BY <1>6, <2>2, <4>1 DEF LatestInv, TrimInv
      <4>4. BeyondLimit(history') = {}
        BY <1>11, <4>2, <4>3 DEF Drops
      <4>5. UniqueIDs(history') /\ \A e \in history' : e.id \in Nat
        BY <1>9 DEF UniqueIDs
      <4> QED
        BY <1>10, <4>4, <4>5, WithinLimit
    <3> QED
      BY <3>1, <3>2
  <2>3. ASSUME saved # <<>>, NEW d \in Clients, NEW k \in Range(todo'[d]),
               k.call = "drop", k.save = Last, NEW e \in BeyondLimit(history')
        PROVE  Drops(todo'[d], e.id)
    <3>1. Drops(todo[d], e.id)
      BY <1>8, <1>11, <2>3 DEF LatestInv, TrimInv
    <3>2. CASE d = c
      BY <1>4, <1>6, <1>11, <3>1, <3>2 DEF Drops
    <3>3. CASE d # c
      BY <1>5, <3>1, <3>3
    <3> QED
      BY <3>2, <3>3
  <2> QED
    BY <1>3, <2>1, <2>2, <2>3 DEF TrimInv
<1> QED
  BY <1>12, <1>13, <1>14, <1>15 DEF LatestInv

\* Concurrent Saves, each of which trims what it has listed, never delete one of
\* the latest historyLimit entries, and after the last Save has succeeded no more
\* than these are left: for any limit, any number of clients and any failures.
THEOREM LatestKept == Spec => []KeepsLatest
<1>1. Init => LatestInv
  <2> SUFFICES ASSUME Init PROVE LatestInv
    OBVIOUS
  <2>1. saved = <<>> /\ history = {} /\ \A c \in Clients : Range(todo[c]) = {}
    BY OneCall DEF Init
  <2>2. DOMAIN saved = {}
    BY <2>1
  <2> QED
    BY <2>1, <2>2 DEF LatestInv, SavedInv, EntriesInv, UniqueIDs, SavesInv, TrimInv
<1>2. TypeInv /\ LatestInv /\ [Next]_vars => LatestInv'
  <2> SUFFICES ASSUME TypeInv, LatestInv, [Next]_vars PROVE LatestInv'
    OBVIOUS
  <2>1. ASSUME NEW c \in Clients, Act(c) PROVE LatestInv'
    BY <2>1, LatestOther, LatestStamp, LatestPut, LatestTrim, LatestDelete
  <2>2. CASE UNCHANGED vars
    <3> USE <2>2 DEF vars
    <3>1. SavedInv' /\ EntriesInv'
      BY DEF LatestInv, SavedInv, EntriesInv, IDs
    <3>2. SavesInv'
      BY DEF LatestInv, SavesInv, SaveOK
    <3>3. TrimInv'
      BY DEF LatestInv, TrimInv, Last, BeyondLimit, Newer
    <3> QED
      BY <3>1, <3>2, <3>3 DEF LatestInv
  <2> QED
    BY <2>1, <2>2 DEF Next, Act
<1>3. TypeInv /\ LatestInv => KeepsLatest
  <2> SUFFICES ASSUME TypeInv, LatestInv PROVE KeepsLatest
    OBVIOUS
  <2>1. ASSUME NEW i \in DOMAIN saved,
               Cardinality({j \in DOMAIN saved : saved[j] > saved[i]}) < historyLimit
        PROVE  saved[i] \in IDs(history)
    <3> DEFINE newer == NewerSaved(saved, saved[i])
               n == Cardinality(newer)
    <3>1. n < historyLimit
      BY <2>1 DEF NewerSaved
    <3>2. n \in Nat
      <4>1. DOMAIN saved = 1..Len(saved) /\ Len(saved) \in Nat
        BY DEF TypeInv, HistoryType
      <4>2. IsFiniteSet(1..Len(saved)) /\ newer \in SUBSET (1..Len(saved))
        BY <4>1, FS_Interval DEF NewerSaved
      <4> HIDE DEF newer
      <4>3. IsFiniteSet(newer)
        BY <4>2, FS_Subset
      <4>4. Cardinality(newer) \in Nat
        BY ONLY <4>3, FS_CardinalityType
      <4> QED
        BY ONLY <4>4
    <3>3. ~Enough(saved, saved[i])
      <4>1. historyLimit \in Nat
        BY ControlPlaneAssumption
      <4> HIDE DEF n
      <4>2. ~(n >= historyLimit)
        BY ONLY <3>1, <3>2, <4>1
      <4> QED
        BY ONLY Zenon, <4>2 DEF Enough, n
    <3> QED
      BY <3>3 DEF LatestInv, SavedInv
  <2>2. saved # <<>> /\ saved[Len(saved)] \notin untrimmed => Cardinality(history) <= historyLimit
    BY DEF LatestInv, TrimInv, Last
  <2> QED
    BY <2>1, <2>2 DEF KeepsLatest
<1> QED
  BY <1>1, <1>2, <1>3, TypeInvariant, PTL DEF Spec

=============================================================================
