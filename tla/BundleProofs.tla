----------------------------- MODULE BundleProofs -----------------------------
(***************************************************************************)
(* Proofs about the bundle operations of ControlPlane and about BundleSync,*)
(* for any number of clients, failing calls and edits of the file: an      *)
(* import or a rollback that runs alone makes the store what its bundle    *)
(* says, a preview names what it would change, and sync --watch keeps the  *)
(* store as the file has it.                                               *)
(***************************************************************************)
EXTENDS BundleSync, ControlPlaneProofs

-----------------------------------------------------------------------------
(* Imports *)

\* The calls that nothing follows.
Final(k) == k.call \in {"stamp", "save", "trim", "applied"}
EndsRight(s) == \A i \in DOMAIN s : Final(s[i]) => i = Len(s)

\* The puts are in applyOrder.
Rank(x) == IF kind[x] = applyOrder[1] THEN 1 ELSE IF kind[x] = applyOrder[2] THEN 2 ELSE 3
Ranked(s) ==
  \A i, j \in DOMAIN s : i < j /\ s[i].call = "put" /\ s[j].call = "put"
    => Rank(s[i].key) <= Rank(s[j].key)

\* s are calls left of an import of the bundle: they write the bundle and delete
\* what is to be pruned.
Importing(bundle, pruned, s) ==
  /\ EndsRight(s) /\ Ranked(s)
  /\ \A k \in Range(s) :
       /\ k.call \notin {"validate", "get", "rollback"}
       /\ k.call = "put" => /\ k.key \in DOMAIN bundle.resources /\ ~k.checked
                            /\ k.body = bundle.resources[k.key]
       /\ k.call = "delete" => k.key \notin DOMAIN bundle.resources /\ kind[k.key] \in pruned
       /\ k.call = "prune" => k.kind \in pruned /\ k.keep = OfKind(bundle.resources, k.kind)

\* A resource of the bundle is written or will be, and another one of a kind
\* that is pruned is gone or will be.
PutLeft(s, x) == \E k \in Range(s) : k.call = "put" /\ k.key = x
PruneLeft(s, x) == \E k \in Range(s) : \/ k.call = "delete" /\ k.key = x
                                       \/ k.call = "prune" /\ k.kind = kind[x]
Underway(bundle, pruned, s, st) ==
  /\ \A x \in DOMAIN bundle.resources :
       PutLeft(s, x) \/ (x \in DOMAIN st /\ st[x] = bundle.resources[x])
  /\ \A x \in (DOMAIN st) \ DOMAIN bundle.resources : kind[x] \in pruned => PruneLeft(s, x)

\* Nothing else has changed since the store was before, and what is written comes
\* before what is left to write.
Kept(bundle, pruned, before, s, st) ==
  /\ \A x \in DOMAIN st :
       \/ x \in DOMAIN before /\ st[x] = before[x]
       \/ /\ x \in DOMAIN bundle.resources /\ st[x] = bundle.resources[x]
          /\ \A k \in Range(s) : k.call = "put" => Rank(x) <= Rank(k.key)
  /\ \A x \in DOMAIN before :
       x \in DOMAIN st \/ (x \notin DOMAIN bundle.resources /\ kind[x] \in pruned)

\* The order of joined sequences.
LEMMA RankedJoin ==
  ASSUME NEW s, NEW t, Sequenced(s), Sequenced(t), Ranked(s), Ranked(t),
         \A k \in Range(s), l \in Range(t) : k.call = "put" /\ l.call = "put" => Rank(k.key) <= Rank(l.key)
  PROVE  Ranked(s \o t)
<1> DEFINE u == s \o t
           m == Len(s)
<1>1. /\ m \in Nat /\ Len(t) \in Nat /\ DOMAIN s = 1..m /\ DOMAIN t = 1..Len(t)
      /\ IsJoin(u, s, t)
  BY Joined
<1>2. DOMAIN u = 1..(m + Len(t)) /\ \A i \in DOMAIN s : u[i] = s[i]
  BY <1>1 DEF IsJoin
<1>3. ASSUME NEW i \in DOMAIN u, i \notin DOMAIN s
      PROVE  i - m \in DOMAIN t /\ u[i] = t[i - m]
  <2> DEFINE j == i - m
  <2>1. j \in DOMAIN t /\ m + j = i
    BY <1>1, <1>2, <1>3
  <2> HIDE DEF j
  <2>2. u[m + j] = t[j]
    BY <1>1, <2>1 DEF IsJoin
  <2> QED
    BY <2>1, <2>2 DEF j
<1> HIDE DEF u, m
<1>4. ASSUME NEW i \in DOMAIN u, NEW j \in DOMAIN u, i < j, u[i].call = "put", u[j].call = "put"
      PROVE  Rank(u[i].key) <= Rank(u[j].key)
  <2>1. CASE i \in DOMAIN s /\ j \in DOMAIN s
    BY <1>2, <1>4, <2>1 DEF Ranked
  <2>2. CASE i \in DOMAIN s /\ j \notin DOMAIN s
    <3>1. u[i] \in Range(s) /\ u[j] \in Range(t)
      BY <1>2, <1>3, <2>2 DEF Range
    <3> QED
      BY <1>4, <3>1
  <2>3. CASE i \notin DOMAIN s
    <3>1. j \notin DOMAIN s
      BY <1>1, <1>2, <1>4, <2>3
    <3>2. /\ i - m \in DOMAIN t /\ j - m \in DOMAIN t /\ i - m < j - m
          /\ u[i] = t[i - m] /\ u[j] = t[j - m]
      BY <1>1, <1>2, <1>3, <1>4, <2>3, <3>1
    <3> QED
      BY <1>4, <3>2 DEF Ranked
  <2> QED
    BY <2>1, <2>2, <2>3
<1> QED
  BY <1>4 DEF Ranked, u

\* Calls that write one kind, and calls that write nothing, are in order.
LEMMA RankedRange ==
  ASSUME NEW s, NEW r, \A k \in Range(s) : k.call = "put" => Rank(k.key) = r
  PROVE  Ranked(s)
<1>1. \A i \in DOMAIN s : s[i].call = "put" => Rank(s[i].key) = r
  BY DEF Range
<1>2. \A x : Rank(x) \in Nat
  BY DEF Rank
<1> QED
  BY <1>1, <1>2 DEF Ranked

\* applyOrder.
LEMMA ApplyRanked ==
  ASSUME NEW bundle, IsBundle(bundle), NEW pruned \in SUBSET Kinds
  PROVE  Ranked(ApplyCalls(bundle, pruned))
<1> DEFINE K(k) == KindCalls(bundle, pruned, k)
           rank(k) == IF k = "upstreams" THEN 1 ELSE IF k = "services" THEN 2 ELSE 3
<1>1. ASSUME NEW k
      PROVE  Sequenced(K(k)) /\ \A l \in Range(K(k)) : l.call = "put" => Rank(l.key) = rank(k)
  <2> DEFINE group == OfKind(bundle.resources, k)
  <2>1. /\ Sequenced(K(k))
        /\ Range(K(k)) = {Put(x, bundle.resources[x], FALSE) : x \in group}
                           \cup {ReadBackCall(x) : x \in group}
                           \cup {PruneCall(bundle, l) : l \in pruned \cap {k}}
    BY KindRange DEF IsBundle
  <2> HIDE DEF K
  <2>2. ASSUME NEW l \in Range(K(k)), l.call = "put" PROVE Rank(l.key) = rank(k)
    <3>3. \A x : ReadBackCall(x).call # "put"
      BY DEF ReadBackCall
    <3>4. \A m : PruneCall(bundle, m).call # "put"
      BY DEF PruneCall
    <3>1. PICK x \in group : l = Put(x, bundle.resources[x], FALSE)
      BY <2>1, <2>2, <3>3, <3>4
    <3>2. l.key = x /\ kind[x] = k
      BY <3>1 DEF Put, OfKind
    <3> QED
      BY <3>2, TheKinds DEF Rank
  <2> QED
    BY <2>1, <2>2
<1>2. \A k : Ranked(K(k))
  BY <1>1, RankedRange
<1>3. ApplyCalls(bundle, pruned) = K("upstreams") \o K("services") \o K("routes")
  BY TheKinds DEF ApplyCalls
<1>4. rank("upstreams") = 1 /\ rank("services") = 2 /\ rank("routes") = 3
  OBVIOUS
<1> HIDE DEF K, rank
<1> DEFINE two == K("upstreams") \o K("services")
<1>5. Sequenced(two) /\ Range(two) = Range(K("upstreams")) \cup Range(K("services"))
  BY <1>1, Joined
<1>6. Ranked(two)
  <2>1. \A k \in Range(K("upstreams")), l \in Range(K("services")) :
          k.call = "put" /\ l.call = "put" => Rank(k.key) <= Rank(l.key)
    BY <1>1, <1>4
  <2> QED
    BY <1>1, <1>2, <2>1, RankedJoin
<1> HIDE DEF two
<1>7. Ranked(two \o K("routes"))
  <2>1. \A k \in Range(two), l \in Range(K("routes")) :
          k.call = "put" /\ l.call = "put" => Rank(k.key) <= Rank(l.key)
    BY <1>1, <1>4, <1>5
  <2> QED
    BY <1>1, <1>2, <1>5, <1>6, <2>1, RankedJoin
<1> QED
  BY <1>3, <1>7 DEF two

\* The ends of joined sequences.
LEMMA EndsJoin ==
  ASSUME NEW s, NEW t, Sequenced(s), Sequenced(t), EndsRight(t), \A k \in Range(s) : ~Final(k)
  PROVE  EndsRight(s \o t)
<1> DEFINE u == s \o t
<1>1. /\ Len(s) \in Nat /\ Len(t) \in Nat /\ DOMAIN s = 1..Len(s) /\ DOMAIN t = 1..Len(t)
      /\ IsJoin(u, s, t)
  BY Joined
<1> HIDE DEF u
<1>2. ASSUME NEW i \in DOMAIN u, Final(u[i])
      PROVE  i = Len(u)
  <2>1. CASE i \in DOMAIN s
    BY <1>1, <1>2, <2>1 DEF IsJoin, Range
  <2>2. CASE i \notin DOMAIN s
    <3>1. i - Len(s) \in DOMAIN t /\ u[i] = t[i - Len(s)]
      <4> DEFINE j == i - Len(s)
      <4>1. j \in DOMAIN t /\ Len(s) + j = i
        BY <1>1, <2>2 DEF IsJoin
      <4> HIDE DEF j
      <4>2. u[Len(s) + j] = t[j]
        BY <1>1, <4>1 DEF IsJoin
      <4> QED
        BY <4>1, <4>2 DEF j
    <3>2. i - Len(s) = Len(t)
      BY <1>2, <3>1 DEF EndsRight
    <3> QED
      BY <1>1, <3>2 DEF IsJoin
  <2> QED
    BY <2>1, <2>2
<1> QED
  BY <1>2 DEF EndsRight, u

\* What is left of an import when a call is made.
LEMMA ImportTail ==
  ASSUME NEW s, Sequenced(s), s # <<>>, NEW bundle, NEW pruned, Importing(bundle, pruned, s)
  PROVE  /\ Importing(bundle, pruned, Tail(s))
         /\ Final(Head(s)) => Range(s) = {Head(s)}
         /\ Head(s).call = "put" => \A k \in Range(Tail(s)) : k.call = "put" => Rank(Head(s).key) <= Rank(k.key)
<1>1. /\ Sequenced(Tail(s)) /\ Range(s) = {Head(s)} \cup Range(Tail(s)) /\ Head(s) = s[1]
      /\ Len(s) \in Nat \ {0} /\ DOMAIN s = 1..Len(s)
      /\ Len(Tail(s)) = Len(s) - 1 /\ DOMAIN Tail(s) = 1..(Len(s) - 1)
      /\ \A i \in DOMAIN Tail(s) : Tail(s)[i] = s[i + 1]
  BY TailOf
<1>2. EndsRight(s) /\ Ranked(s)
  BY DEF Importing
<1>3. EndsRight(Tail(s))
  <2> SUFFICES ASSUME NEW i \in DOMAIN Tail(s), Final(Tail(s)[i]) PROVE i = Len(Tail(s))
    BY DEF EndsRight
  <2>1. i + 1 \in DOMAIN s /\ Final(s[i + 1])
    BY <1>1
  <2>2. i + 1 = Len(s)
    BY <1>2, <2>1 DEF EndsRight
  <2> QED
    BY <1>1, <2>2
<1>4. Importing(bundle, pruned, Tail(s))
  <2>1. Ranked(Tail(s))
    <3> SUFFICES ASSUME NEW i \in DOMAIN Tail(s), NEW j \in DOMAIN Tail(s), i < j,
                        Tail(s)[i].call = "put", Tail(s)[j].call = "put"
                 PROVE  Rank(Tail(s)[i].key) <= Rank(Tail(s)[j].key)
      BY DEF Ranked
    <3>1. /\ i + 1 \in DOMAIN s /\ j + 1 \in DOMAIN s /\ i + 1 < j + 1
          /\ Tail(s)[i] = s[i + 1] /\ Tail(s)[j] = s[j + 1]
      BY <1>1
    <3> QED
      BY <1>2, <3>1 DEF Ranked
  <2> QED
    BY <1>1, <1>3, <2>1 DEF Importing
<1>6. ASSUME Head(s).call = "put", NEW k \in Range(Tail(s)), k.call = "put"
      PROVE  Rank(Head(s).key) <= Rank(k.key)
  <2> PICK i \in DOMAIN Tail(s) : k = Tail(s)[i]
    BY DEF Range
  <2>1. 1 \in DOMAIN s /\ i + 1 \in DOMAIN s /\ 1 < i + 1 /\ k = s[i + 1]
    BY <1>1
  <2> QED
    BY <1>1, <1>2, <1>6, <2>1 DEF Ranked
<1>5. ASSUME Final(Head(s)) PROVE Range(s) = {Head(s)}
  <2>1. Len(s) = 1
    BY <1>1, <1>2, <1>5 DEF EndsRight
  <2>2. DOMAIN s = {1}
    BY <1>1, <2>1
  <2> QED
    BY <1>1, <2>2 DEF Range
<1> QED
  BY <1>4, <1>5, <1>6

\* The calls of an import, with what follows them, write the bundle and prune.
LEMMA ImportStarts ==
  ASSUME NEW bundle, IsBundle(bundle), NEW pruned \in SUBSET Kinds, NEW after,
         Sequenced(after), EndsRight(after),
         \A k \in Range(after) : k.call \in {"list", "stamp", "applied"},
         NEW st
  PROVE  LET s == ApplyCalls(bundle, pruned) \o after
         IN  Importing(bundle, pruned, s) /\ Underway(bundle, pruned, s, st)
<1> DEFINE a == ApplyCalls(bundle, pruned)
           s == a \o after
           all == DOMAIN bundle.resources
<1>1. /\ Sequenced(a)
      /\ Range(a) = {Put(x, bundle.resources[x], FALSE) : x \in all}
                      \cup {ReadBackCall(x) : x \in all} \cup {PruneCall(bundle, k) : k \in pruned}
  BY ApplyRange
<1> HIDE DEF a
<1>2. Range(s) = Range(a) \cup Range(after)
  BY <1>1, Joined
<1>3. ASSUME NEW k \in Range(a)
      PROVE  \/ k.call = "put" /\ k.key \in all /\ k.body = bundle.resources[k.key] /\ ~k.checked
             \/ k.call = "readback"
             \/ k.call = "prune" /\ k.kind \in pruned /\ k.keep = OfKind(bundle.resources, k.kind)
  <2>1. CASE \E x \in all : k = Put(x, bundle.resources[x], FALSE)
    BY <2>1 DEF Put
  <2>2. CASE \E x \in all : k = ReadBackCall(x)
    BY <2>2 DEF ReadBackCall
  <2>3. CASE \E l \in pruned : k = PruneCall(bundle, l)
    BY <2>3 DEF PruneCall
  <2> QED
    BY <1>1, <2>1, <2>2, <2>3
<1>6. \A k \in Range(a) : ~Final(k)
  BY <1>3 DEF Final
<1>7. EndsRight(s) /\ Ranked(s)
  <2>1. EndsRight(s)
    BY <1>1, <1>6, EndsJoin
  <2>2. Ranked(a) /\ Ranked(after)
    BY ApplyRanked, RankedRange DEF a
  <2>3. Ranked(s)
    BY <1>1, <2>2, RankedJoin
  <2> QED
    BY <2>1, <2>3
<1> HIDE DEF s
<1>8. Importing(bundle, pruned, s)
  BY <1>2, <1>3, <1>7 DEF Importing
<1>9. ASSUME NEW x \in all PROVE PutLeft(s, x)
  <2> DEFINE k == Put(x, bundle.resources[x], FALSE)
  <2>1. k \in Range(s)
    BY <1>1, <1>2
  <2>2. k.call = "put" /\ k.key = x
    BY DEF Put
  <2> QED
    BY <2>1, <2>2 DEF PutLeft
<1>10. \A x : kind[x] \in pruned => PruneLeft(s, x)
  <2> SUFFICES ASSUME NEW x, kind[x] \in pruned PROVE PruneLeft(s, x)
    OBVIOUS
  <2>1. PruneCall(bundle, kind[x]) \in Range(s)
    BY <1>1, <1>2
  <2> QED
    BY <2>1 DEF PruneLeft, PruneCall
<1>11. Underway(bundle, pruned, s, st)
  BY <1>9, <1>10 DEF Underway
<1> QED
  BY <1>8, <1>11 DEF s, a

\* The state of an import.
Applying(bundle, pruned, s, st) == Importing(bundle, pruned, s) /\ Underway(bundle, pruned, s, st)

\* A put of an import.
LEMMA ImportPuts ==
  ASSUME NEW s, Sequenced(s), s # <<>>, Head(s).call = "put",
         NEW bundle, NEW pruned, NEW st, Applying(bundle, pruned, s, st),
         NEW new, new = With(st, Head(s).key, Head(s).body)
  PROVE  /\ Applying(bundle, pruned, Tail(s), new)
         /\ \A before : Kept(bundle, pruned, before, s, st) => Kept(bundle, pruned, before, Tail(s), new)
<1> DEFINE x == Head(s).key
           t == Tail(s)
<1>1. /\ Importing(bundle, pruned, t) /\ Range(s) = {Head(s)} \cup Range(t)
      /\ \A k \in Range(t) : k.call = "put" => Rank(x) <= Rank(k.key)
  BY ImportTail, TailOf DEF Applying
<1>2. x \in DOMAIN bundle.resources /\ Head(s).body = bundle.resources[x]
  BY <1>1 DEF Applying, Importing
<1>3. /\ DOMAIN new = {x} \cup DOMAIN st /\ new[x] = bundle.resources[x]
      /\ \A y \in DOMAIN st : y # x => new[y] = st[y]
  BY <1>2 DEF With
<1> HIDE DEF x, t
<1>4. ASSUME NEW y \in DOMAIN bundle.resources
      PROVE  PutLeft(t, y) \/ (y \in DOMAIN new /\ new[y] = bundle.resources[y])
  <2>1. CASE y = x
    BY <1>3, <2>1
  <2>2. CASE y # x
    <3>1. PutLeft(s, y) \/ (y \in DOMAIN st /\ st[y] = bundle.resources[y])
      BY DEF Applying, Underway
    <3> QED
      BY <1>1, <1>3, <2>2, <3>1 DEF PutLeft, x
  <2> QED
    BY <2>1, <2>2
<1>5. ASSUME NEW y \in (DOMAIN new) \ DOMAIN bundle.resources, kind[y] \in pruned
      PROVE  PruneLeft(t, y)
  <2>1. PruneLeft(s, y)
    BY <1>2, <1>3, <1>5 DEF Applying, Underway
  <2> QED
    BY <1>1, <2>1 DEF PruneLeft
<1>6. Applying(bundle, pruned, t, new)
  BY <1>1, <1>4, <1>5 DEF Applying, Underway
<1>7. ASSUME NEW before, Kept(bundle, pruned, before, s, st)
      PROVE  Kept(bundle, pruned, before, t, new)
  BY <1>1, <1>2, <1>3, <1>7 DEF Kept
<1> QED
  BY <1>6, <1>7 DEF t

\* A delete of an import.
LEMMA ImportDeletes ==
  ASSUME NEW s, Sequenced(s), s # <<>>, Head(s).call = "delete",
         NEW bundle, NEW pruned, NEW st, IsStore(st), Applying(bundle, pruned, s, st),
         NEW new, new = Only(st, Resources \ {Head(s).key})
  PROVE  /\ Applying(bundle, pruned, Tail(s), new)
         /\ \A before : Kept(bundle, pruned, before, s, st) => Kept(bundle, pruned, before, Tail(s), new)
<1> DEFINE x == Head(s).key
           t == Tail(s)
<1>1. Importing(bundle, pruned, t) /\ Range(s) = {Head(s)} \cup Range(t)
  BY ImportTail, TailOf DEF Applying
<1>2. x \notin DOMAIN bundle.resources /\ kind[x] \in pruned
  BY <1>1 DEF Applying, Importing
<1>3. DOMAIN new = DOMAIN st \ {x} /\ \A y \in DOMAIN new : new[y] = st[y]
  BY DEF Only, IsStore
<1> HIDE DEF x, t
<1>4. ASSUME NEW y \in DOMAIN bundle.resources
      PROVE  PutLeft(t, y) \/ (y \in DOMAIN new /\ new[y] = bundle.resources[y])
  <2>1. PutLeft(s, y) \/ (y \in DOMAIN st /\ st[y] = bundle.resources[y])
    BY DEF Applying, Underway
  <2> QED
    BY <1>1, <1>2, <1>3, <2>1 DEF PutLeft
<1>5. ASSUME NEW y \in (DOMAIN new) \ DOMAIN bundle.resources, kind[y] \in pruned
      PROVE  PruneLeft(t, y)
  <2>1. PruneLeft(s, y) /\ y # x
    BY <1>3, <1>5 DEF Applying, Underway
  <2> QED
    BY <1>1, <2>1 DEF PruneLeft, x
<1>6. Applying(bundle, pruned, t, new)
  BY <1>1, <1>4, <1>5 DEF Applying, Underway
<1>7. ASSUME NEW before, Kept(bundle, pruned, before, s, st)
      PROVE  Kept(bundle, pruned, before, t, new)
  BY <1>1, <1>2, <1>3, <1>7 DEF Kept
<1> QED
  BY <1>6, <1>7 DEF t

\* The List of a prune.
LEMMA ImportPrunes ==
  ASSUME NEW s, Sequenced(s), s # <<>>, Head(s).call = "prune",
         NEW bundle, NEW pruned, NEW st, Applying(bundle, pruned, s, st),
         NEW deletes, Sequenced(deletes),
         Range(deletes) = {Delete(x) : x \in OfKind(st, Head(s).kind) \ Head(s).keep}
  PROVE  /\ Applying(bundle, pruned, deletes \o Tail(s), st)
         /\ \A before : Kept(bundle, pruned, before, s, st) => Kept(bundle, pruned, before, deletes \o Tail(s), st)
<1> DEFINE t == Tail(s)
           u == deletes \o t
           k == Head(s).kind
           extra == OfKind(st, k) \ OfKind(bundle.resources, k)
<1>1. Importing(bundle, pruned, t) /\ Range(s) = {Head(s)} \cup Range(t) /\ Sequenced(t)
  BY ImportTail, TailOf DEF Applying
<1>2. k \in pruned /\ Range(deletes) = {Delete(x) : x \in extra}
  BY <1>1 DEF Applying, Importing
<1>3. Range(u) = Range(deletes) \cup Range(t)
  BY <1>1, Joined
<1>4. \A x \in extra : /\ x \in DOMAIN st /\ x \notin DOMAIN bundle.resources /\ kind[x] = k
                       /\ Delete(x).call = "delete" /\ Delete(x).key = x
  BY DEF OfKind, Delete
<1>5. \A x \in (DOMAIN st) \ DOMAIN bundle.resources : kind[x] = k => x \in extra
  BY DEF OfKind
<1>6. \A d \in Range(deletes) : ~Final(d)
  BY <1>2, <1>4 DEF Final
<1>7. EndsRight(u) /\ Ranked(u)
  <2>1. EndsRight(u)
    BY <1>1, <1>6, EndsJoin DEF Importing
  <2>2. \A d \in Range(deletes) : d.call # "put"
    BY <1>2, <1>4
  <2>3. Ranked(deletes) /\ Ranked(t)
    BY <1>1, <2>2, RankedRange DEF Importing
  <2>4. Ranked(u)
    BY <1>1, <2>2, <2>3, RankedJoin
  <2> QED
    BY <2>1, <2>4
<1> HIDE DEF t, u, extra
<1>8. Importing(bundle, pruned, u)
  BY <1>1, <1>2, <1>3, <1>4, <1>7 DEF Importing
<1>9. ASSUME NEW y \in DOMAIN bundle.resources
      PROVE  PutLeft(u, y) \/ (y \in DOMAIN st /\ st[y] = bundle.resources[y])
  <2>1. PutLeft(s, y) \/ (y \in DOMAIN st /\ st[y] = bundle.resources[y])
    BY DEF Applying, Underway
  <2> QED
    BY <1>1, <1>3, <2>1 DEF PutLeft
<1>10. ASSUME NEW y \in (DOMAIN st) \ DOMAIN bundle.resources, kind[y] \in pruned
       PROVE  PruneLeft(u, y)
  <2>1. CASE kind[y] = k
    BY <1>2, <1>3, <1>4, <1>5, <2>1 DEF PruneLeft
  <2>2. CASE kind[y] # k
    <3>1. PruneLeft(s, y)
      BY <1>10 DEF Applying, Underway
    <3> QED
      BY <1>1, <1>3, <2>2, <3>1 DEF PruneLeft
  <2> QED
    BY <2>1, <2>2
<1>11. ASSUME NEW before, Kept(bundle, pruned, before, s, st)
       PROVE  Kept(bundle, pruned, before, u, st)
  <2>1. \A l \in Range(u) : l.call = "put" => l \in Range(s)
    BY <1>1, <1>2, <1>3, <1>4
  <2> QED
    BY <1>11, <2>1 DEF Kept
<1>12. Applying(bundle, pruned, u, st)
  BY <1>8, <1>9, <1>10 DEF Applying, Underway
<1> QED
  BY <1>11, <1>12 DEF u, t

\* Calls that only read.
LEMMA ImportReads ==
  ASSUME NEW s, Sequenced(s), s # <<>>, Head(s).call \notin {"put", "delete", "prune"},
         NEW bundle, NEW pruned, NEW st, Applying(bundle, pruned, s, st)
  PROVE  /\ Applying(bundle, pruned, Tail(s), st)
         /\ \A before : Kept(bundle, pruned, before, s, st) => Kept(bundle, pruned, before, Tail(s), st)
<1>1. Importing(bundle, pruned, Tail(s)) /\ Range(s) = {Head(s)} \cup Range(Tail(s))
  BY ImportTail, TailOf DEF Applying
<1>2. Applying(bundle, pruned, Tail(s), st)
  BY <1>1 DEF Applying, Underway, PutLeft, PruneLeft
<1>3. \A before : Kept(bundle, pruned, before, s, st) => Kept(bundle, pruned, before, Tail(s), st)
  BY <1>1 DEF Kept
<1> QED
  BY <1>2, <1>3

\* The calls of saveHistorySnapshot come last.
LEMMA ImportEnds ==
  ASSUME NEW s, Sequenced(s), s # <<>>, Final(Head(s)),
         NEW bundle, NEW pruned, NEW st, Applying(bundle, pruned, s, st),
         NEW t, Sequenced(t), EndsRight(t), \A k \in Range(t) : k.call \in {"save", "trim", "drop"}
  PROVE  /\ Applying(bundle, pruned, t, st)
         /\ \A before : Kept(bundle, pruned, before, s, st) => Kept(bundle, pruned, before, t, st)
<1>1. Range(s) = {Head(s)}
  BY ImportTail DEF Applying
<1>2. \A x : ~PutLeft(s, x) /\ ~PruneLeft(s, x)
  BY <1>1 DEF PutLeft, PruneLeft, Final
<1>3. Importing(bundle, pruned, t)
  BY RankedRange DEF Importing
<1>4. Applying(bundle, pruned, t, st)
  BY <1>2, <1>3 DEF Applying, Underway
<1>5. \A before : Kept(bundle, pruned, before, s, st) => Kept(bundle, pruned, before, t, st)
  BY DEF Kept
<1> QED
  BY <1>4, <1>5

\* A call of an import leaves it under way, or ends it.
LEMMA ImportStep ==
  ASSUME TypeInv, NEW c \in Clients, Step(c), NEW bundle, NEW pruned,
         Applying(bundle, pruned, todo[c], store)
  PROVE  \/ ReadBack(c) /\ todo'[c] = <<>>
         \/ /\ Applying(bundle, pruned, todo'[c], store')
            /\ \A before : Kept(bundle, pruned, before, todo[c], store)
                             => Kept(bundle, pruned, before, todo'[c], store')
<1> DEFINE s == todo[c]
           call == Head(s)
           tail == Tail(s)
           Result(t) == \/ ReadBack(c) /\ t = <<>>
                        \/ /\ Applying(bundle, pruned, t, store')
                           /\ \A before : Kept(bundle, pruned, before, s, store)
                                            => Kept(bundle, pruned, before, t, store')
<1>1. IsStore(store) /\ HistoryType /\ Queue(s) /\ DOMAIN todo = Clients
  BY DEF TypeInv, QueueType
<1>2. Sequenced(s) /\ Act(c)
  BY <1>1 DEF Queue, Plain, Good, Act
<1>3. ASSUME NEW rest, Proceed(c, rest) PROVE todo'[c] = rest
  BY <1>1, <1>3 DEF Proceed
<1>4. s # <<>>
  BY DEF Step, StoreList, ValidateResource, StorePut, ReadBack, StoreDelete, PatchGet,
         PruneList, HistoryGet, StampEntry, HistoryPut, HistoryTrim, HistoryDelete, Calls
<1>5. call.call \notin {"validate", "get", "rollback"}
  <2>1. call \in Range(s)
    BY <1>2, <1>4, TailOf
  <2> QED
    BY <2>1 DEF Applying, Importing
<1>6. ASSUME call.call \notin {"put", "delete", "prune"}, store' = store PROVE Result(tail)
  BY <1>2, <1>4, <1>6, ImportReads
<1>7. ASSUME Final(call), store' = store,
             NEW t, Sequenced(t), EndsRight(t), \A k \in Range(t) : k.call \in {"save", "trim", "drop"}
      PROVE  Result(t)
  BY <1>2, <1>4, <1>7, ImportEnds
<1>8. ASSUME NEW k PROVE EndsRight(<<k>>)
  BY DEF EndsRight
<1> HIDE DEF call, tail, Result
<1>9. CASE StoreList(c)
  <2>1. call.call = "list" /\ todo'[c] = tail
    BY <1>1, <1>9 DEF StoreList, Calls, call, tail
  <2> QED
    BY <1>2, <1>6, <1>9, <2>1 DEF StoreList, storeVars, Result
<1>10. CASE StorePut(c)
  <2>1. call.call = "put" /\ todo'[c] = tail /\ store' = With(store, call.key, call.body)
    BY <1>3, <1>10 DEF StorePut, Calls, call, tail
  <2> QED
    BY <1>2, <1>4, <2>1, ImportPuts DEF call, tail
<1>11. CASE ReadBack(c)
  <2>1. call.call = "readback" /\ (Proceed(c, tail) \/ Proceed(c, <<>>)) /\ store' = store
    BY <1>11 DEF ReadBack, Calls, call, tail, storeVars
  <2> QED
    BY <1>3, <1>6, <1>11, <2>1 DEF Result
<1>12. CASE StoreDelete(c)
  <2>1. call.call = "delete" /\ todo'[c] = tail /\ store' = Only(store, Resources \ {call.key})
    BY <1>3, <1>12 DEF StoreDelete, Calls, call, tail
  <2> QED
    BY <1>1, <1>2, <1>4, <2>1, ImportDeletes DEF call, tail
<1>13. CASE PruneList(c)
  <2> DEFINE extra == OfKind(store, call.kind) \ call.keep
             deletes == [i \in DOMAIN Sorted(extra) |-> Delete(Sorted(extra)[i])]
  <2>1. call.call = "prune" /\ Proceed(c, deletes \o tail) /\ store' = store
    BY <1>13 DEF PruneList, Calls, call, tail, storeVars
  <2>2. Sequenced(deletes) /\ Range(deletes) = {Delete(x) : x \in extra}
    <3>1. extra \in SUBSET Resources
      BY <1>1 DEF OfKind, IsStore
    <3>2. IsFiniteSet(extra)
      BY <3>1, FS_Subset, ControlPlaneAssumption
    <3> QED
      BY <3>2, DeletesOf
  <2> HIDE DEF deletes
  <2>3. todo'[c] = deletes \o tail
    BY <1>3, <2>1
  <2>4. Applying(bundle, pruned, deletes \o tail, store)
        /\ \A before : Kept(bundle, pruned, before, s, store)
                         => Kept(bundle, pruned, before, deletes \o tail, store)
    BY <1>2, <1>4, <2>1, <2>2, ImportPrunes DEF call, tail
  <2> QED
    BY <2>1, <2>3, <2>4
<1>14. CASE StampEntry(c)
  <2> DEFINE k == [call |-> "save",
                   entry |-> [id |-> nextID,
                              bundle |-> [resources |-> view[c], managed |-> Kinds]]]
  <2>1. call.call = "stamp" /\ Proceed(c, <<k>>) /\ store' = store
    BY <1>14 DEF StampEntry, Calls, call, storeVars
  <2>2. k.call = "save"
    OBVIOUS
  <2> HIDE DEF k
  <2>3. todo'[c] = <<k>>
    BY <1>3, <2>1
  <2>4. Sequenced(<<k>>) /\ Range(<<k>>) = {k}
    BY OneCall
  <2>5. Result(<<k>>)
    BY <1>7, <1>8, <2>1, <2>2, <2>4 DEF Final
  <2> QED
    BY <2>3, <2>5 DEF Result
<1>15. CASE HistoryPut(c)
  <2> DEFINE k == [call |-> "trim", id |-> call.entry.id]
  <2>1. call.call = "save" /\ Proceed(c, <<k>>) /\ store' = store
    BY <1>15 DEF HistoryPut, Calls, call, storeVars
  <2>2. k.call = "trim"
    OBVIOUS
  <2> HIDE DEF k
  <2>3. todo'[c] = <<k>>
    BY <1>3, <2>1
  <2>4. Sequenced(<<k>>) /\ Range(<<k>>) = {k}
    BY OneCall
  <2>5. Result(<<k>>)
    BY <1>7, <1>8, <2>1, <2>2, <2>4 DEF Final
  <2> QED
    BY <2>3, <2>5 DEF Result
<1>16. CASE HistoryTrim(c)
  <2> DEFINE ids == IDs(BeyondLimit(history))
             drops == [i \in DOMAIN Sorted(ids) |-> [call |-> "drop", id |-> Sorted(ids)[i], save |-> call.id]]
  <2>1. call.call = "trim" /\ Proceed(c, drops) /\ store' = store
    BY <1>16 DEF HistoryTrim, Calls, call, storeVars
  <2>2. Sequenced(drops) /\ Range(drops) = {[call |-> "drop", id |-> i, save |-> call.id] : i \in ids}
    BY <1>1, DroppedIDs, DropsOf
  <2> HIDE DEF drops, ids
  <2>3. \A k \in Range(drops) : k.call = "drop"
    <3> TAKE k \in Range(drops)
    <3>1. PICK i \in ids : k = [call |-> "drop", id |-> i, save |-> call.id]
      BY <2>2
    <3> QED
      BY ONLY <3>1
  <2>4. EndsRight(drops)
    BY <2>3 DEF EndsRight, Range, Final
  <2>5. Result(drops)
    BY <1>7, <2>1, <2>2, <2>3, <2>4 DEF Final
  <2> QED
    BY <1>3, <2>1, <2>5 DEF Result
<1>17. CASE HistoryDelete(c)
  <2>1. call.call = "drop" /\ Proceed(c, tail) /\ store' = store
    BY <1>17 DEF HistoryDelete, Calls, call, tail, storeVars
  <2> QED
    BY <1>3, <1>6, <2>1 DEF Result
<1>18. CASE ValidateResource(c) \/ PatchGet(c) \/ HistoryGet(c)
  BY Zenon, <1>5, <1>18 DEF ValidateResource, PatchGet, HistoryGet, Calls, call
<1> QED
  BY <1>9, <1>10, <1>11, <1>12, <1>13, <1>14, <1>15, <1>16, <1>17, <1>18 DEF Step

\* What is to be brought about, and how far it is.
IsGoal(g) ==
  /\ IsBundle(g.bundle) /\ g.prune \in BOOLEAN /\ IsStore(g.before)
  /\ g.pruned \in SUBSET Kinds /\ g.pruned = resolvePruneKinds(g.bundle, g.prune, g.pruneKinds)
  /\ g.plan = BuildApplyPlan(g.before, g.bundle, g.pruned)
  /\ g.verdict = ValidateBundle(g.before, g.bundle, g.pruned)
Achieving(g, s, st) ==
  IsGoal(g) /\ Applying(g.bundle, g.pruned, s, st) /\ Kept(g.bundle, g.pruned, g.before, s, st)

\* A bundle operation that runs alone is on its way.
GoalInv ==
  \A c \in Clients : goal[c] # NoGoal =>
    /\ \A d \in Clients \ {c} : todo[d] = <<>>
    /\ Achieving(goal[c], todo[c], store)

\* The calls of saveHistorySnapshot end with none of an import.
LEMMA SaveEnds == EndsRight(SaveCalls)
<1> DEFINE l == ListCalls(supportedKinds)
           t == <<[call |-> "stamp"]>>
<1>1. Sequenced(l) /\ \A k \in Range(l) : k.call = "list"
  <2>1. Plain(l) /\ DOMAIN l = 1..3 /\ \A i \in 1..3 : l[i].call = "list"
    BY PlainLists
  <2> HIDE DEF l
  <2> QED
    BY <2>1 DEF Plain, Good, Range
<1>2. Sequenced(t) /\ Range(t) = {[call |-> "stamp"]} /\ EndsRight(t)
  BY OneCall DEF EndsRight
<1>3. SaveCalls = l \o t
  BY DEF SaveCalls
<1> HIDE DEF l, t
<1>4. EndsRight(l \o t)
  BY <1>1, <1>2, EndsJoin DEF Final
<1> QED
  BY <1>3, <1>4

\* An import over the admin API or a rollback starts.
LEMMA GoalStarts ==
  ASSUME TypeInv, NEW bundle, IsBundle(bundle), NEW prune \in BOOLEAN, NEW pruneKinds \in SUBSET Kinds
  PROVE  Achieving(Goal(bundle, prune, pruneKinds),
                   ApplyCalls(bundle, resolvePruneKinds(bundle, prune, pruneKinds)) \o SaveCalls, store)
<1> DEFINE pruned == resolvePruneKinds(bundle, prune, pruneKinds)
           g == Goal(bundle, prune, pruneKinds)
           s == ApplyCalls(bundle, pruned) \o SaveCalls
<1>1. /\ g.bundle = bundle /\ g.prune = prune /\ g.pruneKinds = pruneKinds
      /\ g.pruned = pruned /\ g.before = store
      /\ g.plan = BuildApplyPlan(store, bundle, pruned)
      /\ g.verdict = ValidateBundle(store, bundle, pruned)
  BY DEF Goal
<1>2. pruned \in SUBSET Kinds
  BY PrunedKinds
<1>3. pruned = resolvePruneKinds(bundle, prune, pruneKinds)
  OBVIOUS
<1> HIDE DEF pruned
<1>4. Applying(bundle, pruned, s, store)
  BY <1>2, SaveEnds, SaveLists, ImportStarts DEF Applying
<1> HIDE DEF g, s
<1>5. Kept(bundle, pruned, store, s, store)
  BY DEF Kept
<1>6. IsGoal(g)
  BY <1>1, <1>2, <1>3 DEF IsGoal, TypeInv
<1> QED
  BY <1>1, <1>4, <1>5, <1>6 DEF Achieving, g, s, pruned

\* Whoever starts an operation is the only one who may be alone.
LEMMA GoalsAtStart ==
  ASSUME TypeInv, NEW c \in Clients, StartSomething(c), NEW d \in Clients, goal'[d] # NoGoal
  PROVE  /\ d = c /\ \A e \in Clients \ {c} : todo[e] = <<>>
         /\ Achieving(goal'[c], todo'[c], store) /\ store' = store
<1>1. ASSUME NEW calls, NEW g, Start(c, calls, g)
      PROVE  /\ todo'[c] = calls /\ g # NoGoal /\ goal'[d] = g /\ store' = store
             /\ d = c /\ \A e \in Clients \ {c} : todo[e] = <<>>
  BY <1>1 DEF Start, Begin, TypeInv, QueueType
<1>2. PICK bundle \in Bundles, prune \in BOOLEAN, pruneKinds \in {{}, {"routes"}} :
        handleImportApply(c, bundle, prune, pruneKinds)
  BY <1>1 DEF StartSomething, handlePut, handlePatch, handleDelete, adminImport, handleHistoryRollback
<1> DEFINE calls == ApplyCalls(bundle, resolvePruneKinds(bundle, prune, pruneKinds)) \o SaveCalls
           g == Goal(bundle, prune, pruneKinds)
<1>3. IsBundle(bundle) /\ pruneKinds \in SUBSET Kinds
  BY TheKinds, ControlPlaneAssumption
<1>4. Start(c, calls, g)
  BY <1>2 DEF handleImportApply
<1>5. Achieving(g, calls, store)
  BY <1>3, GoalStarts
<1> HIDE DEF calls, g
<1> QED
  BY <1>1, <1>4, <1>5

\* A call leaves the goals alone, except that it may end its own operation or
\* begin a rollback.
LEMMA GoalsKept ==
  ASSUME TypeInv, NEW c \in Clients, Step(c), ~HistoryGet(c)
  PROVE  /\ \A d \in Clients \ {c} : goal'[d] = goal[d]
         /\ goal'[c] \in {goal[c], NoGoal} /\ (ReadBack(c) /\ todo'[c] = <<>> => goal'[c] = NoGoal)
         /\ todo[c] # <<>>
<1>1. DOMAIN todo = Clients /\ DOMAIN goal = Clients
  BY DEF TypeInv, QueueType
<1>2. ASSUME NEW rest, Proceed(c, rest)
      PROVE  /\ \A d \in Clients \ {c} : goal'[d] = goal[d]
             /\ goal'[c] \in {goal[c], NoGoal} /\ (todo'[c] = <<>> => goal'[c] = NoGoal)
  BY <1>1, <1>2 DEF Proceed
<1>3. CASE StoreList(c)
  BY <1>3 DEF StoreList, ReadBack, Calls
<1>4. CASE ~StoreList(c)
  <2>1. \E rest : Proceed(c, rest)
    BY <1>4 DEF Step, ValidateResource, StorePut, ReadBack, StoreDelete, PatchGet,
                PruneList, StampEntry, HistoryPut, HistoryTrim, HistoryDelete
  <2>2. todo[c] # <<>>
    BY <1>4 DEF Step, ValidateResource, StorePut, ReadBack, StoreDelete, PatchGet,
                PruneList, StampEntry, HistoryPut, HistoryTrim, HistoryDelete, Calls
  <2> QED
    BY <1>2, <2>1, <2>2
<1> QED
  BY <1>3, <1>4

\* Every step keeps the operation that runs alone on its way.
LEMMA GoalStep ==
  ASSUME TypeInv, GoalInv, NEW c \in Clients, Act(c)
  PROVE  GoalInv'
<1> SUFFICES ASSUME NEW d \in Clients, goal'[d] # NoGoal
             PROVE  (\A e \in Clients \ {d} : todo'[e] = <<>>) /\ Achieving(goal'[d], todo'[d], store')
  BY DEF GoalInv
<1>1. DOMAIN todo = Clients /\ DOMAIN goal = Clients
  BY DEF TypeInv, QueueType
<1>2. \A e \in Clients \ {c} : todo'[e] = todo[e]
  BY OthersKeep
<1>3. ASSUME d # c, goal'[d] = goal[d]
      PROVE  todo[c] = <<>>
  BY <1>3 DEF GoalInv
<1>4. CASE StartSomething(c)
  BY <1>2, <1>4, GoalsAtStart
<1>5. CASE CallFails(c)
  BY <1>1, <1>3, <1>5 DEF CallFails
<1>6. CASE HistoryGet(c)
  <2> DEFINE found == {e \in history : e.id = Head(todo[c]).id}
             bundle == (CHOOSE e \in found : TRUE).bundle
             pruned == resolvePruneKinds(bundle, TRUE, bundle.managed)
             calls == ApplyCalls(bundle, pruned) \o SaveCalls
             g == Goal(bundle, TRUE, bundle.managed)
  <2>1. todo[c] # <<>> /\ store' = store
    BY <1>6 DEF HistoryGet, Calls, storeVars
  <2>2. found # {} /\ todo'[c] = calls
    <3>1. CASE found = {}
      BY <1>1, <1>3, <1>6, <2>1, <3>1 DEF HistoryGet, Proceed
    <3>2. CASE found # {}
      BY <1>1, <1>6, <3>2 DEF HistoryGet
    <3> QED
      BY <3>1, <3>2
  <2>3. goal' = [goal EXCEPT ![c] = IF \A e \in Clients \ {c} : todo[e] = <<>>
                                      THEN g ELSE NoGoal]
    BY <1>6, <2>2 DEF HistoryGet
  <2>4. IsBundle(bundle)
    BY <2>2 DEF TypeInv, HistoryType
  <2> HIDE DEF bundle
  <2>5. bundle.managed \in SUBSET Kinds
    BY <2>4 DEF IsBundle
  <2>6. Achieving(g, calls, store)
    BY <2>4, <2>5, GoalStarts
  <2> HIDE DEF calls, g
  <2>7. d = c
    BY <1>1, <1>3, <2>1, <2>3
  <2>8. goal'[c] = g /\ \A e \in Clients \ {c} : todo[e] = <<>>
    BY <1>1, <2>3, <2>7
  <2> QED
    BY <1>2, <2>1, <2>2, <2>6, <2>7, <2>8
<1>7. CASE Step(c) /\ ~HistoryGet(c)
  <2>1. d = c
    BY <1>3, <1>7, GoalsKept
  <2>2. goal'[c] = goal[c] /\ ~(ReadBack(c) /\ todo'[c] = <<>>)
    BY <1>7, <2>1, GoalsKept
  <2>3. (\A e \in Clients \ {c} : todo[e] = <<>>) /\ Achieving(goal[c], todo[c], store)
    BY <2>1, <2>2 DEF GoalInv
  <2>4. /\ IsGoal(goal[c]) /\ Applying(goal[c].bundle, goal[c].pruned, todo[c], store)
        /\ Kept(goal[c].bundle, goal[c].pruned, goal[c].before, todo[c], store)
    BY <2>3 DEF Achieving
  <2> DEFINE g == goal[c]
  <2> HIDE DEF g
  <2>5. /\ Applying(g.bundle, g.pruned, todo'[c], store')
        /\ Kept(g.bundle, g.pruned, g.before, todo'[c], store')
    BY <1>7, <2>2, <2>4, ImportStep DEF g
  <2> QED
    BY <1>2, <2>1, <2>2, <2>3, <2>4, <2>5 DEF Achieving, g
<1> QED
  BY <1>4, <1>5, <1>6, <1>7 DEF Act

\* Nobody runs anything at the start.
LEMMA GoalsInvariant == Spec => [](TypeInv /\ GoalInv)
<1>1. Init => GoalInv
  BY DEF Init, GoalInv
<1>2. TypeInv /\ GoalInv /\ [Next]_vars => GoalInv'
  <2> SUFFICES ASSUME TypeInv, GoalInv, [Next]_vars PROVE GoalInv'
    OBVIOUS
  <2>1. ASSUME NEW c \in Clients, Act(c) PROVE GoalInv'
    BY <2>1, GoalStep
  <2>2. CASE UNCHANGED vars
    BY Zenon, <2>2 DEF vars, GoalInv
  <2> QED
    BY Zenon, <2>1, <2>2 DEF Next, Act
<1> QED
  BY Zenon, <1>1, <1>2, TypeInvariant, PTL DEF Spec

\* Stores are equal when they have the same resources with the same bodies.
LEMMA SameStore ==
  ASSUME NEW f, NEW g, IsStore(f), IsStore(g), DOMAIN f = DOMAIN g,
         \A x \in DOMAIN f : f[x] = g[x]
  PROVE  f = g
  BY DEF IsStore

\* What is in the store when the writes are made.
Achieved(bundle, pruned, before, st) ==
  /\ DOMAIN st = (DOMAIN bundle.resources)
                   \cup {x \in DOMAIN before : kind[x] \notin pruned}
  /\ \A x \in DOMAIN st : st[x] = IF x \in DOMAIN bundle.resources THEN bundle.resources[x] ELSE before[x]

\* The writes of c are made.
LEMMA WritesMade ==
  ASSUME TypeInv, GoalInv, NEW c \in Clients, Finished(c)
  PROVE  /\ IsGoal(goal[c]) /\ IsStore(store)
         /\ Achieved(goal[c].bundle, goal[c].pruned, goal[c].before, store)
<1> DEFINE s == todo[c]
           bundle == goal[c].bundle
           pruned == goal[c].pruned
           before == goal[c].before
<1>1. IsGoal(goal[c]) /\ Applying(bundle, pruned, s, store) /\ Kept(bundle, pruned, before, s, store)
  BY DEF Finished, GoalInv, Achieving
<1>2. \A k \in Range(s) : k.call \notin {"put", "prune", "delete"}
  BY DEF Finished, Range
<1> HIDE DEF s, bundle, pruned, before
<1>3. \A x : ~PutLeft(s, x) /\ ~PruneLeft(s, x)
  BY <1>2 DEF PutLeft, PruneLeft
<1>4. \A x \in DOMAIN bundle.resources : x \in DOMAIN store /\ store[x] = bundle.resources[x]
  BY <1>1, <1>3 DEF Applying, Underway
<1>5. \A x \in (DOMAIN store) \ DOMAIN bundle.resources :
        kind[x] \notin pruned /\ x \in DOMAIN before /\ store[x] = before[x]
  BY <1>1, <1>3 DEF Applying, Underway, Kept
<1>6. \A x \in DOMAIN before : kind[x] \notin pruned => x \in DOMAIN store
  BY <1>1 DEF Kept
<1>7. Achieved(bundle, pruned, before, store)
  BY Zenon, <1>4, <1>5, <1>6 DEF Achieved
<1> QED
  BY <1>1, <1>7 DEF TypeInv, bundle, pruned, before

\* What is pruned is in the scope that the options and the bundle name, unless
\* they name no kind.
LEMMA PrunedAsAsked ==
  ASSUME NEW g, IsGoal(g), ~(g.prune /\ PruneScope(g) = {})
  PROVE  g.pruned = PruneScope(g)
<1>1. g.prune \in BOOLEAN /\ g.pruned = resolvePruneKinds(g.bundle, g.prune, g.pruneKinds)
  BY DEF IsGoal
<1>2. CASE ~g.prune
  BY <1>1, <1>2 DEF PruneScope, resolvePruneKinds
<1>3. CASE g.prune /\ g.pruneKinds # {}
  BY <1>1, <1>3 DEF PruneScope, resolvePruneKinds
<1>4. CASE g.prune /\ g.pruneKinds = {} /\ g.bundle.managed # {}
  BY <1>1, <1>4 DEF PruneScope, resolvePruneKinds
<1>5. CASE g.prune /\ g.pruneKinds = {} /\ g.bundle.managed = {}
  <2>1. PruneScope(g) = included(g.bundle)
    BY <1>5 DEF PruneScope
  <2>2. g.pruned = resourceKinds(g.bundle)
    BY <1>1, <1>5 DEF resolvePruneKinds
  <2> QED
    BY <1>5, <2>1, <2>2 DEF resourceKinds, normalizeResourceKindSelection
<1> QED
  BY <1>1, <1>2, <1>3, <1>4, <1>5

\* An import or a rollback that nobody disturbs leaves exactly the bundle and the
\* resources outside the scope of its prune, whatever was in the store before: for
\* every bundle, selection of kinds and content of the store, unless neither the
\* options nor the bundle name a kind to prune (ApplyBundleWithOptions).
THEOREM ApplyExact == Spec => []ApplyIsExact
<1>1. TypeInv /\ GoalInv => ApplyIsExact
  <2> SUFFICES ASSUME TypeInv, GoalInv, NEW c \in Clients, Finished(c),
                      ~(goal[c].prune /\ PruneScope(goal[c]) = {})
               PROVE  store = Over(goal[c].bundle.resources,
                                   Only(goal[c].before, {x \in Resources : kind[x] \notin PruneScope(goal[c])}))
    BY Zenon DEF ApplyIsExact
  <2> DEFINE bundle == goal[c].bundle
             pruned == goal[c].pruned
             before == goal[c].before
             rest == Only(before, {x \in Resources : kind[x] \notin pruned})
             f == Over(bundle.resources, rest)
  <2>1. IsGoal(goal[c]) /\ IsStore(store) /\ Achieved(bundle, pruned, before, store)
    BY WritesMade
  <2>0. pruned = PruneScope(goal[c])
    BY <2>1, PrunedAsAsked
  <2>2. IsStore(bundle.resources) /\ IsStore(before)
    BY <2>1 DEF IsGoal, IsBundle
  <2> HIDE DEF bundle, pruned, before
  <2>3. IsStore(rest)
    BY <2>2, StoresMade
  <2>4. /\ DOMAIN rest = {x \in DOMAIN before : kind[x] \notin pruned}
        /\ \A x \in DOMAIN rest : rest[x] = before[x]
    BY <2>2 DEF Only, IsStore
  <2> HIDE DEF rest
  <2>5. IsStore(f)
    BY <2>2, <2>3, StoresMade
  <2>6. DOMAIN f = DOMAIN store /\ \A x \in DOMAIN store : store[x] = f[x]
    BY Zenon, <2>1, <2>4 DEF Over, Achieved
  <2> HIDE DEF f
  <2>7. store = f
    BY <2>1, <2>5, <2>6, SameStore
  <2> QED
    BY Zenon, <2>0, <2>7 DEF f, rest, bundle, before
<1> QED
  BY <1>1, GoalsInvariant, PTL

\* The plan of a preview lists exactly what the import changes, and its verdict,
\* when every body decodes and there is one, is that on the store that the import
\* leaves (BuildApplyPlan, ValidateBundle).
THEOREM PreviewExact == Spec => []PreviewIsExact
<1>1. TypeInv /\ GoalInv => PreviewIsExact
  <2> SUFFICES ASSUME TypeInv, GoalInv, NEW c \in Clients, Finished(c)
               PROVE  /\ goal[c].plan =
                           [create |-> DOMAIN store \ DOMAIN goal[c].before,
                            update |-> {x \in DOMAIN store \cap DOMAIN goal[c].before :
                                          store[x] # goal[c].before[x]},
                            delete |-> DOMAIN goal[c].before \ DOMAIN store]
                      /\ goal[c].verdict = "valid" => Valid(store) /\ Decodes(store)
                      /\ goal[c].verdict = "invalid" => ~Valid(store)
    BY DEF PreviewIsExact
  <2> DEFINE bundle == goal[c].bundle
             pruned == goal[c].pruned
             before == goal[c].before
             desired == bundle.resources
  <2>1. /\ IsGoal(goal[c]) /\ IsStore(store) /\ Achieved(bundle, pruned, before, store)
        /\ goal[c].plan = BuildApplyPlan(before, bundle, pruned)
        /\ goal[c].verdict = ValidateBundle(before, bundle, pruned)
    BY WritesMade DEF IsGoal
  <2>2. IsStore(desired) /\ IsStore(before)
    BY <2>1 DEF IsGoal, IsBundle
  <2> HIDE DEF bundle, pruned, before
  <2>3. DOMAIN desired \ DOMAIN before = DOMAIN store \ DOMAIN before
    BY <2>1 DEF Achieved
  <2>4. {x \in DOMAIN desired \cap DOMAIN before : desired[x] # before[x]}
          = {x \in DOMAIN store \cap DOMAIN before : store[x] # before[x]}
    BY <2>1 DEF Achieved
  <2>5. {x \in DOMAIN before \ DOMAIN desired : kind[x] \in pruned} = DOMAIN before \ DOMAIN store
    BY <2>1 DEF Achieved
  <2>6. goal[c].plan = [create |-> DOMAIN store \ DOMAIN before,
                        update |-> {x \in DOMAIN store \cap DOMAIN before : store[x] # before[x]},
                        delete |-> DOMAIN before \ DOMAIN store]
    BY <2>1, <2>3, <2>4, <2>5 DEF BuildApplyPlan
  <2> DEFINE merged == Over(desired, before)
             f == Only(merged, {x \in Resources : kind[x] \in pruned => x \in DOMAIN desired})
  <2>7. IsStore(merged) /\ IsStore(f)
    BY <2>2, StoresMade
  <2>8. /\ DOMAIN merged = (DOMAIN desired) \cup DOMAIN before
        /\ \A x \in DOMAIN merged : merged[x] = IF x \in DOMAIN desired THEN desired[x] ELSE before[x]
    BY DEF Over
  <2> HIDE DEF merged
  <2>9. /\ DOMAIN f = (DOMAIN desired) \cup {x \in DOMAIN before : kind[x] \notin pruned}
        /\ \A x \in DOMAIN f : f[x] = merged[x]
    BY <2>2, <2>8 DEF Only, IsStore
  <2> HIDE DEF f
  <2>10. store = f
    <3>1. DOMAIN store = DOMAIN f /\ \A x \in DOMAIN store : store[x] = f[x]
      BY Zenon, <2>1, <2>8, <2>9 DEF Achieved
    <3> QED
      BY Zenon, <2>1, <2>7, <3>1, SameStore
  <2>11. Outcome(before, bundle, pruned) = store
    BY <2>10 DEF Outcome, f, merged
  <2>12. Decodes(before) /\ Decodes(desired) => Decodes(store)
    BY <2>1 DEF Decodes, Achieved
  <2>13. /\ goal[c].verdict = "valid" => Valid(store) /\ Decodes(store)
         /\ goal[c].verdict = "invalid" => ~Valid(store)
    BY <2>1, <2>11, <2>12 DEF ValidateBundle
  <2> QED
    BY <2>6, <2>13 DEF before
<1> QED
  BY <1>1, GoalsInvariant, PTL

\* What a body refers to is written earlier.
LEMMA ReferencesAreEarlier ==
  ASSUME NEW f, IsStore(f), NEW x \in DOMAIN f, NEW y \in f[x].refs
  PROVE  Rank(y) < Rank(x)
<1>1. f[x] \in BodyOf(x)
  BY DEF IsStore
<1>2. kind[y] \in refersTo(kind[x])
  BY <1>1 DEF BodyOf
<1> QED
  BY <1>2, TheKinds DEF refersTo, Rank

\* While an undisturbed import or rollback that leaves a valid store is under way,
\* no reference dangles unless it prunes, and then only in a resource that it has
\* yet to write or to prune: applyOrder writes what is referred to first.
THEOREM ApplyKeepsOrder == Spec => []ApplyKeepsReferences
<1>1. TypeInv /\ GoalInv => ApplyKeepsReferences
  <2> SUFFICES ASSUME TypeInv, GoalInv, NEW c \in Clients,
                      goal[c] # NoGoal, Valid(goal[c].before),
                      Valid(Outcome(goal[c].before, goal[c].bundle, goal[c].pruned)),
                      NEW x \in issues(store)
               PROVE  goal[c].pruned # {} /\ WillRepair(c, x)
    BY DEF ApplyKeepsReferences
  <2> DEFINE s == todo[c]
             bundle == goal[c].bundle
             desired == bundle.resources
             pruned == goal[c].pruned
             before == goal[c].before
             merged == Over(desired, before)
             f == Only(merged, {y \in Resources : kind[y] \in pruned => y \in DOMAIN desired})
  <2>1. IsGoal(goal[c]) /\ Applying(bundle, pruned, s, store) /\ Kept(bundle, pruned, before, s, store)
    BY DEF GoalInv, Achieving
  <2>2. IsStore(desired) /\ IsStore(before) /\ IsStore(store) /\ Valid(f) /\ Valid(before)
    BY <2>1 DEF IsGoal, IsBundle, Outcome, TypeInv
  <2>3. \A y : PutLeft(s, y) \/ PruneLeft(s, y) => WillRepair(c, y)
    BY DEF PutLeft, PruneLeft, WillRepair, Range
  <2> HIDE DEF s, bundle, pruned, before
  <2>4. /\ DOMAIN merged = (DOMAIN desired) \cup DOMAIN before
        /\ \A y \in DOMAIN merged : merged[y] = IF y \in DOMAIN desired THEN desired[y] ELSE before[y]
    BY DEF Over
  <2> HIDE DEF merged
  <2>5. /\ DOMAIN f = (DOMAIN desired) \cup {y \in DOMAIN before : kind[y] \notin pruned}
        /\ \A y \in DOMAIN f : f[y] = IF y \in DOMAIN desired THEN desired[y] ELSE before[y]
    BY <2>2, <2>4 DEF Only, IsStore
  <2> HIDE DEF f
  <2>6. /\ \A y \in DOMAIN f : f[y].complete /\ f[y].refs \subseteq DOMAIN f
        /\ \A y \in DOMAIN before : before[y].complete /\ before[y].refs \subseteq DOMAIN before
    BY <2>2 DEF Valid, issues
  <2>7. x \in DOMAIN store /\ (~store[x].complete \/ ~(store[x].refs \subseteq DOMAIN store))
    BY DEF issues
  <2>8. \A y \in DOMAIN f : y \in DOMAIN store \/ PutLeft(s, y)
    <3>1. \A y \in DOMAIN desired : y \in DOMAIN store \/ PutLeft(s, y)
      BY <2>1 DEF Applying, Underway
    <3>2. \A y \in DOMAIN before : y \in DOMAIN store \/ (y \notin DOMAIN desired /\ kind[y] \in pruned)
      BY <2>1 DEF Kept
    <3> QED
      BY <2>5, <3>1, <3>2
  <2>9. CASE /\ x \in DOMAIN desired /\ store[x] = desired[x]
             /\ \A k \in Range(s) : k.call = "put" => Rank(x) <= Rank(k.key)
    <3>1. store[x] = f[x] /\ x \in DOMAIN f
      BY <2>5, <2>9
    <3>2. PICK y \in store[x].refs : y \notin DOMAIN store
      BY <2>6, <2>7, <3>1
    <3>3. y \in DOMAIN f
      BY Zenon, <2>6, <3>1
    <3>4. PutLeft(s, y)
      BY Zenon, <2>8, <3>2, <3>3
    <3>5. Rank(x) <= Rank(y)
      BY Zenon, <2>9, <3>4 DEF PutLeft
    <3>6. Rank(y) < Rank(x)
      BY <2>2, <2>7, ReferencesAreEarlier
    <3>7. Rank(x) \in Nat /\ Rank(y) \in Nat
      BY DEF Rank
    <3> QED
      BY <3>5, <3>6, <3>7
  <2>10. CASE x \in DOMAIN before /\ store[x] = before[x]
    <3>1. PICK y \in before[x].refs : y \notin DOMAIN store
      BY <2>6, <2>7, <2>10
    <3>2. y \in DOMAIN before
      BY <2>6, <2>10
    <3>3. y \notin DOMAIN desired /\ kind[y] \in pruned
      BY <2>1, <3>1, <3>2 DEF Kept
    <3>4. y \notin DOMAIN f
      BY <2>5, <3>3
    <3>5. ~(x \in DOMAIN f /\ f[x] = before[x])
      BY <2>6, <3>4
    <3>6. CASE x \in DOMAIN desired
      <4>1. store[x] # desired[x]
        BY <2>5, <2>10, <3>5, <3>6
      <4>2. PutLeft(s, x)
        BY <2>1, <3>6, <4>1 DEF Applying, Underway
      <4> QED
        BY Zenon, <2>3, <3>3, <4>2 DEF pruned
    <3>7. CASE x \notin DOMAIN desired
      <4>1. kind[x] \in pruned
        BY <2>5, <2>10, <3>5, <3>7
      <4>2. PruneLeft(s, x)
        BY <2>1, <2>7, <3>7, <4>1 DEF Applying, Underway
      <4> QED
        BY <2>3, <3>3, <4>2 DEF pruned
    <3> QED
      BY <3>6, <3>7
  <2> QED
    BY <2>1, <2>7, <2>9, <2>10 DEF Kept
<1> QED
  BY <1>1, GoalsInvariant, PTL

-----------------------------------------------------------------------------
(* sync --watch *)

\* The loop of SyncBundleFile remembers a time that the file has reached, and the
\* file is the one that was read or a later one.
TimesOK ==
  /\ file.mtime \in Nat /\ file.edit \in Nat /\ lastMod \in Nat
  /\ spc = "stat" => ~polling
  /\ spc = "poll" => polling
PollInv ==
  /\ TimesOK
  /\ spc \in {"apply", "stat", "poll"} /\ polling /\ gap = "none" =>
       /\ file.mtime >= lastMod
       /\ loaded.edit = file.edit \/ file.mtime > lastMod

\* Every edit that moves the modification time forward after the first Stat is
\* found by a tick, read or unread, for any number of edits and any times: the
\* Stat of a tick comes before the read (SyncBundleFile).
THEOREM EditsAreFound == SyncSpec => []NoEditMissed
<1>1. SyncInit => PollInv
  <2> SUFFICES ASSUME SyncInit PROVE PollInv
    OBVIOUS
  <2>1. file.mtime = 1 /\ file.edit = 1 /\ spc = "load" /\ lastMod = 0
    BY DEF SyncInit
  <2> QED
    BY <2>1 DEF PollInv, TimesOK
<1>2. PollInv /\ [SyncNext]_allVars => PollInv'
  <2> SUFFICES ASSUME PollInv, [SyncNext]_allVars PROVE PollInv'
    OBVIOUS
  <2> USE DEF PollInv, TimesOK
  <2>1. CASE Load
    BY <2>1 DEF Load
  <2>2. CASE ApplyStep
    BY <2>2 DEF ApplyStep, syncVars
  <2>3. CASE Applied
    BY <2>3 DEF Applied
  <2>4. CASE ApplyFailed \/ Return
    BY <2>4 DEF ApplyFailed, Return
  <2>5. CASE FirstStat
    BY <2>5 DEF FirstStat
  <2>6. CASE Poll \/ Rerun
    BY <2>6 DEF Poll, Rerun
  <2>7. ASSUME NEW c \in Others, OtherClient(c) PROVE PollInv'
    BY <2>7 DEF OtherClient
  <2>8. ASSUME NEW content \in Contents, NEW mtime \in 1..MaxTime, Edit(content, mtime) PROVE PollInv'
    BY <2>8 DEF Edit
  <2>9. CASE UNCHANGED allVars
    BY <2>9 DEF allVars, syncVars
  <2> QED
    BY <2>1, <2>2, <2>3, <2>4, <2>5, <2>6, <2>7, <2>8, <2>9 DEF SyncNext, SyncStep
<1>3. PollInv => NoEditMissed
  BY DEF PollInv, TimesOK, NoEditMissed
<1> QED
  BY <1>1, <1>2, <1>3, PTL DEF SyncSpec

\* A complete import has left the bundle in the store, and nothing else of the
\* kinds that it prunes.
InStore(bundle, pruned, st) ==
  /\ \A x \in DOMAIN bundle.resources : x \in DOMAIN st /\ st[x] = bundle.resources[x]
  /\ \A x \in (DOMAIN st) \ DOMAIN bundle.resources : kind[x] \notin pruned

\* The import of what was read is under way or complete, as long as nobody else
\* writes.
FollowInv ==
  /\ TypeInv /\ file.content \in Contents
  /\ spc \in {"apply", "stat", "poll"} => loaded.content \in Files
  /\ ~disturbed =>
       /\ spc = "apply" /\ todo[Syncer] # <<>> =>
            Applying(loaded.content, PrunedBy(loaded.content), todo[Syncer], store)
       /\ spc \in {"stat", "poll"} => InStore(loaded.content, PrunedBy(loaded.content), store)

\* The types are kept when the calls of a client are replaced and nothing is
\* written.
LEMMA TypesReplaced ==
  ASSUME TypeInv, NEW c \in Clients, NEW calls, Queue(calls),
         todo' = [todo EXCEPT ![c] = calls],
         view' = [view EXCEPT ![c] = view'[c]], view'[c] \in {Empty, view[c]}, DOMAIN goal' = Clients,
         UNCHANGED <<store, history, nextID, saved>>
  PROVE  TypeInv'
<1>1. IsStore(view'[c])
  BY StoresMade DEF TypeInv, QueueType
<1>2. DOMAIN view' = Clients /\ \A d \in Clients \ {c} : view'[d] = view[d]
  BY DEF TypeInv, QueueType
<1>3. \A d \in Clients : IsStore(view'[d])
  BY <1>1, <1>2 DEF TypeInv, QueueType
<1>4. DOMAIN todo' = Clients /\ \A d \in Clients : Queue(todo'[d])
  BY DEF TypeInv, QueueType
<1> QED
  BY <1>2, <1>3, <1>4 DEF TypeInv, QueueType, HistoryType

\* What SyncBundleFile calls.
SyncCalls(bundle) == ApplyCalls(bundle, PrunedBy(bundle)) \o <<[call |-> "applied"]>>

\* LoadBundleFile begins an import.
LEMMA SyncStarts ==
  ASSUME NEW bundle \in Files
  PROVE  /\ Queue(SyncCalls(bundle)) /\ \A st : Applying(bundle, PrunedBy(bundle), SyncCalls(bundle), st)
<1> DEFINE k == [call |-> "applied"]
           pruned == PrunedBy(bundle)
<1>1. IsBundle(bundle) /\ pruned \in SUBSET Kinds
  <2>1. IsBundle(bundle)
    BY SyncAssumption
  <2> QED
    BY <2>1, PrunedKinds DEF PrunedBy
<1>2. CallOK(k) /\ ~Checking(k) /\ k.call = "applied"
  BY DEF CallOK, Checking
<1> HIDE DEF k, pruned
<1>3. Plain(<<k>>) /\ Sequenced(<<k>>) /\ Range(<<k>>) = {k} /\ EndsRight(<<k>>)
  BY <1>2, PlainOne, OneCall DEF EndsRight
<1>4. Plain(ApplyCalls(bundle, pruned) \o <<k>>)
  BY <1>1, <1>3, PlainApply, PlainJoin
<1>5. \A st : Applying(bundle, pruned, ApplyCalls(bundle, pruned) \o <<k>>, st)
  BY <1>1, <1>2, <1>3, ImportStarts DEF Applying
<1> QED
  BY <1>4, <1>5 DEF Queue, SyncCalls, k, pruned

\* A call of the import of SyncBundleFile.
LEMMA FollowApply ==
  ASSUME FollowInv, ApplyStep
  PROVE  FollowInv'
<1> DEFINE bundle == loaded.content
           pruned == PrunedBy(bundle)
<1>1. Syncer \in Clients /\ TypeInv /\ Act(Syncer) /\ spc = "apply" /\ UNCHANGED syncVars
  BY SyncAssumption DEF FollowInv, ApplyStep, Act
<1>2. TypeInv'
  BY <1>1, TypesKept
<1>3. UNCHANGED <<file, spc, loaded, disturbed>>
  BY <1>1 DEF syncVars
<1>4. ASSUME ~disturbed, todo'[Syncer] # <<>>
      PROVE  Applying(bundle, pruned, todo'[Syncer], store')
  <2>1. todo[Syncer] # <<>>
    BY DEF ApplyStep, CallFails, Step, StoreList, ValidateResource, StorePut, ReadBack, StoreDelete,
           PatchGet, PruneList, HistoryGet, StampEntry, HistoryPut, HistoryTrim, HistoryDelete, Calls
  <2>2. Applying(bundle, pruned, todo[Syncer], store)
    BY <1>1, <1>4, <2>1 DEF FollowInv
  <2> HIDE DEF bundle, pruned
  <2>3. CASE Step(Syncer)
    BY <1>1, <1>4, <2>2, <2>3, ImportStep
  <2>4. CASE CallFails(Syncer)
    <3>1. \A i \in DOMAIN todo[Syncer] : todo[Syncer][i].call # "validate"
      BY <2>2 DEF Applying, Importing, Range
    <3>2. DOMAIN todo = Clients
      BY <1>1 DEF TypeInv, QueueType
    <3>3. todo'[Syncer] = <<>>
      BY <1>1, <2>4, <3>1, <3>2 DEF CallFails
    <3> QED
      BY <1>4, <3>3
  <2> QED
    BY <2>3, <2>4 DEF ApplyStep
<1> QED
  BY <1>1, <1>2, <1>3, <1>4 DEF FollowInv, PrunedBy

\* Its last call.
LEMMA FollowApplied ==
  ASSUME FollowInv, Applied
  PROVE  FollowInv'
<1> DEFINE bundle == loaded.content
           pruned == PrunedBy(bundle)
           s == todo[Syncer]
<1>1. /\ Syncer \in Clients /\ TypeInv /\ spc = "apply" /\ Calls(Syncer, "applied") /\ Proceed(Syncer, <<>>)
      /\ spc' \in {"poll", "stat"}
      /\ UNCHANGED <<store, history, nextID, saved, file, loaded, disturbed>>
  BY SyncAssumption DEF FollowInv, Applied, storeVars, historyVars
<1>2. TypeInv'
  <2>1. Queue(<<>>)
    BY PlainOne DEF Queue
  <2>2. /\ todo' = [todo EXCEPT ![Syncer] = <<>>] /\ view' = [view EXCEPT ![Syncer] = Empty]
        /\ DOMAIN goal' = DOMAIN goal
    BY <1>1 DEF Proceed
  <2>3. DOMAIN view = Clients /\ DOMAIN goal = Clients
    BY <1>1 DEF TypeInv, QueueType
  <2>4. view'[Syncer] = Empty /\ DOMAIN goal' = Clients
    BY <1>1, <2>2, <2>3
  <2> QED
    BY <1>1, <2>1, <2>2, <2>4, TypesReplaced
<1>3. ASSUME ~disturbed PROVE InStore(bundle, pruned, store)
  <2>1. s # <<>> /\ Head(s).call = "applied" /\ Sequenced(s)
    BY <1>1 DEF Calls, TypeInv, QueueType, Queue, Plain, Good
  <2>2. Applying(bundle, pruned, s, store)
    BY <1>1, <1>3, <2>1 DEF FollowInv
  <2> HIDE DEF bundle, pruned, s
  <2>3. Range(s) = {Head(s)}
    BY <2>1, <2>2, ImportTail DEF Applying, Final
  <2>4. \A x : ~PutLeft(s, x) /\ ~PruneLeft(s, x)
    BY <2>1, <2>3 DEF PutLeft, PruneLeft
  <2> QED
    BY <2>2, <2>4 DEF Applying, Underway, InStore
<1> QED
  BY <1>1, <1>2, <1>3 DEF FollowInv, PrunedBy

\* LoadBundleFile.
LEMMA FollowLoad ==
  ASSUME FollowInv, Load
  PROVE  FollowInv'
<1>1. TypeInv /\ file.content \in Contents /\ Syncer \in Clients
  BY SyncAssumption DEF FollowInv
<1>2. CASE file.content = Malformed
  <2>1. spc' = "returned" /\ UNCHANGED vars /\ UNCHANGED file
    BY <1>2 DEF Load
  <2>2. TypeInv'
    BY <1>1, <2>1 DEF vars, TypeInv, QueueType, HistoryType
  <2> QED
    BY <1>1, <2>1, <2>2 DEF FollowInv
<1>3. CASE file.content # Malformed
  <2> DEFINE bundle == file.content
  <2>1. /\ bundle \in Files /\ spc' = "apply" /\ UNCHANGED file /\ loaded'.content = bundle
        /\ Begin(Syncer, SyncCalls(bundle), NoGoal)
    BY <1>1, <1>3 DEF Load, Contents, SyncCalls
  <2>2. /\ todo' = [todo EXCEPT ![Syncer] = SyncCalls(bundle)] /\ view' = [view EXCEPT ![Syncer] = Empty]
        /\ DOMAIN goal' = Clients /\ UNCHANGED <<store, history, nextID, saved>>
    BY <2>1 DEF Begin
  <2> HIDE DEF bundle
  <2>3. Queue(SyncCalls(bundle)) /\ Applying(bundle, PrunedBy(bundle), SyncCalls(bundle), store)
    BY <2>1, SyncStarts
  <2>4. DOMAIN view = Clients /\ DOMAIN todo = Clients
    BY <1>1 DEF TypeInv, QueueType
  <2>5. view'[Syncer] = Empty /\ todo'[Syncer] = SyncCalls(bundle)
    BY <1>1, <2>2, <2>4
  <2>6. TypeInv'
    BY <1>1, <2>2, <2>3, <2>5, TypesReplaced
  <2> QED
    BY <1>1, <2>1, <2>2, <2>3, <2>5, <2>6 DEF FollowInv, PrunedBy
<1> QED
  BY <1>2, <1>3

\* After a complete import, the store has the bundle that was read, and nothing
\* else of the kinds that are pruned, unless somebody else has written since the
\* read: whatever earlier imports, complete or given up, had left there.
THEOREM StoreFollows == SyncSpec => []StoreFollowsFile
<1>1. SyncInit => FollowInv
  <2> SUFFICES ASSUME SyncInit PROVE FollowInv
    OBVIOUS
  <2>1. TypeInv
    BY TypesAtStart DEF SyncInit
  <2>2. file.content \in Contents /\ spc = "load"
    BY DEF SyncInit, Contents
  <2> QED
    BY <2>1, <2>2 DEF FollowInv
<1>2. FollowInv /\ [SyncNext]_allVars => FollowInv'
  <2> SUFFICES ASSUME FollowInv, [SyncNext]_allVars PROVE FollowInv'
    OBVIOUS
  <2>1. ASSUME UNCHANGED vars PROVE TypeInv'
    BY <2>1 DEF vars, FollowInv, TypeInv, QueueType, HistoryType
  <2>2. CASE ApplyFailed \/ Return
    BY <2>1, <2>2 DEF ApplyFailed, Return, FollowInv
  <2>3. CASE FirstStat
    BY <2>1, <2>3 DEF FirstStat, FollowInv, vars, PrunedBy
  <2>4. CASE Poll \/ Rerun
    BY <2>1, <2>4 DEF Poll, Rerun, FollowInv
  <2>5. ASSUME NEW c \in Others, OtherClient(c) PROVE FollowInv'
    <3>1. /\ c \in Clients /\ c # Syncer /\ Syncer \in Clients /\ Act(c) /\ TypeInv
          /\ UNCHANGED <<file, spc, loaded>> /\ (disturbed' <=> (disturbed \/ store' # store))
      BY <2>5, SyncAssumption DEF OtherClient, Others, Act, FollowInv
    <3>2. TypeInv' /\ todo'[Syncer] = todo[Syncer]
      BY <3>1, TypesKept, OthersKeep
    <3> QED
      BY <3>1, <3>2 DEF FollowInv, PrunedBy
  <2>6. ASSUME NEW content \in Contents, NEW mtime \in 1..MaxTime, Edit(content, mtime) PROVE FollowInv'
    <3>1. file'.content \in Contents /\ UNCHANGED <<vars, spc, loaded, disturbed>>
      BY <2>6 DEF Edit
    <3> QED
      BY <2>1, <3>1 DEF FollowInv, vars, PrunedBy
  <2>7. CASE UNCHANGED allVars
    BY <2>1, <2>7 DEF allVars, syncVars, FollowInv, vars, PrunedBy
  <2> QED
    BY <2>2, <2>3, <2>4, <2>5, <2>6, <2>7, FollowApply, FollowApplied, FollowLoad DEF SyncNext, SyncStep
<1>3. FollowInv => StoreFollowsFile
  <2> SUFFICES ASSUME FollowInv, spc \in {"stat", "poll"}, ~disturbed
               PROVE  LET bundle == loaded.content
                      IN  /\ Only(store, DOMAIN bundle.resources) = bundle.resources
                          /\ \A x \in DOMAIN store \ DOMAIN bundle.resources : kind[x] \notin PrunedBy(bundle)
    BY DEF StoreFollowsFile
  <2> DEFINE bundle == loaded.content
  <2>1. bundle \in Files /\ InStore(bundle, PrunedBy(bundle), store) /\ IsStore(store)
    BY DEF FollowInv, TypeInv
  <2> HIDE DEF bundle
  <2>2. IsStore(bundle.resources)
    BY <2>1, SyncAssumption DEF IsBundle
  <2> DEFINE f == Only(store, DOMAIN bundle.resources)
  <2>3. IsStore(f)
    BY <2>1, StoresMade
  <2>4. DOMAIN f = DOMAIN bundle.resources /\ \A x \in DOMAIN f : f[x] = bundle.resources[x]
    BY <2>1 DEF Only, InStore
  <2>5. f = bundle.resources
    BY <2>2, <2>3, <2>4, SameStore
  <2> QED
    BY <2>1, <2>5 DEF InStore, bundle
<1> QED
  BY <1>1, <1>2, <1>3, PTL DEF SyncSpec

=============================================================================
