--------------------------- MODULE ControlPlaneProofs ---------------------------
(***************************************************************************)
(* Proofs about ControlPlane, for any number of clients, operations and    *)
(* failing calls, any finite set of resources and any bodies, patches and  *)
(* bundles: the types and the validated writes.                            *)
(*                                                                         *)
(* The calls that an operation still has to make are treated as a set      *)
(* wherever their order does not matter: the steps take the first call     *)
(* away, and put calls in front of the others or in place of all.          *)
(***************************************************************************)
EXTENDS ControlPlane, FiniteSetTheorems, TLAPS

-----------------------------------------------------------------------------
(* Sequences of calls *)

Sequenced(s) == s \in Seq(Range(s))

\* A function on 1..n is a sequence.
LEMMA FunctionSequenced ==
  ASSUME NEW n \in Nat, NEW f, f = [i \in 1..n |-> f[i]]
  PROVE  Sequenced(f) /\ Len(f) = n /\ DOMAIN f = 1..n
  BY DEF Sequenced, Range

\* A sequence is one of its own members.
LEMMA AlwaysSequenced ==
  ASSUME NEW S, NEW s \in Seq(S)
  PROVE  Sequenced(s)
<1>1. s \in [1..Len(s) -> S] /\ Len(s) \in Nat
  OBVIOUS
<1>2. s = [i \in 1..Len(s) |-> s[i]]
  BY <1>1
<1> QED
  BY <1>1, <1>2, FunctionSequenced

\* What is left when the first call is made.
LEMMA TailOf ==
  ASSUME NEW s, Sequenced(s), s # <<>>
  PROVE  /\ Sequenced(Tail(s))
         /\ Range(s) = {Head(s)} \cup Range(Tail(s))
         /\ Head(s) = s[1]
         /\ Len(s) \in Nat \ {0} /\ DOMAIN s = 1..Len(s)
         /\ Len(Tail(s)) = Len(s) - 1 /\ DOMAIN Tail(s) = 1..(Len(s) - 1)
         /\ \A i \in DOMAIN Tail(s) : Tail(s)[i] = s[i + 1]
<1>1. s \in Seq(Range(s)) /\ DOMAIN s = 1..Len(s) /\ Len(s) \in Nat \ {0} /\ Head(s) = s[1]
  BY DEF Sequenced
<1>2. /\ Tail(s) \in Seq(Range(s)) /\ Len(Tail(s)) = Len(s) - 1 /\ DOMAIN Tail(s) = 1..(Len(s) - 1)
      /\ \A i \in DOMAIN Tail(s) : Tail(s)[i] = s[i + 1]
  BY <1>1
<1>4. Sequenced(Tail(s))
  BY Zenon, <1>2, AlwaysSequenced
<1>5. Range(s) \subseteq {Head(s)} \cup Range(Tail(s))
  <2> SUFFICES ASSUME NEW i \in DOMAIN s, i # 1 PROVE s[i] \in Range(Tail(s))
    BY <1>1 DEF Range
  <2>1. i - 1 \in DOMAIN Tail(s) /\ Tail(s)[i - 1] = s[i]
    BY <1>1, <1>2
  <2> QED
    BY <2>1 DEF Range
<1>6. {Head(s)} \cup Range(Tail(s)) \subseteq Range(s)
  <2>1. Head(s) \in Range(s)
    BY <1>1 DEF Range
  <2>2. \A i \in DOMAIN Tail(s) : i + 1 \in DOMAIN s
    BY <1>1, <1>2
  <2> QED
    BY Zenon, <1>2, <2>1, <2>2 DEF Range
<1> QED
  BY <1>1, <1>2, <1>4, <1>5, <1>6

\* Calls in front of calls.
IsJoin(u, s, t) ==
  /\ Len(u) = Len(s) + Len(t) /\ DOMAIN u = 1..(Len(s) + Len(t))
  /\ \A i \in DOMAIN s : u[i] = s[i]
  /\ \A i \in DOMAIN t : u[Len(s) + i] = t[i]

\* Their set, and the place of each.
LEMMA Joined ==
  ASSUME NEW s, NEW t, Sequenced(s), Sequenced(t)
  PROVE  /\ Sequenced(s \o t)
         /\ Range(s \o t) = Range(s) \cup Range(t)
         /\ Len(s) \in Nat /\ Len(t) \in Nat /\ DOMAIN s = 1..Len(s) /\ DOMAIN t = 1..Len(t)
         /\ IsJoin(s \o t, s, t)
<1> DEFINE R == Range(s) \cup Range(t)
<1>1. s \in Seq(Range(s)) /\ t \in Seq(Range(t))
  BY DEF Sequenced
<1>2. s \in Seq(R) /\ t \in Seq(R)
  BY <1>1
<1>3. /\ Len(s) \in Nat /\ Len(t) \in Nat /\ DOMAIN s = 1..Len(s) /\ DOMAIN t = 1..Len(t)
      /\ s \o t \in Seq(R)
      /\ Len(s \o t) = Len(s) + Len(t) /\ DOMAIN (s \o t) = 1..(Len(s) + Len(t))
  BY <1>2
<1>4. \A i \in 1..(Len(s) + Len(t)) : (s \o t)[i] = IF i <= Len(s) THEN s[i] ELSE t[i - Len(s)]
  BY <1>2
<1> HIDE DEF R
<1>5. \A i \in DOMAIN s : i \in 1..(Len(s) + Len(t)) /\ (s \o t)[i] = s[i]
  BY <1>3, <1>4
<1>6. \A i \in DOMAIN t : Len(s) + i \in 1..(Len(s) + Len(t)) /\ (s \o t)[Len(s) + i] = t[i]
  BY <1>3, <1>4
<1>7. Range(s) \cup Range(t) \subseteq Range(s \o t)
  BY <1>3, <1>5, <1>6 DEF Range
<1>8. Range(s \o t) \subseteq Range(s) \cup Range(t)
  <2> SUFFICES ASSUME NEW i \in 1..(Len(s) + Len(t)) PROVE (s \o t)[i] \in Range(s) \cup Range(t)
    BY <1>3 DEF Range
  <2>1. CASE i <= Len(s)
    BY <1>3, <1>4, <2>1 DEF Range
  <2>2. CASE ~(i <= Len(s))
    <3>1. i - Len(s) \in DOMAIN t /\ (s \o t)[i] = t[i - Len(s)]
      BY <1>3, <1>4, <2>2
    <3> QED
      BY <3>1 DEF Range
  <2> QED
    BY <2>1, <2>2
<1>9. Sequenced(s \o t)
  BY Zenon, <1>3, AlwaysSequenced
<1> QED
  BY <1>3, <1>5, <1>6, <1>7, <1>8, <1>9 DEF IsJoin

\* No call, and one call.
LEMMA OneCall ==
  /\ Sequenced(<<>>) /\ Range(<<>>) = {}
  /\ \A a : Sequenced(<<a>>) /\ Range(<<a>>) = {a} /\ <<a>> # <<>> /\ Len(<<a>>) = 1 /\ <<a>>[1] = a
  BY DEF Sequenced, Range

\* Two calls.
LEMMA TwoCalls ==
  \A a, b : /\ Sequenced(<<a, b>>) /\ Range(<<a, b>>) = {a, b} /\ Len(<<a, b>>) = 2
            /\ DOMAIN <<a, b>> = 1..2 /\ <<a, b>>[1] = a /\ <<a, b>>[2] = b
  BY DEF Sequenced, Range

\* The sequence of a finite set has its members.
LEMMA SortedOf ==
  ASSUME NEW S, IsFiniteSet(S)
  PROVE  /\ Sequenced(Sorted(S)) /\ Range(Sorted(S)) = S
         /\ Cardinality(S) \in Nat /\ DOMAIN Sorted(S) = 1..Cardinality(S)
         /\ Sorted(S) = <<>> => S = {}
<1>1. Cardinality(S) \in Nat /\ ExistsBijection(1..Cardinality(S), S)
  BY FS_CardinalityType
<1>2. \E s \in [1..Cardinality(S) -> S] : Range(s) = S
  <2> PICK s \in Bijection(1..Cardinality(S), S) : TRUE
    BY <1>1 DEF ExistsBijection
  <2>1. s \in [1..Cardinality(S) -> S] /\ \A t \in S : \E i \in 1..Cardinality(S) : s[i] = t
    BY DEF Bijection, Surjection
  <2> QED
    BY <2>1 DEF Range
<1>3. Sorted(S) \in [1..Cardinality(S) -> S] /\ Range(Sorted(S)) = S
  BY <1>2 DEF Sorted
<1>4. Sorted(S) = [i \in 1..Cardinality(S) |-> Sorted(S)[i]] /\ DOMAIN Sorted(S) = 1..Cardinality(S)
  BY <1>3
<1>5. Sequenced(Sorted(S))
  BY <1>1, <1>4, FunctionSequenced
<1> QED
  BY <1>1, <1>3, <1>4, <1>5, OneCall

-----------------------------------------------------------------------------
(* The calls of an import *)

ReadBackCall(x) == [call |-> "readback", key |-> x]
PruneCall(bundle, k) == [kind |-> k, call |-> "prune", keep |-> OfKind(bundle.resources, k)]

\* The puts of a group of resources, and their reads.
LEMMA GroupRange ==
  ASSUME NEW resources, NEW group, IsFiniteSet(group)
  PROVE  /\ Sequenced(GroupPuts(resources, group))
         /\ Range(GroupPuts(resources, group)) =
              {Put(x, resources[x], FALSE) : x \in group} \cup {ReadBackCall(x) : x \in group}
<1> DEFINE n == Cardinality(group)
           s == Sorted(group)
           g == GroupPuts(resources, group)
           Element(i) == IF i % 2 = 1 THEN Put(s[(i + 1) \div 2], resources[s[(i + 1) \div 2]], FALSE)
                         ELSE ReadBackCall(s[(i + 1) \div 2])
<1>1. n \in Nat /\ DOMAIN s = 1..n /\ Range(s) = group
  BY SortedOf
<1>2. g = [i \in 1..2 * n |-> Element(i)]
  BY DEF GroupPuts, ReadBackCall
<1> HIDE DEF n, s, g
<1>3. DOMAIN g = 1..2 * n /\ g = [i \in 1..2 * n |-> g[i]] /\ \A i \in 1..2 * n : g[i] = Element(i)
  BY <1>2
<1>4. 2 * n \in Nat
  BY <1>1
<1>5. Sequenced(g)
  BY <1>3, <1>4, FunctionSequenced
<1>6. ASSUME NEW i \in 1..2 * n
      PROVE  (i + 1) \div 2 \in 1..n
  BY <1>1
<1>7. ASSUME NEW x \in group
      PROVE  Put(x, resources[x], FALSE) \in Range(g) /\ ReadBackCall(x) \in Range(g)
  <2> PICK j \in 1..n : s[j] = x
    BY <1>1 DEF Range
  <2>1. /\ 2 * j - 1 \in 1..2 * n /\ 2 * j \in 1..2 * n
        /\ (2 * j - 1) % 2 = 1 /\ (2 * j) % 2 # 1
        /\ (2 * j - 1 + 1) \div 2 = j /\ (2 * j + 1) \div 2 = j
    BY <1>1
  <2> DEFINE a == 2 * j - 1
             b == 2 * j
  <2>2. /\ a \in 1..2 * n /\ b \in 1..2 * n
        /\ a % 2 = 1 /\ b % 2 # 1 /\ (a + 1) \div 2 = j /\ (b + 1) \div 2 = j
    BY <2>1
  <2> HIDE DEF a, b
  <2>3. g[a] = Put(x, resources[x], FALSE) /\ g[b] = ReadBackCall(x)
    BY <1>3, <2>2
  <2> QED
    BY <1>3, <2>2, <2>3 DEF Range
<1>8. ASSUME NEW i \in 1..2 * n
      PROVE  \E x \in group : g[i] = Put(x, resources[x], FALSE) \/ g[i] = ReadBackCall(x)
  <2>1. s[(i + 1) \div 2] \in group
    BY <1>1, <1>6 DEF Range
  <2>2. g[i] = Element(i)
    BY <1>3
  <2> QED
    BY <2>1, <2>2
<1>9. \A k \in Range(g) : \E x \in group : k = Put(x, resources[x], FALSE) \/ k = ReadBackCall(x)
  BY <1>3, <1>8 DEF Range
<1>10. Range(g) = {Put(x, resources[x], FALSE) : x \in group} \cup {ReadBackCall(x) : x \in group}
  BY Zenon, <1>7, <1>9
<1> QED
  BY <1>5, <1>10 DEF g

\* The calls for a kind.
LEMMA KindRange ==
  ASSUME NEW bundle, IsStore(bundle.resources), NEW pruned, NEW k
  PROVE  LET group == OfKind(bundle.resources, k)
         IN  /\ Sequenced(KindCalls(bundle, pruned, k))
             /\ Range(KindCalls(bundle, pruned, k)) =
                  {Put(x, bundle.resources[x], FALSE) : x \in group}
                    \cup {ReadBackCall(x) : x \in group}
                    \cup {PruneCall(bundle, l) : l \in pruned \cap {k}}
<1> DEFINE group == OfKind(bundle.resources, k)
           prunes == IF k \in pruned THEN <<PruneCall(bundle, k)>> ELSE <<>>
           puts == GroupPuts(bundle.resources, group)
<1>1. IsFiniteSet(group)
  <2>1. group \in SUBSET Resources
    BY DEF OfKind, IsStore
  <2> QED
    BY <2>1, FS_Subset, ControlPlaneAssumption
<1>2. Sequenced(puts) /\ Range(puts) = {Put(x, bundle.resources[x], FALSE) : x \in group}
                                         \cup {ReadBackCall(x) : x \in group}
  <2>1. ASSUME NEW g, IsFiniteSet(g)
        PROVE  /\ Sequenced(GroupPuts(bundle.resources, g))
               /\ Range(GroupPuts(bundle.resources, g)) = {Put(x, bundle.resources[x], FALSE) : x \in g}
                                                           \cup {ReadBackCall(x) : x \in g}
    BY Zenon, <2>1, GroupRange
  <2> QED
    BY Zenon, <1>1, <2>1
<1>3. Sequenced(prunes) /\ Range(prunes) = {PruneCall(bundle, l) : l \in pruned \cap {k}}
  <2>1. CASE k \in pruned
    BY <2>1, OneCall
  <2>2. CASE k \notin pruned
    BY <2>2, OneCall
  <2> QED
    BY <2>1, <2>2
<1>4. KindCalls(bundle, pruned, k) = puts \o prunes
  BY DEF KindCalls, PruneCall
<1> HIDE DEF puts, prunes
<1>5. Sequenced(puts \o prunes) /\ Range(puts \o prunes) = Range(puts) \cup Range(prunes)
  BY <1>2, <1>3, Joined
<1> QED
  BY <1>2, <1>3, <1>4, <1>5

\* The kinds.
LEMMA TheKinds ==
  /\ Kinds = {"routes", "services", "upstreams"}
  /\ applyOrder[1] = "upstreams" /\ applyOrder[2] = "services" /\ applyOrder[3] = "routes"
  BY DEF Kinds, supportedKinds, Range, applyOrder

\* The calls of ApplyBundleWithOptions: a put and a read for every resource of
\* the bundle, and a prune for every kind that is pruned.
LEMMA ApplyRange ==
  ASSUME NEW bundle, IsBundle(bundle), NEW pruned \in SUBSET Kinds
  PROVE  LET all == DOMAIN bundle.resources
         IN  /\ Sequenced(ApplyCalls(bundle, pruned))
             /\ Range(ApplyCalls(bundle, pruned)) =
                  {Put(x, bundle.resources[x], FALSE) : x \in all}
                    \cup {ReadBackCall(x) : x \in all}
                    \cup {PruneCall(bundle, k) : k \in pruned}
<1> DEFINE K(k) == KindCalls(bundle, pruned, k)
           group(k) == OfKind(bundle.resources, k)
           R(k) == {Put(x, bundle.resources[x], FALSE) : x \in group(k)}
                     \cup {ReadBackCall(x) : x \in group(k)}
                     \cup {PruneCall(bundle, l) : l \in pruned \cap {k}}
<1>1. \A k : Sequenced(K(k)) /\ Range(K(k)) = R(k)
  BY KindRange DEF IsBundle
<1>2. ApplyCalls(bundle, pruned) = K("upstreams") \o K("services") \o K("routes")
  BY TheKinds DEF ApplyCalls
<1>3. DOMAIN bundle.resources = group("upstreams") \cup group("services") \cup group("routes")
  BY TheKinds, ControlPlaneAssumption DEF OfKind, IsBundle, IsStore
<1> HIDE DEF K, group
<1> DEFINE two == K("upstreams") \o K("services")
<1>4. Sequenced(two) /\ Range(two) = Range(K("upstreams")) \cup Range(K("services"))
  BY <1>1, Joined
<1> HIDE DEF two
<1>5. Sequenced(two \o K("routes")) /\ Range(two \o K("routes")) = Range(two) \cup Range(K("routes"))
  BY <1>1, <1>4, Joined
<1>6. pruned = (pruned \cap {"upstreams"}) \cup (pruned \cap {"services"}) \cup (pruned \cap {"routes"})
  BY TheKinds
<1>7. R("upstreams") \cup R("services") \cup R("routes") =
        {Put(x, bundle.resources[x], FALSE) : x \in DOMAIN bundle.resources}
          \cup {ReadBackCall(x) : x \in DOMAIN bundle.resources}
          \cup {PruneCall(bundle, k) : k \in pruned}
  BY <1>3, <1>6
<1> QED
  BY <1>1, <1>2, <1>4, <1>5, <1>7 DEF two

-----------------------------------------------------------------------------
(* Types *)

\* A call and its arguments.
CallOK(k) ==
  /\ k.call = "list" => k.kind \in Kinds
  /\ k.call = "validate" => k.key \in Resources /\ k.body \in BodyOf(k.key)
  /\ k.call = "put" => /\ k.key \in Resources /\ k.body \in BodyOf(k.key)
                       /\ k.checked \in BOOLEAN /\ k = Put(k.key, k.body, k.checked)
  /\ k.call \in {"readback", "delete"} => k.key \in Resources
  /\ k.call = "get" => k.key \in Resources /\ k.patch \in Patches[k.key]
  /\ k.call = "prune" => k.kind \in Kinds
  /\ k.call = "save" => k.entry.id \in Nat /\ IsBundle(k.entry.bundle)
  /\ k.call = "trim" => k.id \in Nat
  /\ k.call = "drop" => k.id \in Nat /\ k.save \in Nat

Good(s) == Sequenced(s) /\ \A k \in Range(s) : CallOK(k)

\* A validation, and a put whose validation succeeded or is still to come.
Checking(k) == k.call = "validate" \/ (k.call = "put" /\ k.checked)
Plain(s) == Good(s) /\ \A k \in Range(s) : ~Checking(k)

\* The calls of a PUT or POST: Lists, then the validation, then the put.
Validated(s) ==
  LET n == Len(s)
  IN  /\ n >= 1 /\ s[n].call = "put" /\ s[n].checked
      /\ n > 1 => s[n - 1] = [call |-> "validate", key |-> s[n].key, body |-> s[n].body]
      /\ \A i \in 1..(n - 2) : s[i].call = "list"
Queue(s) == Plain(s) \/ (Good(s) /\ Validated(s))

QueueType ==
  /\ DOMAIN todo = Clients /\ \A c \in Clients : Queue(todo[c])
  /\ DOMAIN view = Clients /\ \A c \in Clients : IsStore(view[c])
  /\ DOMAIN goal = Clients
HistoryType ==
  /\ IsFiniteSet(history) /\ \A e \in history : e.id \in Nat /\ IsBundle(e.bundle)
  /\ nextID \in Nat /\ saved \in Seq(Nat)
TypeInv == IsStore(store) /\ QueueType /\ HistoryType

\* Well-formed calls in front of others.
LEMMA PlainJoin ==
  ASSUME NEW s, NEW t, Plain(s), Plain(t)
  PROVE  Plain(s \o t)
<1>1. Sequenced(s \o t) /\ Range(s \o t) = Range(s) \cup Range(t)
  BY Joined DEF Plain, Good
<1> QED
  BY <1>1 DEF Plain, Good

\* What is left when a call is made.
LEMMA QueueTail ==
  ASSUME NEW s, Queue(s), s # <<>>
  PROVE  /\ Queue(Tail(s)) /\ CallOK(Head(s)) /\ Head(s) \in Range(s)
         /\ Head(s).call \notin {"list", "validate", "put"} => Plain(s)
         /\ Plain(s) => Plain(Tail(s))
<1>1. /\ Sequenced(Tail(s)) /\ Range(s) = {Head(s)} \cup Range(Tail(s)) /\ Head(s) = s[1]
      /\ Len(s) \in Nat \ {0} /\ DOMAIN s = 1..Len(s)
      /\ Len(Tail(s)) = Len(s) - 1 /\ DOMAIN Tail(s) = 1..(Len(s) - 1)
      /\ \A i \in DOMAIN Tail(s) : Tail(s)[i] = s[i + 1]
  BY TailOf DEF Queue, Plain, Good
<1>2. CallOK(Head(s)) /\ Good(Tail(s)) /\ Head(s) \in Range(s)
  BY <1>1 DEF Queue, Plain, Good
<1>3. Plain(s) => Plain(Tail(s))
  BY <1>1, <1>2 DEF Plain
<1>4. ASSUME Validated(s)
      PROVE  Head(s).call \in {"list", "validate", "put"} /\ Queue(Tail(s))
  <2> DEFINE n == Len(s)
             t == Tail(s)
  <2>1. /\ s[n].call = "put" /\ s[n].checked
        /\ n > 1 => s[n - 1] = [call |-> "validate", key |-> s[n].key, body |-> s[n].body]
        /\ \A i \in 1..(n - 2) : s[i].call = "list"
    BY <1>4 DEF Validated
  <2>2. CASE n = 1
    <3>1. Range(t) = {}
      BY <1>1, <2>2 DEF Range
    <3> QED
      BY <1>1, <1>2, <2>1, <2>2, <3>1 DEF Queue, Plain
  <2>3. CASE n # 1
    <3> DEFINE m == Len(t)
    <3>1. m = n - 1 /\ m \in Nat /\ m >= 1 /\ n > 1 /\ DOMAIN t = 1..m
      BY <1>1, <2>3
    <3> HIDE DEF n, m, t
    <3>2. /\ t[m] = s[n]
          /\ m > 1 => t[m - 1] = s[n - 1]
          /\ \A i \in 1..(m - 2) : t[i] = s[i + 1] /\ i + 1 \in 1..(n - 2)
      BY <1>1, <3>1 DEF n, t
    <3>3. Validated(t)
      <4>1. /\ t[m].call = "put" /\ t[m].checked
            /\ m > 1 => t[m - 1] = [call |-> "validate", key |-> t[m].key, body |-> t[m].body]
            /\ \A i \in 1..(m - 2) : t[i].call = "list"
        BY <2>1, <3>1, <3>2
      <4> QED
        BY <3>1, <4>1 DEF Validated, m
    <3>4. Head(s).call \in {"list", "validate"}
      <4>1. CASE n = 2
        BY <1>1, <2>1, <4>1 DEF n
      <4>2. CASE n # 2
        BY <1>1, <2>1, <2>3, <4>2 DEF n
      <4> QED
        BY <4>1, <4>2
    <3> QED
      BY <1>2, <3>3, <3>4 DEF Queue, t
  <2> QED
    BY <2>2, <2>3
<1> QED
  BY <1>2, <1>3, <1>4 DEF Queue

\* No call, and a well-formed one.
LEMMA PlainOne ==
  /\ Plain(<<>>)
  /\ \A k : CallOK(k) /\ ~Checking(k) => Plain(<<k>>)
  BY OneCall DEF Plain, Good

\* The Lists of an export and of a validation.
LEMMA PlainLists ==
  /\ Plain(ListCalls(supportedKinds))
  /\ DOMAIN ListCalls(supportedKinds) = 1..3 /\ Len(ListCalls(supportedKinds)) = 3
  /\ \A i \in 1..3 : ListCalls(supportedKinds)[i].call = "list"
<1> DEFINE s == ListCalls(supportedKinds)
<1>1. /\ s = [i \in 1..3 |-> s[i]]
      /\ \A i \in 1..3 : s[i] = [kind |-> supportedKinds[i], call |-> "list"]
  BY DEF ListCalls, supportedKinds
<1>2. Sequenced(s) /\ DOMAIN s = 1..3 /\ Len(s) = 3
  BY <1>1, FunctionSequenced
<1>3. \A i \in 1..3 : supportedKinds[i] \in Kinds
  BY DEF Kinds, supportedKinds, Range
<1> HIDE DEF s
<1>4. \A i \in 1..3 : CallOK(s[i]) /\ ~Checking(s[i]) /\ s[i].call = "list"
  BY <1>1, <1>3 DEF CallOK, Checking
<1> QED
  BY <1>2, <1>4 DEF Plain, Good, Range, s

\* The calls of saveHistorySnapshot.
LEMMA SaveLists ==
  Sequenced(SaveCalls) /\ \A k \in Range(SaveCalls) : k.call \in {"list", "stamp"}
<1> DEFINE l == ListCalls(supportedKinds)
           t == <<[call |-> "stamp"]>>
<1>1. Sequenced(l) /\ \A k \in Range(l) : k.call = "list"
  <2>1. Plain(l) /\ DOMAIN l = 1..3 /\ \A i \in 1..3 : l[i].call = "list"
    BY PlainLists
  <2> HIDE DEF l
  <2> QED
    BY <2>1 DEF Plain, Good, Range
<1>2. Sequenced(t) /\ Range(t) = {[call |-> "stamp"]}
  BY OneCall
<1>3. SaveCalls = l \o t
  BY DEF SaveCalls
<1> HIDE DEF l, t
<1>4. Sequenced(l \o t) /\ Range(l \o t) = Range(l) \cup Range(t)
  BY <1>1, <1>2, Joined
<1> QED
  BY <1>1, <1>2, <1>3, <1>4

\* The calls of saveHistorySnapshot.
LEMMA PlainSave == Plain(SaveCalls)
<1>1. CallOK([call |-> "stamp"]) /\ ~Checking([call |-> "stamp"])
  BY DEF CallOK, Checking
<1> QED
  BY <1>1, PlainOne, PlainLists, PlainJoin DEF SaveCalls

\* The calls of ApplyBundleWithOptions.
LEMMA PlainApply ==
  ASSUME NEW bundle, IsBundle(bundle), NEW pruned \in SUBSET Kinds
  PROVE  Plain(ApplyCalls(bundle, pruned))
<1>1. \A x \in DOMAIN bundle.resources : x \in Resources /\ bundle.resources[x] \in BodyOf(x)
  BY DEF IsBundle, IsStore
<1>2. ASSUME NEW x \in DOMAIN bundle.resources
      PROVE  /\ CallOK(Put(x, bundle.resources[x], FALSE)) /\ ~Checking(Put(x, bundle.resources[x], FALSE))
             /\ CallOK(ReadBackCall(x)) /\ ~Checking(ReadBackCall(x))
  BY <1>1 DEF CallOK, Put, ReadBackCall, Checking
<1>3. \A k \in pruned : CallOK(PruneCall(bundle, k)) /\ ~Checking(PruneCall(bundle, k))
  BY DEF CallOK, PruneCall, Checking
<1> DEFINE all == DOMAIN bundle.resources
<1>4. /\ Sequenced(ApplyCalls(bundle, pruned))
      /\ Range(ApplyCalls(bundle, pruned)) =
           {Put(x, bundle.resources[x], FALSE) : x \in all}
             \cup {ReadBackCall(x) : x \in all} \cup {PruneCall(bundle, k) : k \in pruned}
  BY ApplyRange
<1> QED
  BY <1>2, <1>3, <1>4 DEF Plain, Good

\* The calls of a PUT.
LEMMA QueuePut ==
  ASSUME NEW x \in Resources, NEW b \in BodyOf(x)
  PROVE  Good(PutCalls(x, b)) /\ Validated(PutCalls(x, b)) /\ Queue(PutCalls(x, b))
<1> DEFINE l == ListCalls(supportedKinds)
           v == [call |-> "validate", key |-> x, body |-> b]
           p == Put(x, b, TRUE)
<1>1. CallOK(v)
  BY DEF CallOK
<1>2. CallOK(p) /\ p.call = "put" /\ p.checked = TRUE /\ p.key = x /\ p.body = b
  BY DEF CallOK, Put
<1>3. v = [call |-> "validate", key |-> p.key, body |-> p.body]
  BY <1>2
<1> HIDE DEF l, v, p
<1> DEFINE q == <<v, p>>
           s == l \o q
<1>4. /\ Sequenced(q) /\ Range(q) = {v, p} /\ Len(q) = 2
      /\ DOMAIN q = 1..2 /\ q[1] = v /\ q[2] = p
  BY TwoCalls
<1>5. Plain(l) /\ DOMAIN l = 1..3 /\ Len(l) = 3 /\ \A i \in 1..3 : l[i].call = "list"
  BY PlainLists DEF l
<1> HIDE DEF q
<1>6. Sequenced(s) /\ Range(s) = Range(l) \cup Range(q) /\ IsJoin(s, l, q)
  <2>1. Sequenced(l)
    BY <1>5 DEF Plain, Good
  <2> QED
    BY <1>4, <2>1, Joined
<1> HIDE DEF s
<1>7. Len(s) = 5 /\ (\A i \in 1..3 : s[i] = l[i]) /\ s[4] = v /\ s[5] = p
  BY <1>4, <1>5, <1>6 DEF IsJoin
<1>8. Good(s)
  BY <1>1, <1>2, <1>4, <1>5, <1>6 DEF Plain, Good
<1>9. Validated(s)
  BY <1>2, <1>3, <1>5, <1>7 DEF Validated
<1>10. s = PutCalls(x, b)
  BY DEF PutCalls, s, q, l, v, p
<1> QED
  BY <1>8, <1>9, <1>10 DEF Queue

\* Only supported kinds are pruned.
LEMMA PrunedKinds ==
  ASSUME NEW bundle, IsBundle(bundle), NEW prune, NEW pruneKinds \in SUBSET Kinds
  PROVE  resolvePruneKinds(bundle, prune, pruneKinds) \in SUBSET Kinds
<1>1. \A x \in DOMAIN bundle.resources : kind[x] \in Kinds
  BY ControlPlaneAssumption DEF IsBundle, IsStore
<1> QED
  BY <1>1 DEF resolvePruneKinds, resourceKinds, included, normalizeResourceKindSelection, IsBundle

\* The stores that the calls make.
LEMMA StoresMade ==
  /\ IsStore(Empty)
  /\ \A f, x, b : IsStore(f) /\ x \in Resources /\ b \in BodyOf(x) => IsStore(With(f, x, b))
  /\ \A f, S : IsStore(f) => IsStore(Only(f, S))
  /\ \A f, g : IsStore(f) /\ IsStore(g) => IsStore(Over(f, g))
<1>1. IsStore(Empty)
  BY DEF IsStore, Empty
<1>2. ASSUME NEW f, NEW x \in Resources, NEW b \in BodyOf(x), IsStore(f)
      PROVE  IsStore(With(f, x, b))
  BY <1>2 DEF IsStore, With
<1>3. ASSUME NEW f, NEW S, IsStore(f)
      PROVE  IsStore(Only(f, S))
  BY <1>3 DEF IsStore, Only
<1>4. ASSUME NEW f, NEW g, IsStore(f), IsStore(g)
      PROVE  IsStore(Over(f, g))
  BY <1>4 DEF IsStore, Over
<1> QED
  BY <1>1, <1>2, <1>3, <1>4

\* The put that is left when validation has no verdict.
LEMMA UncheckedPut ==
  ASSUME NEW s, Good(s), Validated(s)
  PROVE  Plain(Unchecked(s))
<1> DEFINE p == s[Len(s)]
<1>1. p \in Range(s) /\ p.call = "put" /\ Len(s) >= 1
  BY DEF Validated, Good, Sequenced, Range
<1>2. p.key \in Resources /\ p.body \in BodyOf(p.key) /\ p = Put(p.key, p.body, p.checked)
  BY <1>1 DEF Good, CallOK
<1>3. CallOK(Put(p.key, p.body, FALSE)) /\ ~Checking(Put(p.key, p.body, FALSE))
  BY <1>2 DEF CallOK, Checking, Put
<1> QED
  BY <1>3, PlainOne DEF Unchecked

\* The Deletes of a prune.
LEMMA DeletesOf ==
  ASSUME NEW extra, IsFiniteSet(extra)
  PROVE  LET deletes == [i \in DOMAIN Sorted(extra) |-> Delete(Sorted(extra)[i])]
         IN  Sequenced(deletes) /\ Range(deletes) = {Delete(x) : x \in extra}
<1> DEFINE s == Sorted(extra)
           n == Cardinality(extra)
           deletes == [i \in DOMAIN s |-> Delete(s[i])]
<1>1. n \in Nat /\ DOMAIN s = 1..n /\ Range(s) = extra
  BY SortedOf
<1> HIDE DEF s, n
<1>2. /\ deletes = [i \in 1..n |-> deletes[i]] /\ DOMAIN deletes = 1..n
      /\ \A i \in 1..n : deletes[i] = Delete(s[i])
  BY <1>1
<1> HIDE DEF deletes
<1>3. Sequenced(deletes)
  BY <1>1, <1>2, FunctionSequenced
<1>4. Range(deletes) = {Delete(x) : x \in extra}
  BY <1>1, <1>2 DEF Range
<1> QED
  BY <1>3, <1>4 DEF deletes, s

\* The Deletes of a trim.
LEMMA DropsOf ==
  ASSUME NEW ids, IsFiniteSet(ids), NEW save
  PROVE  LET drops == [i \in DOMAIN Sorted(ids) |-> [call |-> "drop", id |-> Sorted(ids)[i], save |-> save]]
         IN  Sequenced(drops) /\ Range(drops) = {[call |-> "drop", id |-> x, save |-> save] : x \in ids}
<1> DEFINE s == Sorted(ids)
           n == Cardinality(ids)
           Drop(x) == [call |-> "drop", id |-> x, save |-> save]
           drops == [i \in DOMAIN s |-> Drop(s[i])]
<1>1. n \in Nat /\ DOMAIN s = 1..n /\ Range(s) = ids
  BY SortedOf
<1> HIDE DEF s, n, Drop
<1>2. /\ drops = [i \in 1..n |-> drops[i]] /\ DOMAIN drops = 1..n
      /\ \A i \in 1..n : drops[i] = Drop(s[i])
  BY <1>1
<1> HIDE DEF drops
<1>3. Sequenced(drops)
  BY <1>1, <1>2, FunctionSequenced
<1>4. Range(drops) = {Drop(x) : x \in ids}
  BY <1>1, <1>2 DEF Range
<1> QED
  BY <1>3, <1>4 DEF drops, s, Drop

\* The entries that a trim drops.
LEMMA DroppedIDs ==
  ASSUME HistoryType
  PROVE  IsFiniteSet(IDs(BeyondLimit(history))) /\ IDs(BeyondLimit(history)) \in SUBSET Nat
<1> DEFINE entries == BeyondLimit(history)
           ids == IDs(entries)
<1>1. entries \in SUBSET history
  BY DEF BeyondLimit
<1>2. IsFiniteSet(entries)
  BY <1>1, FS_Subset DEF HistoryType
<1>3. ids = {e.id : e \in entries}
  BY DEF IDs
<1> HIDE DEF entries, ids
<1>4. [e \in entries |-> e.id] \in Surjection(entries, ids)
  BY <1>3 DEF Surjection
<1>5. IsFiniteSet(ids)
  BY <1>2, <1>4, FS_Surjection
<1>6. ids \in SUBSET Nat
  BY <1>1, <1>3 DEF HistoryType
<1> QED
  BY <1>5, <1>6 DEF entries, ids

\* What a client does.
Act(c) == StartSomething(c) \/ Step(c) \/ CallFails(c)

\* The calls that a client has after a step: those of an operation without a
\* validation, those of a PUT, or those that were left.
NewCalls(c) ==
  \/ Plain(todo'[c])
  \/ StartSomething(c) /\ \E x \in Resources : \E b \in Bodies[x] : todo'[c] = PutCalls(x, b)
  \/ Calls(c, "list") /\ StoreList(c) /\ todo'[c] = Tail(todo[c])
  \/ Calls(c, "put") /\ StorePut(c) /\ todo'[c] = Tail(todo[c])
  \/ Calls(c, "validate") /\ ValidateResource(c) /\ todo'[c] = Tail(todo[c])

\* An operation starts with its calls.
LEMMA StartMoves ==
  ASSUME TypeInv, NEW c \in Clients, StartSomething(c)
  PROVE  NewCalls(c)
<1>1. ASSUME NEW calls, NEW g, Start(c, calls, g)
      PROVE  todo'[c] = calls
  BY <1>1 DEF Start, Begin, TypeInv, QueueType
<1>2. ASSUME NEW x \in Resources, NEW b \in Bodies[x], handlePut(c, x, b)
      PROVE  NewCalls(c)
  BY <1>1, <1>2 DEF handlePut, NewCalls
<1>3. ASSUME NEW x \in Resources, NEW p \in Patches[x], handlePatch(c, x, p)
      PROVE  NewCalls(c)
  <2> DEFINE k == [call |-> "get", key |-> x, patch |-> p]
  <2>1. CallOK(k) /\ ~Checking(k)
    BY DEF CallOK, Checking
  <2>2. todo'[c] = <<k>>
    BY <1>1, <1>3 DEF handlePatch
  <2> QED
    BY <2>1, <2>2, PlainOne DEF NewCalls
<1>4. ASSUME NEW x \in Resources, handleDelete(c, x)
      PROVE  NewCalls(c)
  <2>1. CallOK(Delete(x)) /\ ~Checking(Delete(x))
    BY DEF CallOK, Checking, Delete
  <2>2. todo'[c] = <<Delete(x)>>
    BY <1>1, <1>4 DEF handleDelete
  <2> QED
    BY <2>1, <2>2, PlainOne DEF NewCalls
<1>5. ASSUME NEW bundle \in Bundles, NEW prune, NEW pruneKinds \in {{}, {"routes"}},
             \/ handleImportApply(c, bundle, prune, pruneKinds)
             \/ adminImport(c, bundle, prune, pruneKinds)
      PROVE  NewCalls(c)
  <2> DEFINE pruned == resolvePruneKinds(bundle, prune, pruneKinds)
  <2>1. IsBundle(bundle) /\ pruneKinds \in SUBSET Kinds
    BY TheKinds, ControlPlaneAssumption
  <2>2. Plain(ApplyCalls(bundle, pruned))
    BY <2>1, PrunedKinds, PlainApply
  <2>3. Plain(ApplyCalls(bundle, pruned) \o SaveCalls)
    BY <2>2, PlainSave, PlainJoin
  <2>4. todo'[c] = ApplyCalls(bundle, pruned) \/ todo'[c] = ApplyCalls(bundle, pruned) \o SaveCalls
    BY <1>1, <1>5 DEF handleImportApply, adminImport
  <2> QED
    BY <2>2, <2>3, <2>4 DEF NewCalls
<1>6. ASSUME NEW e \in history, handleHistoryRollback(c, e.id)
      PROVE  NewCalls(c)
  <2> DEFINE k == [call |-> "rollback", id |-> e.id]
  <2>1. CallOK(k) /\ ~Checking(k)
    BY DEF CallOK, Checking
  <2>2. todo'[c] = <<k>>
    BY <1>1, <1>6 DEF handleHistoryRollback
  <2> QED
    BY <2>1, <2>2, PlainOne DEF NewCalls
<1> QED
  BY <1>2, <1>3, <1>4, <1>5, <1>6 DEF StartSomething

\* A call leaves the calls that were behind it, or calls without a validation.
LEMMA StepMoves ==
  ASSUME TypeInv, NEW c \in Clients, Step(c)
  PROVE  NewCalls(c)
<1> DEFINE call == Head(todo[c])
           tail == Tail(todo[c])
<1>1. IsStore(store) /\ HistoryType /\ Queue(todo[c]) /\ DOMAIN todo = Clients /\ IsStore(view[c])
  BY DEF TypeInv, QueueType
<1>2. ASSUME NEW name, Calls(c, name)
      PROVE  /\ todo[c] # <<>> /\ call.call = name /\ CallOK(call)
             /\ name \notin {"list", "validate", "put"} => Plain(tail)
  BY <1>1, <1>2, QueueTail DEF Calls
<1>3. ASSUME NEW rest, Proceed(c, rest)
      PROVE  todo'[c] = rest
  BY <1>1, <1>3 DEF Proceed
<1>4. Plain(<<>>)
  BY PlainOne
<1> HIDE DEF call, tail
<1>5. CASE StoreList(c)
  BY <1>1, <1>5 DEF StoreList, NewCalls
<1>6. CASE ValidateResource(c)
  <2>1. Calls(c, "validate")
    BY <1>6 DEF ValidateResource
  <2>2. Proceed(c, Unchecked(todo[c])) \/ Proceed(c, tail) \/ Proceed(c, <<>>)
    BY <1>6 DEF ValidateResource, tail
  <2>3. Good(todo[c]) /\ Validated(todo[c])
    <3>1. call \in Range(todo[c]) /\ Checking(call)
      BY <1>1, <1>2, <2>1, QueueTail DEF Checking, call
    <3> QED
      BY <1>1, <3>1 DEF Queue, Plain
  <2>4. Plain(Unchecked(todo[c]))
    BY <2>3, UncheckedPut
  <2>5. todo'[c] = Unchecked(todo[c]) \/ todo'[c] = tail \/ todo'[c] = <<>>
    BY <1>3, <2>2
  <2> QED
    BY <1>4, <1>6, <2>1, <2>4, <2>5 DEF NewCalls, tail
<1>7. CASE StorePut(c)
  BY <1>3, <1>7 DEF StorePut, NewCalls
<1>8. CASE ReadBack(c)
  <2>1. Calls(c, "readback") /\ (Proceed(c, tail) \/ Proceed(c, <<>>))
    BY <1>8 DEF ReadBack, tail
  <2>2. todo'[c] = tail \/ todo'[c] = <<>>
    BY <1>3, <2>1
  <2> QED
    BY <1>2, <1>4, <2>1, <2>2 DEF NewCalls
<1>9. CASE StoreDelete(c)
  <2>1. Calls(c, "delete") /\ Proceed(c, tail)
    BY <1>9 DEF StoreDelete, tail
  <2> QED
    BY <1>2, <1>3, <2>1 DEF NewCalls
<1>10. CASE PatchGet(c)
  <2> DEFINE b == Over(call.patch, store[call.key])
             p == Put(call.key, b, FALSE)
  <2>1. Calls(c, "get") /\ Proceed(c, IF call.key \in DOMAIN store THEN <<p>> ELSE <<>>)
    BY <1>10 DEF PatchGet, call
  <2>2. todo'[c] = IF call.key \in DOMAIN store THEN <<p>> ELSE <<>>
    BY <1>3, <2>1
  <2>3. ASSUME call.key \in DOMAIN store PROVE Plain(<<p>>)
    <3>1. call.key \in Resources /\ call.patch \in Patches[call.key]
      BY <1>2, <2>1 DEF CallOK
    <3>2. store[call.key] \in BodyOf(call.key)
      BY <1>1, <2>3 DEF IsStore
    <3>3. b \in BodyOf(call.key)
      BY <3>1, <3>2, ControlPlaneAssumption
    <3> HIDE DEF b
    <3>4. CallOK(p) /\ ~Checking(p)
      BY <3>1, <3>3 DEF CallOK, Checking, Put
    <3> QED
      BY Zenon, <3>4, PlainOne
  <2> HIDE DEF p
  <2> QED
    BY <1>4, <2>2, <2>3 DEF NewCalls
<1>11. CASE PruneList(c)
  <2> DEFINE extra == OfKind(store, call.kind) \ call.keep
             deletes == [i \in DOMAIN Sorted(extra) |-> Delete(Sorted(extra)[i])]
  <2>1. Calls(c, "prune") /\ Proceed(c, deletes \o tail)
    BY <1>11 DEF PruneList, call, tail
  <2>2. extra \in SUBSET Resources
    BY <1>1 DEF OfKind, IsStore
  <2>3. Sequenced(deletes) /\ Range(deletes) = {Delete(x) : x \in extra}
    <3>1. IsFiniteSet(extra)
      BY <2>2, FS_Subset, ControlPlaneAssumption
    <3> QED
      BY Zenon, <3>1, DeletesOf
  <2>4. \A x \in extra : CallOK(Delete(x)) /\ ~Checking(Delete(x))
    BY <2>2 DEF CallOK, Checking, Delete
  <2>5. Plain(deletes)
    BY Zenon, <2>3, <2>4 DEF Plain, Good
  <2> HIDE DEF deletes
  <2>6. Plain(deletes \o tail)
    BY <1>2, <2>1, <2>5, PlainJoin
  <2> QED
    BY <1>3, <2>1, <2>6 DEF NewCalls
<1>12. CASE HistoryGet(c)
  <2> DEFINE found == {e \in history : e.id = call.id}
             bundle == (CHOOSE e \in found : TRUE).bundle
             pruned == resolvePruneKinds(bundle, TRUE, bundle.managed)
             calls == ApplyCalls(bundle, pruned) \o SaveCalls
  <2>1. CASE found = {}
    <3>1. Proceed(c, <<>>)
      BY <1>12, <2>1 DEF HistoryGet, call
    <3> QED
      BY <1>3, <1>4, <3>1 DEF NewCalls
  <2>2. CASE found # {}
    <3>1. todo'[c] = calls
      BY Zenon, <1>1, <1>12, <2>2 DEF HistoryGet, call
    <3>2. IsBundle(bundle)
      BY <1>1, <2>2 DEF HistoryType
    <3>3. bundle.managed \in SUBSET Kinds
      BY Zenon, <3>2 DEF IsBundle
    <3> HIDE DEF bundle
    <3>4. Plain(ApplyCalls(bundle, pruned))
      BY Zenon, <3>2, <3>3, PrunedKinds, PlainApply
    <3>5. Plain(calls)
      BY Zenon, <3>4, PlainSave, PlainJoin
    <3> QED
      BY Zenon, <3>1, <3>5 DEF NewCalls
  <2> QED
    BY <2>1, <2>2
<1>13. CASE StampEntry(c)
  <2> DEFINE entry == [id |-> nextID, bundle |-> [resources |-> view[c], managed |-> Kinds]]
             k == [call |-> "save", entry |-> entry]
  <2>1. Proceed(c, <<k>>)
    BY <1>13 DEF StampEntry
  <2>2. IsBundle(entry.bundle) /\ entry.id \in Nat
    BY <1>1 DEF IsBundle, HistoryType
  <2> HIDE DEF entry
  <2>3. CallOK(k) /\ ~Checking(k)
    BY <2>2 DEF CallOK, Checking
  <2> HIDE DEF k
  <2> QED
    BY <1>3, <2>1, <2>3, PlainOne DEF NewCalls
<1>14. CASE HistoryPut(c)
  <2> DEFINE k == [call |-> "trim", id |-> call.entry.id]
  <2>1. Calls(c, "save") /\ Proceed(c, <<k>>)
    BY <1>14 DEF HistoryPut, call
  <2>2. CallOK(k) /\ ~Checking(k)
    BY <1>2, <2>1 DEF CallOK, Checking
  <2> HIDE DEF k
  <2> QED
    BY <1>3, <2>1, <2>2, PlainOne DEF NewCalls
<1>15. CASE HistoryTrim(c)
  <2> DEFINE ids == IDs(BeyondLimit(history))
             drops == [i \in DOMAIN Sorted(ids) |-> [call |-> "drop", id |-> Sorted(ids)[i], save |-> call.id]]
  <2>1. Calls(c, "trim") /\ Proceed(c, drops)
    BY <1>15 DEF HistoryTrim, call
  <2>2. call.id \in Nat
    BY <1>2, <2>1 DEF CallOK
  <2>3. IsFiniteSet(ids) /\ ids \in SUBSET Nat
    BY <1>1, DroppedIDs
  <2>4. Sequenced(drops) /\ Range(drops) = {[call |-> "drop", id |-> i, save |-> call.id] : i \in ids}
    BY <2>3, DropsOf
  <2>5. \A i \in ids : /\ CallOK([call |-> "drop", id |-> i, save |-> call.id])
                       /\ ~Checking([call |-> "drop", id |-> i, save |-> call.id])
    BY <2>2, <2>3 DEF CallOK, Checking
  <2> HIDE DEF drops
  <2>6. Plain(drops)
    BY <2>4, <2>5 DEF Plain, Good
  <2> QED
    BY <1>3, <2>1, <2>6 DEF NewCalls
<1>16. CASE HistoryDelete(c)
  <2>1. Calls(c, "drop") /\ Proceed(c, tail)
    BY <1>16 DEF HistoryDelete, tail
  <2> QED
    BY <1>2, <1>3, <2>1 DEF NewCalls
<1> QED
  BY <1>5, <1>6, <1>7, <1>8, <1>9, <1>10, <1>11, <1>12, <1>13, <1>14, <1>15, <1>16 DEF Step

\* So does every step.
LEMMA Moves ==
  ASSUME TypeInv, NEW c \in Clients, Act(c)
  PROVE  NewCalls(c) /\ Queue(todo'[c])
<1>1. Queue(todo[c]) /\ DOMAIN todo = Clients
  BY Zenon DEF TypeInv, QueueType
<1>2. CASE CallFails(c)
  <2> DEFINE validating == \E i \in DOMAIN todo[c] : todo[c][i].call = "validate"
             rest == IF validating THEN Unchecked(todo[c]) ELSE <<>>
  <2>1. todo'[c] = rest
    BY Zenon, <1>1, <1>2 DEF CallFails
  <2>2. ASSUME validating PROVE Plain(Unchecked(todo[c]))
    <3>1. \E k \in Range(todo[c]) : Checking(k)
      BY Zenon, <2>2 DEF Range, Checking
    <3>2. Good(todo[c]) /\ Validated(todo[c])
      BY Zenon, <1>1, <3>1 DEF Queue, Plain
    <3> QED
      BY Zenon, <3>2, UncheckedPut
  <2> HIDE DEF validating
  <2> QED
    BY Zenon, <2>1, <2>2, PlainOne DEF NewCalls, Queue
<1>3. CASE ~CallFails(c)
  <2>1. NewCalls(c)
    BY Zenon, <1>3, StartMoves, StepMoves DEF Act
  <2>2. \A x \in Resources : \A b \in Bodies[x] : Queue(PutCalls(x, b))
    BY Zenon, QueuePut, ControlPlaneAssumption
  <2>3. \A name : Calls(c, name) => Queue(Tail(todo[c]))
    BY Zenon, <1>1, QueueTail DEF Calls
  <2> QED
    BY Zenon, <2>1, <2>2, <2>3 DEF NewCalls, Queue
<1> QED
  BY Zenon, <1>2, <1>3

\* A step changes the calls and the view of its own client only.
LEMMA OthersKeep ==
  ASSUME TypeInv, NEW c \in Clients, Act(c), NEW d \in Clients, d # c
  PROVE  todo'[d] = todo[d] /\ view'[d] = view[d]
<1>1. DOMAIN todo = Clients /\ DOMAIN view = Clients
  BY DEF TypeInv, QueueType
<1>2. ASSUME NEW calls, NEW g, Begin(c, calls, g) PROVE todo'[d] = todo[d] /\ view'[d] = view[d]
  BY <1>1, <1>2 DEF Begin
<1>3. ASSUME NEW rest, Proceed(c, rest) PROVE todo'[d] = todo[d] /\ view'[d] = view[d]
  BY <1>1, <1>3 DEF Proceed
<1>4. CASE StartSomething(c)
  BY <1>2, <1>4 DEF StartSomething, handlePut, handlePatch, handleDelete, handleImportApply,
                    adminImport, handleHistoryRollback, Start
<1>5. CASE StoreList(c) \/ CallFails(c)
  BY <1>1, <1>5 DEF StoreList, CallFails
<1>6. CASE HistoryGet(c)
  BY <1>1, <1>3, <1>6 DEF HistoryGet
<1>7. CASE Step(c) /\ ~StoreList(c) /\ ~HistoryGet(c)
  BY <1>3, <1>7 DEF Step, ValidateResource, StorePut, ReadBack, StoreDelete, PatchGet,
                    PruneList, StampEntry, HistoryPut, HistoryTrim, HistoryDelete
<1> QED
  BY <1>4, <1>5, <1>6, <1>7 DEF Act

\* The calls that write to the store.
LEMMA Writes ==
  ASSUME NEW c \in Clients, Act(c), ~StorePut(c), ~StoreDelete(c)
  PROVE  UNCHANGED <<store, unchecked>>
<1>1. CASE StartSomething(c)
  BY <1>1 DEF StartSomething, handlePut, handlePatch, handleDelete, handleImportApply,
              adminImport, handleHistoryRollback, Start, Begin
<1>2. CASE Step(c)
  BY <1>2 DEF Step, StoreList, ValidateResource, ReadBack, PatchGet, PruneList, HistoryGet,
              StampEntry, HistoryPut, HistoryTrim, HistoryDelete, storeVars
<1>3. CASE CallFails(c)
  BY <1>3 DEF CallFails, storeVars
<1> QED
  BY <1>1, <1>2, <1>3 DEF Act

\* The views are stores.
LEMMA ViewTypes ==
  ASSUME TypeInv, NEW c \in Clients, Act(c)
  PROVE  /\ DOMAIN todo' = Clients /\ DOMAIN view' = Clients /\ DOMAIN goal' = Clients
         /\ IsStore(view'[c])
<1>1. /\ DOMAIN todo = Clients /\ DOMAIN view = Clients /\ DOMAIN goal = Clients
      /\ IsStore(Empty) /\ IsStore(view[c])
  BY StoresMade DEF TypeInv, QueueType
<1> DEFINE Goal1 == /\ DOMAIN todo' = Clients /\ DOMAIN view' = Clients /\ DOMAIN goal' = Clients
                    /\ IsStore(view'[c])
<1>2. ASSUME NEW calls, NEW g, Begin(c, calls, g) PROVE Goal1
  <2>1. DOMAIN todo' = Clients /\ DOMAIN view' = Clients /\ DOMAIN goal' = Clients /\ view'[c] = Empty
    BY <1>1, <1>2 DEF Begin
  <2> QED
    BY <1>1, <2>1
<1>3. ASSUME NEW rest, Proceed(c, rest) PROVE Goal1
  <2>1. /\ DOMAIN todo' = Clients /\ DOMAIN view' = Clients /\ DOMAIN goal' = Clients
        /\ view'[c] = Empty \/ view'[c] = view[c]
    BY <1>1, <1>3 DEF Proceed
  <2> QED
    BY <1>1, <2>1
<1>4. CASE StartSomething(c)
  BY <1>2, <1>4 DEF StartSomething, handlePut, handlePatch, handleDelete, handleImportApply,
                    adminImport, handleHistoryRollback, Start
<1>5. CASE StoreList(c)
  <2>1. /\ DOMAIN todo' = Clients /\ DOMAIN view' = Clients /\ DOMAIN goal' = Clients
        /\ view'[c] = Over(Only(store, OfKind(store, Head(todo[c]).kind)), view[c])
    BY <1>1, <1>5 DEF StoreList
  <2>2. IsStore(Over(Only(store, OfKind(store, Head(todo[c]).kind)), view[c]))
    BY <1>1, StoresMade DEF TypeInv
  <2> QED
    BY <2>1, <2>2
<1>6. CASE CallFails(c)
  <2>1. DOMAIN todo' = Clients /\ DOMAIN view' = Clients /\ DOMAIN goal' = Clients /\ view'[c] = Empty
    BY Zenon, <1>1, <1>6 DEF CallFails
  <2> QED
    BY Zenon, <1>1, <2>1
<1>7. CASE HistoryGet(c)
  <2>1. \/ Proceed(c, <<>>)
        \/ DOMAIN todo' = DOMAIN todo /\ view' = view /\ DOMAIN goal' = DOMAIN goal
    BY Zenon, <1>7 DEF HistoryGet
  <2> QED
    BY Zenon, <1>1, <1>3, <2>1
<1>8. CASE Step(c) /\ ~StoreList(c) /\ ~HistoryGet(c)
  BY Zenon, <1>3, <1>8 DEF Step, ValidateResource, StorePut, ReadBack, StoreDelete, PatchGet,
                    PruneList, StampEntry, HistoryPut, HistoryTrim, HistoryDelete
<1> QED
  BY <1>4, <1>5, <1>6, <1>7, <1>8 DEF Act

\* The calls that write to the history.
LEMMA HistoryWrites ==
  ASSUME NEW c \in Clients, Act(c), ~HistoryPut(c), ~HistoryDelete(c)
  PROVE  UNCHANGED <<history, saved>> /\ (~StampEntry(c) => UNCHANGED nextID)
<1>1. CASE StartSomething(c)
  BY <1>1 DEF StartSomething, handlePut, handlePatch, handleDelete, handleImportApply,
              adminImport, handleHistoryRollback, Start, Begin
<1>2. CASE Step(c)
  BY <1>2 DEF Step, StoreList, ValidateResource, StorePut, ReadBack, StoreDelete, PatchGet,
              PruneList, HistoryGet, StampEntry, HistoryTrim, historyVars
<1>3. CASE CallFails(c)
  BY <1>3 DEF CallFails, historyVars
<1> QED
  BY <1>1, <1>2, <1>3 DEF Act

\* Every step keeps the types.
LEMMA TypesKept ==
  ASSUME TypeInv, NEW c \in Clients, Act(c)
  PROVE  TypeInv'
<1>1. QueueType'
  <2>1. \A d \in Clients : Queue(todo'[d]) /\ IsStore(view'[d])
    <3> TAKE d \in Clients
    <3>1. CASE d = c
      BY <3>1, Moves, ViewTypes
    <3>2. CASE d # c
      BY <3>2, OthersKeep DEF TypeInv, QueueType
    <3> QED
      BY <3>1, <3>2
  <2> QED
    BY <2>1, ViewTypes DEF QueueType
<1>2. ASSUME NEW name, Calls(c, name)
      PROVE  Head(todo[c]).call = name /\ CallOK(Head(todo[c]))
  BY <1>2, QueueTail DEF Calls, TypeInv, QueueType
<1>3. IsStore(store')
  <2>1. CASE StorePut(c)
    <3>1. Calls(c, "put") /\ store' = With(store, Head(todo[c]).key, Head(todo[c]).body)
      BY <2>1 DEF StorePut
    <3> QED
      BY <1>2, <3>1, StoresMade DEF CallOK, TypeInv
  <2>2. CASE StoreDelete(c)
    BY <2>2, StoresMade DEF StoreDelete, TypeInv
  <2>3. CASE ~StorePut(c) /\ ~StoreDelete(c)
    BY <2>3, Writes DEF TypeInv
  <2> QED
    BY <2>1, <2>2, <2>3
<1>4. HistoryType'
  <2>1. HistoryType
    BY DEF TypeInv
  <2>2. CASE HistoryPut(c)
    <3> DEFINE entry == Head(todo[c]).entry
    <3>1. /\ Calls(c, "save") /\ history' = history \cup {entry} /\ saved' = Append(saved, entry.id)
          /\ UNCHANGED nextID
      BY Zenon, <2>2 DEF HistoryPut
    <3>2. entry.id \in Nat /\ IsBundle(entry.bundle)
      BY <1>2, <3>1 DEF CallOK
    <3> HIDE DEF entry
    <3>3. IsFiniteSet(history')
      BY <2>1, <3>1, FS_AddElement DEF HistoryType
    <3>4. \A e \in history' : e.id \in Nat /\ IsBundle(e.bundle)
      BY Zenon, <2>1, <3>1, <3>2 DEF HistoryType
    <3>5. saved' \in Seq(Nat)
      BY <2>1, <3>1, <3>2 DEF HistoryType
    <3> QED
      BY <2>1, <3>1, <3>3, <3>4, <3>5 DEF HistoryType
  <2>3. CASE HistoryDelete(c)
    <3>1. history' \in SUBSET history /\ UNCHANGED <<nextID, saved>>
      BY <2>3 DEF HistoryDelete
    <3>2. IsFiniteSet(history')
      BY <2>1, <3>1, FS_Subset DEF HistoryType
    <3> QED
      BY <2>1, <3>1, <3>2 DEF HistoryType
  <2>4. CASE ~HistoryPut(c) /\ ~HistoryDelete(c)
    <3>1. nextID' \in Nat
      <4>1. CASE StampEntry(c)
        BY <2>1, <4>1 DEF HistoryType, StampEntry
      <4>2. CASE ~StampEntry(c)
        BY <2>1, <2>4, <4>2, HistoryWrites DEF HistoryType
      <4> QED
        BY Zenon, <4>1, <4>2
    <3> QED
      BY <2>1, <2>4, <3>1, HistoryWrites DEF HistoryType
  <2> QED
    BY <2>2, <2>3, <2>4
<1> QED
  BY <1>1, <1>3, <1>4 DEF TypeInv

\* The types hold at the start.
LEMMA TypesAtStart == Init => TypeInv
<1> SUFFICES ASSUME Init PROVE TypeInv
  OBVIOUS
<1>1. IsStore(store)
  BY ControlPlaneAssumption DEF Init
<1>2. QueueType
  BY StoresMade, PlainOne DEF Init, QueueType, Queue
<1>3. HistoryType
  BY FS_EmptySet DEF Init, HistoryType
<1> QED
  BY <1>1, <1>2, <1>3 DEF TypeInv

\* The types hold in every state: an operation never has a call left whose
\* arguments are not there, and a put that was validated or is to be validated
\* is the last call of its operation.
THEOREM TypeInvariant == Spec => []TypeInv
<1>1. TypeInv /\ [Next]_vars => TypeInv'
  <2> SUFFICES ASSUME TypeInv, [Next]_vars PROVE TypeInv'
    OBVIOUS
  <2>1. ASSUME NEW c \in Clients, Act(c) PROVE TypeInv'
    BY <2>1, TypesKept
  <2>2. CASE UNCHANGED vars
    BY <2>2 DEF vars, TypeInv, QueueType, HistoryType
  <2> QED
    BY <2>1, <2>2 DEF Next, Act
<1> QED
  BY <1>1, TypesAtStart, PTL DEF Spec

-----------------------------------------------------------------------------
(* Validated writes *)

\* The first call is a put that was validated.
PutNext(s) == s # <<>> /\ Head(s).call = "put" /\ Head(s).checked

\* It can be made without harm, however old the validation is.
HeadReady(s) ==
  PutNext(s) => /\ Head(s).body.complete
                /\ Head(s).body.refs \subseteq {Head(s).key} \cup DOMAIN store

\* While every write is validated, what the Lists have returned is still there.
RefInv ==
  ~unchecked =>
    /\ Valid(store)
    /\ \A c \in Clients : DOMAIN view[c] \subseteq DOMAIN store /\ HeadReady(todo[c])

\* Only the validation makes a validated put the next call.
LEMMA NotPutNext ==
  /\ \A s : Plain(s) => ~PutNext(s)
  /\ \A s : Queue(s) /\ s # <<>> /\ Head(s).call # "validate" => ~PutNext(Tail(s))
<1>1. ASSUME NEW s, Plain(s) PROVE ~PutNext(s)
  <2> SUFFICES ASSUME PutNext(s) PROVE FALSE
    OBVIOUS
  <2>1. Head(s) \in Range(s)
    BY <1>1, QueueTail DEF Queue, PutNext
  <2> QED
    BY <1>1, <2>1 DEF Plain, PutNext, Checking
<1>2. ASSUME NEW s, Queue(s), s # <<>>, Head(s).call # "validate", PutNext(Tail(s)) PROVE FALSE
  <2> DEFINE n == Len(s)
  <2>1. ~Plain(s)
    BY <1>1, <1>2, QueueTail
  <2>2. Good(s) /\ Validated(s)
    BY <1>2, <2>1 DEF Queue
  <2>3. /\ n \in Nat \ {0} /\ Head(s) = s[1] /\ Sequenced(Tail(s)) /\ Len(Tail(s)) = n - 1
        /\ \A i \in 1..(n - 1) : Tail(s)[i] = s[i + 1]
    BY <1>2, <2>2, TailOf DEF Good
  <2>4. Head(Tail(s)) = Tail(s)[1] /\ Len(Tail(s)) \in Nat \ {0}
    BY <1>2, <2>3, TailOf DEF PutNext
  <2>5. n > 1 /\ s[2].call = "put"
    BY <1>2, <2>3, <2>4 DEF PutNext
  <2>6. /\ s[n - 1] = [call |-> "validate", key |-> s[n].key, body |-> s[n].body]
        /\ \A i \in 1..(n - 2) : s[i].call = "list"
    BY <2>2, <2>5 DEF Validated
  <2>7. CASE n = 2
    BY <1>2, <2>3, <2>6, <2>7
  <2>8. CASE n = 3
    BY <2>5, <2>6, <2>8
  <2>9. CASE n > 3
    BY <2>3, <2>5, <2>6, <2>9
  <2> QED
    BY <2>3, <2>5, <2>7, <2>8, <2>9
<1> QED
  BY <1>1, <1>2

\* A view holds only what was in the store.
LEMMA ViewStep ==
  ASSUME TypeInv, NEW c \in Clients, Act(c)
  PROVE  DOMAIN view'[c] \subseteq DOMAIN view[c] \cup DOMAIN store
<1>1. DOMAIN view = Clients /\ DOMAIN Empty = {}
  BY DEF TypeInv, QueueType, Empty
<1>2. ASSUME NEW calls, NEW g, Begin(c, calls, g) PROVE view'[c] = Empty
  BY <1>1, <1>2 DEF Begin
<1>3. ASSUME NEW rest, Proceed(c, rest) PROVE view'[c] = Empty \/ view'[c] = view[c]
  BY <1>1, <1>3 DEF Proceed
<1>4. CASE StartSomething(c)
  <2>1. view'[c] = Empty
    BY <1>2, <1>4 DEF StartSomething, handlePut, handlePatch, handleDelete, handleImportApply,
                      adminImport, handleHistoryRollback, Start
  <2> QED
    BY <1>1, <2>1
<1>5. CASE StoreList(c)
  <2>1. view'[c] = Over(Only(store, OfKind(store, Head(todo[c]).kind)), view[c])
    BY <1>1, <1>5 DEF StoreList
  <2> QED
    BY <2>1 DEF Over, Only
<1>6. CASE CallFails(c)
  <2>1. view'[c] = Empty
    BY <1>1, <1>6 DEF CallFails
  <2> QED
    BY <1>1, <2>1
<1>7. CASE Step(c) /\ ~StoreList(c)
  <2>1. view'[c] = Empty \/ view'[c] = view[c]
    BY <1>1, <1>3, <1>7 DEF Step, ValidateResource, StorePut, ReadBack, StoreDelete, PatchGet,
                      PruneList, HistoryGet, StampEntry, HistoryPut, HistoryTrim, HistoryDelete
  <2> QED
    BY <1>1, <2>1
<1> QED
  BY <1>4, <1>5, <1>6, <1>7 DEF Act

\* A validated put becomes the next call when ValidateResource finds the body
\* valid next to what was listed.
LEMMA PutNextStep ==
  ASSUME TypeInv, NEW c \in Clients, Act(c), PutNext(todo'[c])
  PROVE  /\ ValidateResource(c)
         /\ Valid(With(view[c], Head(todo'[c]).key, Head(todo'[c]).body))
<1>1. Queue(todo[c]) /\ DOMAIN todo = Clients
  BY DEF TypeInv, QueueType
<1>2. ~Plain(todo'[c])
  BY NotPutNext
<1>3. ASSUME NEW name, Calls(c, name), name # "validate" PROVE todo'[c] # Tail(todo[c])
  BY <1>1, <1>3, NotPutNext DEF Calls
<1>4. ASSUME NEW x \in Resources, NEW b \in Bodies[x], todo'[c] = PutCalls(x, b)
      PROVE  FALSE
  <2>1. Good(PutCalls(x, b)) /\ PutCalls(x, b) # <<>>
    BY <1>4, QueuePut, ControlPlaneAssumption DEF PutNext
  <2>2. PutCalls(x, b)[1] = [kind |-> supportedKinds[1], call |-> "list"]
    <3> DEFINE k(i) == [kind |-> supportedKinds[i], call |-> "list"]
               v == [call |-> "validate", key |-> x, body |-> b]
               w == Put(x, b, TRUE)
    <3>1. ListCalls(supportedKinds) = <<k(1), k(2), k(3)>>
      BY DEF ListCalls, supportedKinds
    <3>2. PutCalls(x, b) = ListCalls(supportedKinds) \o <<v, w>>
      BY DEF PutCalls
    <3> HIDE DEF k, v, w
    <3>3. (<<k(1), k(2), k(3)>> \o <<v, w>>)[1] = k(1)
      OBVIOUS
    <3>4. PutCalls(x, b)[1] = k(1)
      BY ONLY <3>1, <3>2, <3>3
    <3> QED
      BY ONLY <3>4 DEF k
  <2>3. Head(PutCalls(x, b)).call = "list"
    BY <2>1, <2>2, TailOf DEF Good
  <2> QED
    BY <1>4, <2>3 DEF PutNext
<1>5. Calls(c, "validate") /\ ValidateResource(c) /\ todo'[c] = Tail(todo[c])
  BY <1>2, <1>3, <1>4, Moves DEF NewCalls
<1> DEFINE call == Head(todo[c])
           snapshot == With(view[c], call.key, call.body)
           rest == IF ~Decodes(view[c]) \/ ~call.body.decodes THEN Unchecked(todo[c])
                   ELSE IF Valid(snapshot) THEN Tail(todo[c])
                   ELSE <<>>
<1>6. todo'[c] = rest
  BY <1>1, <1>5 DEF ValidateResource, Proceed
<1>7. Good(todo[c]) /\ Validated(todo[c])
  <2>1. call \in Range(todo[c]) /\ Checking(call)
    BY <1>1, <1>5, QueueTail DEF Checking, Calls
  <2> QED
    BY <1>1, <2>1 DEF Queue, Plain
<1>8. Valid(snapshot)
  <2>1. Plain(Unchecked(todo[c])) /\ Plain(<<>>)
    BY <1>7, UncheckedPut, PlainOne
  <2> QED
    BY <1>2, <1>6, <2>1
<1>9. Head(todo'[c]).key = call.key /\ Head(todo'[c]).body = call.body
  <2> DEFINE s == todo[c]
             n == Len(s)
  <2>1. /\ n \in Nat \ {0} /\ call = s[1] /\ Sequenced(Tail(s)) /\ Len(Tail(s)) = n - 1
        /\ DOMAIN Tail(s) = 1..(n - 1) /\ \A i \in DOMAIN Tail(s) : Tail(s)[i] = s[i + 1]
    BY <1>5, <1>7, TailOf DEF Good, Calls
  <2>2. /\ s[n].call = "put" /\ (n > 1 => s[n - 1] = [call |-> "validate", key |-> s[n].key, body |-> s[n].body])
        /\ \A i \in 1..(n - 2) : s[i].call = "list"
    BY <1>7 DEF Validated
  <2>3. call.call = "validate"
    BY <1>5 DEF Calls
  <2> HIDE DEF n, call
  <2>4. n = 2
    <3>1. CASE n = 1
      BY <2>1, <2>2, <2>3, <3>1
    <3>2. CASE n > 2
      <4>1. 1 \in 1..(n - 2)
        BY <2>1, <3>2
      <4> QED
        BY <2>1, <2>2, <2>3, <4>1
    <3> QED
      BY <2>1, <3>1, <3>2
  <2>5. Head(Tail(s)) = Tail(s)[1]
    BY <1>5, <2>1, TailOf DEF PutNext
  <2>6. Head(Tail(s)) = s[2]
    BY <2>1, <2>4, <2>5
  <2>7. s[1] = [call |-> "validate", key |-> s[2].key, body |-> s[2].body]
    BY <2>2, <2>4
  <2>8. call.key = s[2].key /\ call.body = s[2].body
    BY <2>1, <2>7
  <2> QED
    BY <1>5, <2>6, <2>8
<1> QED
  BY <1>5, <1>8, <1>9

\* Every step keeps the references, as long as it is validated.
LEMMA RefStep ==
  ASSUME TypeInv, RefInv, NEW c \in Clients, Act(c)
  PROVE  RefInv'
<1> SUFFICES ASSUME ~unchecked' PROVE /\ Valid(store')
                                      /\ \A d \in Clients : /\ DOMAIN view'[d] \subseteq DOMAIN store'
                                                            /\ HeadReady(todo[d])'
  BY DEF RefInv
<1>1. ~StoreDelete(c)
  BY DEF StoreDelete
<1>2. ~unchecked
  <2>1. CASE StorePut(c)
    BY <2>1 DEF StorePut
  <2>2. CASE ~StorePut(c)
    BY <1>1, <2>2, Writes
  <2> QED
    BY <2>1, <2>2
<1>3. /\ Valid(store)
      /\ \A d \in Clients : DOMAIN view[d] \subseteq DOMAIN store /\ HeadReady(todo[d])
  BY <1>2 DEF RefInv
<1>4. Valid(store') /\ DOMAIN store \subseteq DOMAIN store'
  <2>1. CASE StorePut(c)
    <3> DEFINE p == Head(todo[c])
    <3>1. PutNext(todo[c]) /\ store' = With(store, p.key, p.body)
      BY <2>1 DEF StorePut, Calls, PutNext
    <3>2. p.body.complete /\ p.body.refs \subseteq {p.key} \cup DOMAIN store
      BY <1>3, <3>1 DEF HeadReady
    <3>3. DOMAIN store' = {p.key} \cup DOMAIN store
      BY <3>1 DEF With
    <3>4. \A x \in DOMAIN store' : store'[x] = IF x = p.key THEN p.body ELSE store[x]
      BY <3>1 DEF With
    <3>5. \A x \in DOMAIN store : store[x].complete /\ store[x].refs \subseteq DOMAIN store
      BY <1>3 DEF Valid, issues
    <3> HIDE DEF p
    <3>6. \A x \in DOMAIN store' : store'[x].complete /\ store'[x].refs \subseteq DOMAIN store'
      BY <3>2, <3>3, <3>4, <3>5
    <3> QED
      BY <3>3, <3>6 DEF Valid, issues
  <2>2. CASE ~StorePut(c)
    BY <1>1, <1>3, <2>2, Writes
  <2> QED
    BY <2>1, <2>2
<1>5. ASSUME NEW d \in Clients
      PROVE  DOMAIN view'[d] \subseteq DOMAIN store' /\ HeadReady(todo[d])'
  <2>1. CASE d # c
    <3>1. todo'[d] = todo[d] /\ view'[d] = view[d]
      BY <2>1, OthersKeep
    <3> QED
      BY <1>3, <1>4, <3>1 DEF HeadReady, PutNext
  <2>2. CASE d = c
    <3>1. DOMAIN view'[c] \subseteq DOMAIN store'
      BY <1>3, <1>4, ViewStep
    <3>2. ASSUME PutNext(todo'[c])
          PROVE  /\ Head(todo'[c]).body.complete
                 /\ Head(todo'[c]).body.refs \subseteq {Head(todo'[c]).key} \cup DOMAIN store'
      <4> DEFINE x == Head(todo'[c]).key
                 b == Head(todo'[c]).body
                 snapshot == With(view[c], x, b)
      <4>1. Valid(snapshot)
        BY <3>2, PutNextStep
      <4>2. x \in DOMAIN snapshot /\ snapshot[x] = b /\ DOMAIN snapshot = {x} \cup DOMAIN view[c]
        BY DEF With
      <4> HIDE DEF snapshot, x, b
      <4>3. b.complete /\ b.refs \subseteq {x} \cup DOMAIN view[c]
        BY <4>1, <4>2 DEF Valid, issues
      <4> QED
        BY <1>3, <1>4, <4>3 DEF x, b
    <3> QED
      BY <2>2, <3>1, <3>2 DEF HeadReady, PutNext
  <2> QED
    BY <2>1, <2>2
<1> QED
  BY <1>4, <1>5

\* While every write is a validated PUT or POST, no reference is left dangling,
\* for any number of requests whose Lists, validations and puts interleave in
\* any way: what a validation has seen is not taken away again.
THEOREM PutsAreSafe == Spec => []PutsKeepReferences
<1>1. Init => RefInv
  <2> SUFFICES ASSUME Init PROVE RefInv
    OBVIOUS
  <2>1. Valid(store)
    BY ControlPlaneAssumption DEF Init
  <2>2. \A c \in Clients : DOMAIN view[c] = {} /\ ~PutNext(todo[c])
    BY DEF Init, Empty, PutNext
  <2> QED
    BY <2>1, <2>2 DEF RefInv, HeadReady
<1>2. TypeInv /\ RefInv /\ [Next]_vars => RefInv'
  <2> SUFFICES ASSUME TypeInv, RefInv, [Next]_vars PROVE RefInv'
    OBVIOUS
  <2>1. ASSUME NEW c \in Clients, Act(c) PROVE RefInv'
    BY <2>1, RefStep
  <2>2. CASE UNCHANGED vars
    BY <2>2 DEF vars, RefInv, HeadReady, PutNext
  <2> QED
    BY <2>1, <2>2 DEF Next, Act
<1>3. RefInv => PutsKeepReferences
  BY DEF RefInv, PutsKeepReferences
<1> QED
  BY <1>1, <1>2, <1>3, TypeInvariant, PTL DEF Spec

=============================================================================
