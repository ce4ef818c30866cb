--------------------------------- MODULE Order ---------------------------------
(***************************************************************************)
(* Finite sets as sequences. The operators have no recursion, so that      *)
(* facts about them can be proved.                                         *)
(***************************************************************************)
EXTENDS Integers, Sequences, FiniteSetsExt

IsSequence(s) == s \in Seq(Range(s))

\* The elements of S, sorted; before is a strict total order on S.
InOrder(S, before(_, _)) ==
  [n \in 1..Cardinality(S) |-> CHOOSE x \in S : Cardinality({y \in S : before(y, x)}) = n - 1]

\* The elements of the sequence s at the indices in S, in their order.
At(s, S) == LET order == InOrder(S, <) IN [n \in DOMAIN order |-> s[order[n]]]

\* The sequences of a sequence one after the other.
Places(seqs) == UNION {{<<i, k>> : k \in DOMAIN seqs[i]} : i \in DOMAIN seqs}
Earlier(p, q) == p[1] < q[1] \/ (p[1] = q[1] /\ p[2] < q[2])
Flatten(seqs) ==
  LET order == InOrder(Places(seqs), Earlier)
  IN  [n \in DOMAIN order |-> seqs[order[n][1]][order[n][2]]]

\* Sequences as in the module SequencesExt, which takes in several hundred
\* theorems about bags and sequences.
Last(s) == s[Len(s)]
Front(s) == SubSeq(s, 1, Len(s) - 1)
IsPrefix(s, t) == Len(s) <= Len(t) /\ s = SubSeq(t, 1, Len(s))
IsSuffix(s, t) == Len(s) <= Len(t) /\ s = SubSeq(t, Len(t) - Len(s) + 1, Len(t))
SetToSeqs(S) == {f \in [1..Cardinality(S) -> S] : \A i, j \in DOMAIN f : i # j => f[i] # f[j]}
FoldLeft(op(_, _), base, s) ==
  MapThenFoldSet(LAMBDA x, y : op(y, x), base, LAMBDA i : s[i], Max, DOMAIN s)

=============================================================================
