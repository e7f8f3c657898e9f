------------------------------- MODULE Lists -------------------------------
(***************************************************************************)
(* What calculations do to lists and numbers: filters with a limit, stable   *)
(* sorts, and rounding.                                                     *)
(***************************************************************************)
EXTENDS Integers, Sequences, SequencesExt, FiniteSets, FiniteSetsExt

Rounded(n, d) == (2 * n + d) \div (2 * d)   \* Math.round(n / d)

\* The elements of s that are in good, in their order, and no more than most.
Kept(s, good, most) ==
  FoldLeft(LAMBDA kept, e : IF Len(kept) < most /\ e \in good THEN Append(kept, e) ELSE kept,
           <<>>, s)

\* All of them.
AllKept(s, good) == Kept(s, good, Len(s))

\* Element j of a list comes before element k: it is first by what they are sorted
\* by, in falling order, then by what ties are broken by, then as before.
Ahead(first, second, j, k) ==
  \/ first[j] > first[k]
  \/ first[j] = first[k] /\ second[j] > second[k]
  \/ first[j] = first[k] /\ second[j] = second[k] /\ j < k

\* s, sorted by first and second.
Sorted(s, first, second) ==
  LET place(k) == Cardinality({j \in DOMAIN s : j = k \/ Ahead(first, second, j, k)})
  IN [n \in DOMAIN s |-> s[CHOOSE k \in DOMAIN s : place(k) = n]]
=============================================================================
