------------------------------- MODULE Queues -------------------------------
(***************************************************************************)
(* What the modules say of the kernel's lists and loops, beyond the        *)
(* operators on sequences.                                                 *)
(***************************************************************************)
EXTENDS Naturals, Sequences, FiniteSets

\* Where the elements of S are in s, and where the k-th of them is.
PlacesOf(s, S) == {i \in DOMAIN s : s[i] \in S}
Rank(P, i) == Cardinality({j \in P : j <= i})
Nth(P, k) == CHOOSE i \in P : Rank(P, i) = k

\* What is left of s when a walk of the list removes what is not in S: the
\* elements of S, in their order.
Filter(s, S) ==
  LET P == PlacesOf(s, S) IN [k \in 1..Cardinality(P) |-> s[Nth(P, k)]]

\* step(x, e) for each e of the sequence s, one after the other, from x on.
Each(step(_, _), x, s) ==
  LET after[i \in 0..Len(s)] == IF i = 0 THEN x ELSE step(after[i - 1], s[i])
  IN  after[Len(s)]
=============================================================================
