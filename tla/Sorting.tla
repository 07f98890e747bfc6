------------------------------ MODULE Sorting ------------------------------
(***************************************************************************)
(* How the Ingress Controller makes the order of what it does independent  *)
(* of the order of Go maps: it sorts the keys (internal/k8s/               *)
(* configuration.go), and filters sequences without reordering them.       *)
(***************************************************************************)
EXTENDS Naturals, FiniteSets

\* sort.Strings: the elements of a finite set of names, in increasing order.
Sorted(S) ==
  [i \in 1..Cardinality(S) |-> CHOOSE x \in S : Cardinality({y \in S : y < x}) = i - 1]

\* The elements of s at the positions in at, in order.
Subsequence(s, at) ==
  LET order == Sorted(at) IN [k \in DOMAIN order |-> s[order[k]]]
=============================================================================
