----------------------------- MODULE Seniority -----------------------------
(***************************************************************************)
(* How the Ingress Controller settles collisions                           *)
(* (internal/k8s/configuration.go): every resource has a creation          *)
(* timestamp and a UID, and Resource.Wins compares them.                   *)
(***************************************************************************)
EXTENDS Naturals

\* Mutant: the younger object wins.
WinsYounger(o, p) ==
  IF o.created = p.created THEN o.uid > p.uid ELSE o.created > p.created

\* chooseObjectMetaWinner: the older object wins, then the greater UID.
Wins(o, p) ==
  IF o.created = p.created THEN o.uid > p.uid ELSE o.created < p.created

\* The claimant that no other claimant displaces.
Holder(claimants) ==
  CHOOSE o \in claimants : \A p \in claimants \ {o} : Wins(o, p)

\* The order of seniority that should decide every collision.
Senior(o, p) == \/ o.created < p.created
                \/ o.created = p.created /\ o.uid > p.uid
=============================================================================
