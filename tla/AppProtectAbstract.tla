------------------------- MODULE AppProtectAbstract -------------------------
(***************************************************************************)
(* What the App Protect configuration promises, without the history of the *)
(* calls: which signatures and policies are in force is a function of the  *)
(* objects that are stored.                                                *)
(***************************************************************************)
EXTENDS Seniority

CONSTANTS
  NoTag, NoTime,
  Meets(_, _)     \* a signature meets a requirement

VARIABLES
  storedPolicies, storedSigs,  \* name |-> object
  inForce,                     \* the names of the policies NGINX may use
  active                       \* the names of the signatures NGINX may use

vars == <<storedPolicies, storedSigs, inForce, active>>

\* A well-formed signature is active unless a senior one has its tag.
Active(sigs) ==
  {k \in DOMAIN sigs :
     /\ sigs[k].form = "ok"
     /\ sigs[k].tag # NoTag =>
          \A j \in DOMAIN sigs \ {k} :
            sigs[j].form = "ok" /\ sigs[j].tag = sigs[k].tag => Senior(sigs[k], sigs[j])}

\* A well-formed policy is in force when active signatures meet its requirements.
InForce(pols, sigs) ==
  {k \in DOMAIN pols :
     /\ pols[k].form = "ok"
     /\ \A req \in pols[k].reqs : \E j \in Active(sigs) : Meets(req, sigs[j])}

Init ==
  /\ storedPolicies = <<>> /\ storedSigs = <<>>
  /\ inForce = {} /\ active = {}

\* At most one object is stored or removed at a time.
OneKey(old, new) ==
  \E key \in DOMAIN old \cup DOMAIN new :
    \A k \in (DOMAIN old \cup DOMAIN new) \ {key} :
      k \in DOMAIN old /\ k \in DOMAIN new /\ old[k] = new[k]

Next ==
  /\ \/ storedSigs' = storedSigs /\ OneKey(storedPolicies, storedPolicies')
     \/ storedPolicies' = storedPolicies /\ OneKey(storedSigs, storedSigs')
  /\ active' = Active(storedSigs')
  /\ inForce' = InForce(storedPolicies', storedSigs')

Spec == Init /\ [][Next]_vars
=============================================================================
