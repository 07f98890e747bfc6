----------------------------- MODULE AppProtect -----------------------------
(***************************************************************************)
(* The App Protect configuration                                           *)
(* (internal/k8s/appprotect/app_protect_configuration.go): the APPolicies, *)
(* APLogConfs and APUserSigs of the cluster, and which of them are valid.  *)
(* Two signatures must not share a tag; a policy needs a valid signature   *)
(* for each of its signature requirements.  The validity of what is stored *)
(* is maintained incrementally, from call to call.                         *)
(*                                                                         *)
(* The form of an object says how its creation ends: "ok", "malformed" (a  *)
(* required field is missing) or "badtime" (a timestamp does not parse).   *)
(* IsValid and ErrorMsg are one field: an entry is valid when its error is *)
(* "none".  Go maps are functions on the set of their keys.                *)
(***************************************************************************)
EXTENDS Seniority, FiniteSets, Functions

CONSTANTS
  APPolicies,   \* [name, form, reqs, rest]
  APLogConfs,   \* [name, form, rest]
  APUserSigs    \* [name, form, tag, rev, created, uid]

VARIABLES policies, logConfs, userSigs,
          apChange  \* what the last call returned

apVars == <<policies, logConfs, userSigs, apChange>>

NoTag == "" \* the tag of a signature without one
NoTime == -1 \* an absent revision time

Tags == {s.tag : s \in APUserSigs}
PolicyNames == {o.name : o \in APPolicies}
LogConfNames == {o.name : o \in APLogConfs}
UserSigNames == {o.name : o \in APUserSigs}
Forms == {"ok", "malformed", "badtime"}

\* The UIDs that the API server gives out differ, and are bounded.
ASSUME APAssumption ==
  /\ \A p \in APPolicies : p.form \in Forms
  /\ \A l \in APLogConfs : l.form \in Forms
  /\ \A s \in APUserSigs : s.form \in Forms /\ s.created \in Nat /\ s.uid \in Nat
  /\ \A s, t \in APUserSigs : s.uid = t.uid => s.name = t.name

NoUserSigChange == [op |-> "none"]

-----------------------------------------------------------------------------
(* Creation *)

\* createAppProtectPolicyEx, with validateRequiredFields and buildRevTimes.
CreatePolicyEx(o) ==
  [obj |-> o, reqs |-> IF o.form = "ok" THEN o.reqs ELSE {},
   error |-> CASE o.form = "malformed" -> "failedValidation"
               [] o.form = "badtime" -> "invalidTimestamp"
               [] OTHER -> "none"]

CreateLogConfEx(o) ==
  [obj |-> o, error |-> IF o.form = "ok" THEN "none" ELSE "failedValidation"]

\* createAppProtectUserSigEx: a rejected signature keeps no tag.
CreateUserSigEx(o) ==
  [obj |-> o,
   tag |-> IF o.form = "ok" THEN o.tag ELSE NoTag,
   rev |-> IF o.form = "ok" THEN o.rev ELSE NoTime,
   error |-> CASE o.form = "malformed" -> "failedValidation"
               [] o.form = "badtime" -> "invalidTimestamp"
               [] OTHER -> "none"]

IsValid(ex) == ex.error = "none"

-----------------------------------------------------------------------------
(* Signature requirements *)

\* isReqSatisfiedByUserSig.  A dated signature does not meet a requirement
\* without bounds: RevTimes is never nil.
SatisfiedBy(req, tag, rev) ==
  /\ tag # NoTag /\ tag = req.tag
  /\ \/ rev = NoTime
     \/ /\ req.min # NoTime \/ req.max # NoTime
        /\ req.max # NoTime => rev < req.max
        /\ req.min # NoTime => rev > req.min

\* verifyPolicyAgainstUserSigs
Verified(policy, sigs) ==
  \A req \in policy.reqs :
    \E k \in DOMAIN sigs :
      IsValid(sigs[k]) /\ SatisfiedBy(req, sigs[k].tag, sigs[k].rev)

-----------------------------------------------------------------------------
(* Reconciliation after a change of the signatures *)

\* detectDuplicateTags: the signatures that compete for a tag.
Competitors(sigs, tag) ==
  {k \in DOMAIN sigs :
     sigs[k].tag = tag /\ sigs[k].error # "failedValidation"}

\* appProtectUserSigSlice.Less puts the winner first.
Wins1(sigs, k, j) == Wins(sigs[k].obj, sigs[j].obj)

\* Mutant: the losers are marked, a loser that becomes the winner is not cleared.
ReconcileKeepsLosers(sigs) ==
  [k \in DOMAIN sigs |->
     LET rivals == Competitors(sigs, sigs[k].tag)
     IN IF sigs[k].tag = NoTag \/ k \notin rivals
             \/ \A j \in rivals \ {k} : Wins1(sigs, k, j)
          THEN sigs[k]
          ELSE IF IsValid(sigs[k]) THEN [sigs[k] EXCEPT !.error = "duplicateTag"]
                 ELSE sigs[k]]

\* reconcileUserSigs: of the competitors for a tag the winner becomes valid
\* and the others, if they are valid, duplicates.
Reconcile(sigs) ==
  [k \in DOMAIN sigs |->
     LET rivals == Competitors(sigs, sigs[k].tag)
     IN IF sigs[k].tag = NoTag \/ k \notin rivals THEN sigs[k]
        ELSE IF \A j \in rivals \ {k} : Wins1(sigs, k, j)
          THEN [sigs[k] EXCEPT !.error = "none"]
          ELSE IF IsValid(sigs[k]) THEN [sigs[k] EXCEPT !.error = "duplicateTag"]
                 ELSE sigs[k]]

\* verifyPolicies
Verify(pols, sigs) ==
  [k \in DOMAIN pols |->
     IF pols[k].error = "missingUserSig" /\ Verified(pols[k], sigs)
       THEN [pols[k] EXCEPT !.error = "none"]
     ELSE IF IsValid(pols[k]) /\ ~Verified(pols[k], sigs)
       THEN [pols[k] EXCEPT !.error = "missingUserSig"]
     ELSE pols[k]]

ValidKeys(map) == {k \in DOMAIN map : IsValid(map[k])}
Objects1(map, keys) == {map[k].obj : k \in keys}

\* buildUserSigChangeAndProblems: UserSigs is overwritten with all valid ones.
BuildUserSigChange(sigs, pols) ==
  [op |-> "userSigs",
   PolicyDeletions |-> ValidKeys(policies) \ ValidKeys(pols),
   PolicyAddsOrUpdates |-> ValidKeys(pols) \ ValidKeys(policies),
   UserSigs |-> Objects1(sigs, ValidKeys(sigs))]

Set(map, key, value) ==
  [k \in DOMAIN map \cup {key} |-> IF k = key THEN value ELSE map[k]]
Unset(map, key) == [k \in DOMAIN map \ {key} |-> map[k]]

ReconcileAll(sigs) ==
  /\ userSigs' = Reconcile(sigs)
  /\ policies' = Verify(policies, userSigs')
  /\ apChange' = BuildUserSigChange(userSigs', policies')
  /\ UNCHANGED logConfs

-----------------------------------------------------------------------------
(* Operations *)

Change(op, kind, name) == [op |-> op, kind |-> kind, name |-> name]

AddOrUpdatePolicy(o) ==
  LET ex == CreatePolicyEx(o)
      checked == IF IsValid(ex) /\ ~Verified(ex, userSigs)
                   THEN [ex EXCEPT !.error = "missingUserSig"] ELSE ex
  IN /\ policies' = Set(policies, o.name, checked)
     /\ apChange' = Change(IF IsValid(checked) THEN "AddOrUpdate" ELSE "Delete",
                           "APPolicy", o.name)
     /\ UNCHANGED <<logConfs, userSigs>>

AddOrUpdateLogConf(o) ==
  LET ex == CreateLogConfEx(o)
  IN /\ logConfs' = Set(logConfs, o.name, ex)
     /\ apChange' = Change(IF IsValid(ex) THEN "AddOrUpdate" ELSE "Delete",
                           "APLogConf", o.name)
     /\ UNCHANGED <<policies, userSigs>>

AddOrUpdateUserSig(o) ==
  ReconcileAll(Set(userSigs, o.name, CreateUserSigEx(o)))

DeletePolicy(name) ==
  /\ policies' = Unset(policies, name)
  /\ apChange' = IF name \in DOMAIN policies
                   THEN Change("Delete", "APPolicy", name) ELSE NoUserSigChange
  /\ UNCHANGED <<logConfs, userSigs>>

DeleteLogConf(name) ==
  /\ logConfs' = Unset(logConfs, name)
  /\ apChange' = IF name \in DOMAIN logConfs
                   THEN Change("Delete", "APLogConf", name) ELSE NoUserSigChange
  /\ UNCHANGED <<policies, userSigs>>

\* A signature that is not stored gives the empty UserSigChange, which
\* RefreshAppProtectUserSigs takes for "no signatures".
DeleteUserSig(name) ==
  IF name \in DOMAIN userSigs
    THEN ReconcileAll(Unset(userSigs, name))
    ELSE /\ apChange' = [op |-> "userSigs", PolicyDeletions |-> {},
                         PolicyAddsOrUpdates |-> {}, UserSigs |-> {}]
         /\ UNCHANGED <<policies, logConfs, userSigs>>

-----------------------------------------------------------------------------
(* Specification *)

APInit ==
  /\ policies = <<>> /\ logConfs = <<>> /\ userSigs = <<>>
  /\ apChange = NoUserSigChange

APNext ==
  \/ \E o \in APPolicies : AddOrUpdatePolicy(o)
  \/ \E o \in APLogConfs : AddOrUpdateLogConf(o)
  \/ \E o \in APUserSigs : AddOrUpdateUserSig(o)
  \/ \E n \in PolicyNames : DeletePolicy(n)
  \/ \E n \in LogConfNames : DeleteLogConf(n)
  \/ \E n \in UserSigNames : DeleteUserSig(n)

APSpec == APInit /\ [][APNext]_apVars

-----------------------------------------------------------------------------
(* Properties *)

Meets(req, sig) == SatisfiedBy(req, sig.tag, sig.rev)

Abs == INSTANCE AppProtectAbstract WITH
         storedPolicies <- [k \in DOMAIN policies |-> policies[k].obj],
         storedSigs <- [k \in DOMAIN userSigs |-> userSigs[k].obj],
         inForce <- ValidKeys(policies),
         active <- ValidKeys(userSigs)

\* The incremental bookkeeping (reconcileUserSigs, verifyPolicies) never drifts
\* from the objects: after any sequence of calls, the signatures and policies in
\* force are those that AppProtectAbstract derives from what is stored.
APRefines == Abs!Spec
=============================================================================
