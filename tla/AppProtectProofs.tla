-------------------------- MODULE AppProtectProofs --------------------------
(***************************************************************************)
(* The App Protect configuration implements AppProtectAbstract, for any    *)
(* policies, log configurations and signatures.                            *)
(***************************************************************************)
EXTENDS AppProtect, TLAPS

Objs(map) == [k \in DOMAIN map |-> map[k].obj]

\* A stored signature as it was created, whatever became of its error.
SigCreated(sigs) ==
  /\ sigs = [k \in DOMAIN sigs |-> sigs[k]]
  /\ \A k \in DOMAIN sigs :
       /\ sigs[k].obj \in APUserSigs
       /\ sigs[k] = [CreateUserSigEx(sigs[k].obj) EXCEPT !.error = sigs[k].error]

\* What Reconcile needs: only a well-formed signature with a tag is a duplicate.
SigErrors(sigs) ==
  \A k \in DOMAIN sigs :
    \/ sigs[k].error = CreateUserSigEx(sigs[k].obj).error
    \/ sigs[k].obj.form = "ok" /\ sigs[k].obj.tag # NoTag /\ sigs[k].error = "duplicateTag"

PolicyCreated(pols) ==
  /\ pols = [k \in DOMAIN pols |-> pols[k]]
  /\ \A k \in DOMAIN pols :
       /\ pols[k].obj \in APPolicies
       /\ pols[k] = [CreatePolicyEx(pols[k].obj) EXCEPT !.error = pols[k].error]

\* A policy that is well formed lacks a signature or nothing.
PolicyErrors(pols) ==
  \A k \in DOMAIN pols :
    \/ pols[k].error = CreatePolicyEx(pols[k].obj).error
    \/ pols[k].obj.form = "ok" /\ pols[k].error = "missingUserSig"

SigsOK == SigCreated(userSigs) /\ SigErrors(userSigs)
PoliciesOK == PolicyCreated(policies) /\ PolicyErrors(policies)

\* The inductive invariant: nothing stored has been altered but its error, and
\* what is valid is what the abstract specification derives.
APInv ==
  /\ SigsOK /\ PoliciesOK
  /\ ValidKeys(userSigs) = Abs!Active(Objs(userSigs))
  /\ ValidKeys(policies) = Abs!InForce(Objs(policies), Objs(userSigs))

-----------------------------------------------------------------------------
(* The operators *)

\* chooseObjectMetaWinner and the abstract order of seniority agree.
LEMMA WinsIsSenior ==
  ASSUME NEW s \in APUserSigs, NEW t \in APUserSigs
  PROVE  Wins(s, t) <=> Abs!Senior(s, t)
BY APAssumption DEF APAssumption, Wins, Abs!Senior

\* reconcileUserSigs alters errors only, and leaves the active signatures valid.
LEMMA ReconcileActive ==
  ASSUME NEW sigs, SigCreated(sigs), SigErrors(sigs)
  PROVE  /\ SigCreated(Reconcile(sigs)) /\ SigErrors(Reconcile(sigs))
         /\ Objs(Reconcile(sigs)) = Objs(sigs)
         /\ ValidKeys(Reconcile(sigs)) = Abs!Active(Objs(sigs))
<1> DEFINE new == Reconcile(sigs)
           first(k) == \A j \in Competitors(sigs, sigs[k].tag) \ {k} : Wins1(sigs, k, j)
<1>1. DOMAIN new = DOMAIN sigs /\ DOMAIN Objs(sigs) = DOMAIN sigs
      /\ \A k \in DOMAIN sigs : Objs(sigs)[k] = sigs[k].obj
  BY DEF Reconcile, Objs
<1>2. ASSUME NEW k \in DOMAIN sigs
      PROVE  /\ sigs[k].obj \in APUserSigs /\ sigs[k].obj.form \in Forms
             /\ sigs[k] = [obj |-> sigs[k].obj, tag |-> sigs[k].tag, rev |-> sigs[k].rev,
                           error |-> sigs[k].error]
             /\ sigs[k].tag = IF sigs[k].obj.form = "ok" THEN sigs[k].obj.tag ELSE NoTag
             /\ sigs[k].obj.form = "ok" => sigs[k].error \in {"none", "duplicateTag"}
             /\ sigs[k].obj.form = "ok" /\ sigs[k].tag = NoTag => sigs[k].error = "none"
             /\ sigs[k].obj.form # "ok" => sigs[k].error \in {"failedValidation", "invalidTimestamp"}
  <2>1. sigs[k].obj \in APUserSigs /\ sigs[k] = [CreateUserSigEx(sigs[k].obj) EXCEPT !.error = sigs[k].error]
    BY DEF SigCreated
  <2>2. sigs[k].obj.form \in Forms
    BY <2>1, APAssumption DEF APAssumption
  <2>3. /\ sigs[k] = [obj |-> sigs[k].obj, tag |-> sigs[k].tag, rev |-> sigs[k].rev,
                      error |-> sigs[k].error]
        /\ sigs[k].tag = IF sigs[k].obj.form = "ok" THEN sigs[k].obj.tag ELSE NoTag
    BY <2>1 DEF CreateUserSigEx
  <2>4. \/ sigs[k].error = CreateUserSigEx(sigs[k].obj).error
        \/ sigs[k].obj.form = "ok" /\ sigs[k].obj.tag # NoTag /\ sigs[k].error = "duplicateTag"
    BY DEF SigErrors
  <2>5. CASE sigs[k].obj.form = "ok"
    <3>1. CreateUserSigEx(sigs[k].obj).error = "none"
      BY <2>5 DEF CreateUserSigEx
    <3> QED
      BY <2>1, <2>2, <2>3, <2>4, <2>5, <3>1
  <2>6. CASE sigs[k].obj.form # "ok"
    <3>1. CreateUserSigEx(sigs[k].obj).error \in {"failedValidation", "invalidTimestamp"}
      BY <2>2, <2>6 DEF CreateUserSigEx, Forms
    <3> QED
      BY <2>1, <2>2, <2>3, <2>4, <2>6, <3>1
  <2> QED
    BY <2>5, <2>6
<1>3. ASSUME NEW k \in DOMAIN sigs, sigs[k].obj.form = "ok", sigs[k].tag # NoTag
      PROVE  /\ Competitors(sigs, sigs[k].tag)
                  = {j \in DOMAIN sigs : sigs[j].obj.form = "ok" /\ sigs[j].obj.tag = sigs[k].obj.tag}
             /\ k \in Competitors(sigs, sigs[k].tag)
  <2>1. ASSUME NEW j \in DOMAIN sigs
        PROVE  (sigs[j].tag = sigs[k].tag /\ sigs[j].error # "failedValidation")
                 <=> (sigs[j].obj.form = "ok" /\ sigs[j].obj.tag = sigs[k].obj.tag)
    BY <1>2, <1>3
  <2> QED
    BY <2>1, <1>3 DEF Competitors
<1>4. ASSUME NEW k \in DOMAIN sigs
      PROVE  /\ new[k] = [sigs[k] EXCEPT !.error = new[k].error]
             /\ new[k].error = IF sigs[k].obj.form # "ok" \/ sigs[k].tag = NoTag THEN sigs[k].error
                               ELSE IF first(k) THEN "none" ELSE "duplicateTag"
  <2>1. CASE sigs[k].obj.form # "ok" \/ sigs[k].tag = NoTag
    <3>1. new[k] = sigs[k]
      BY <2>1, <1>2 DEF Reconcile
    <3> QED
      BY <3>1, <2>1, <1>2
  <2>2. CASE sigs[k].obj.form = "ok" /\ sigs[k].tag # NoTag
    <3>1. new[k] = IF first(k) THEN [sigs[k] EXCEPT !.error = "none"]
                   ELSE IF IsValid(sigs[k]) THEN [sigs[k] EXCEPT !.error = "duplicateTag"]
                   ELSE sigs[k]
      BY <2>2, <1>3 DEF Reconcile
    <3> HIDE DEF first
    <3> QED
      BY <3>1, <2>2, <1>2 DEF IsValid
  <2> QED
    BY <2>1, <2>2
<1> HIDE DEF new
<1>5. ASSUME NEW k \in DOMAIN sigs
      PROVE  new[k].obj = sigs[k].obj /\ new[k].tag = sigs[k].tag /\ new[k].rev = sigs[k].rev
  <2>1. new[k] = [sigs[k] EXCEPT !.error = new[k].error]
    BY <1>4, Zenon
  <2>2. sigs[k] = [obj |-> sigs[k].obj, tag |-> sigs[k].tag, rev |-> sigs[k].rev,
                   error |-> sigs[k].error]
    BY <1>2, Zenon
  <2> QED
    BY <2>1, <2>2
<1>6. new = [k \in DOMAIN new |-> new[k]]
  BY DEF new, Reconcile
<1>7. SigCreated(new)
  <2>1. ASSUME NEW k \in DOMAIN sigs
        PROVE  new[k] = [CreateUserSigEx(new[k].obj) EXCEPT !.error = new[k].error]
    <3>1. sigs[k] = [CreateUserSigEx(sigs[k].obj) EXCEPT !.error = sigs[k].error]
      BY DEF SigCreated
    <3>2. new[k] = [[CreateUserSigEx(sigs[k].obj) EXCEPT !.error = sigs[k].error] EXCEPT !.error = new[k].error]
      BY <3>1, <1>4
    <3>3. [[CreateUserSigEx(sigs[k].obj) EXCEPT !.error = sigs[k].error] EXCEPT !.error = new[k].error]
            = [CreateUserSigEx(sigs[k].obj) EXCEPT !.error = new[k].error]
      BY DEF CreateUserSigEx
    <3>4. new[k].obj = sigs[k].obj
      BY <1>5
    <3> QED
      BY <3>2, <3>3, <3>4, Zenon
  <2>2. \A k \in DOMAIN sigs : new[k].obj \in APUserSigs
    BY <1>2, <1>5
  <2> QED
    BY <2>1, <2>2, <1>1, <1>6 DEF SigCreated
<1>8. SigErrors(new)
  BY <1>1, <1>2, <1>4, <1>5 DEF SigErrors, CreateUserSigEx
<1>9. Objs(new) = Objs(sigs)
  BY <1>1, <1>5 DEF Objs
<1>10. ASSUME NEW k \in DOMAIN sigs, sigs[k].obj.form = "ok", sigs[k].tag # NoTag
       PROVE  first(k) <=> \A j \in DOMAIN sigs \ {k} :
                 sigs[j].obj.form = "ok" /\ sigs[j].obj.tag = sigs[k].obj.tag => Abs!Senior(sigs[k].obj, sigs[j].obj)
  <2>1. \A j \in DOMAIN sigs : Wins1(sigs, k, j) <=> Abs!Senior(sigs[k].obj, sigs[j].obj)
    BY <1>2, WinsIsSenior DEF Wins1
  <2> QED
    BY <2>1, <1>3, <1>10
<1>11. ASSUME NEW k \in DOMAIN sigs
       PROVE  new[k].error = "none" <=> k \in Abs!Active(Objs(sigs))
  <2> HIDE DEF first
  <2> QED
    BY <1>1, <1>2, <1>4, <1>10 DEF Abs!Active
<1>12. ValidKeys(new) = Abs!Active(Objs(sigs))
  BY <1>11, <1>1 DEF ValidKeys, IsValid, Abs!Active
<1> QED
  BY <1>7, <1>8, <1>9, <1>12 DEF new

\* verifyPolicyAgainstUserSigs asks for what the abstract specification asks for.
LEMMA VerifiedByActive ==
  ASSUME NEW sigs, SigCreated(sigs), ValidKeys(sigs) = Abs!Active(Objs(sigs)),
         NEW o \in APPolicies, NEW ex, o.form = "ok" => ex.reqs = o.reqs, o.form = "ok"
  PROVE  Verified(ex, sigs)
           <=> \A req \in o.reqs : \E j \in Abs!Active(Objs(sigs)) : Meets(req, Objs(sigs)[j])
<1>1. \A k \in DOMAIN sigs :
        /\ Objs(sigs)[k] = sigs[k].obj
        /\ k \in Abs!Active(Objs(sigs)) <=> IsValid(sigs[k])
  BY DEF Objs, ValidKeys
<1>2. \A k \in Abs!Active(Objs(sigs)) : k \in DOMAIN sigs /\ sigs[k].obj.form = "ok"
  BY DEF Abs!Active, Objs
<1>3. \A k \in DOMAIN sigs : sigs[k].obj.form = "ok" =>
         sigs[k].tag = sigs[k].obj.tag /\ sigs[k].rev = sigs[k].obj.rev
  BY DEF SigCreated, CreateUserSigEx
<1>4. \A req, k : k \in Abs!Active(Objs(sigs)) =>
         (Meets(req, Objs(sigs)[k]) <=> SatisfiedBy(req, sigs[k].tag, sigs[k].rev))
  BY <1>1, <1>2, <1>3 DEF Meets
<1> QED
  BY <1>1, <1>2, <1>4 DEF Verified

\* verifyPolicies alters errors only, and leaves the policies in force valid.
LEMMA VerifyInForce ==
  ASSUME NEW sigs, SigCreated(sigs), ValidKeys(sigs) = Abs!Active(Objs(sigs)),
         NEW pols, PolicyCreated(pols), PolicyErrors(pols)
  PROVE  /\ PolicyCreated(Verify(pols, sigs)) /\ PolicyErrors(Verify(pols, sigs))
         /\ Objs(Verify(pols, sigs)) = Objs(pols)
         /\ ValidKeys(Verify(pols, sigs)) = Abs!InForce(Objs(pols), Objs(sigs))
<1> DEFINE new == Verify(pols, sigs)
<1>1. DOMAIN new = DOMAIN pols /\ DOMAIN Objs(pols) = DOMAIN pols
      /\ new = [k \in DOMAIN new |-> new[k]]
      /\ \A k \in DOMAIN pols : Objs(pols)[k] = pols[k].obj
  BY DEF Verify, Objs
<1>2. ASSUME NEW k \in DOMAIN pols
      PROVE  /\ pols[k].obj \in APPolicies /\ pols[k].obj.form \in Forms
             /\ pols[k] = [obj |-> pols[k].obj, reqs |-> pols[k].reqs, error |-> pols[k].error]
             /\ pols[k].obj.form = "ok" => pols[k].reqs = pols[k].obj.reqs
             /\ pols[k].obj.form = "ok" => pols[k].error \in {"none", "missingUserSig"}
             /\ pols[k].obj.form # "ok" => pols[k].error \in {"failedValidation", "invalidTimestamp"}
  BY APAssumption DEF PolicyCreated, PolicyErrors, CreatePolicyEx, APAssumption, Forms
<1>3. ASSUME NEW k \in DOMAIN pols
      PROVE  /\ new[k] = [pols[k] EXCEPT !.error = new[k].error]
             /\ new[k].error = IF pols[k].obj.form # "ok" THEN pols[k].error
                               ELSE IF Verified(pols[k], sigs) THEN "none" ELSE "missingUserSig"
  <2>1. new[k] = IF pols[k].error = "missingUserSig" /\ Verified(pols[k], sigs)
                   THEN [pols[k] EXCEPT !.error = "none"]
                 ELSE IF IsValid(pols[k]) /\ ~Verified(pols[k], sigs)
                   THEN [pols[k] EXCEPT !.error = "missingUserSig"]
                 ELSE pols[k]
    BY DEF Verify
  <2> QED
    BY <2>1, <1>2 DEF IsValid
<1> HIDE DEF new
<1>4. \A k \in DOMAIN pols : new[k].obj = pols[k].obj /\ new[k].reqs = pols[k].reqs
  BY <1>2, <1>3
<1>5. PolicyCreated(new)
  <2>1. ASSUME NEW k \in DOMAIN pols
        PROVE  new[k] = [CreatePolicyEx(new[k].obj) EXCEPT !.error = new[k].error]
    <3>1. pols[k] = [CreatePolicyEx(pols[k].obj) EXCEPT !.error = pols[k].error]
      BY DEF PolicyCreated
    <3>2. new[k] = [[CreatePolicyEx(pols[k].obj) EXCEPT !.error = pols[k].error] EXCEPT !.error = new[k].error]
      BY <3>1, <1>3
    <3> QED
      BY <3>2, <1>4 DEF CreatePolicyEx
  <2> QED
    BY <2>1, <1>1, <1>2, <1>4 DEF PolicyCreated
<1>6. PolicyErrors(new)
  BY <1>1, <1>2, <1>3, <1>4 DEF PolicyErrors, CreatePolicyEx
<1>7. Objs(new) = Objs(pols)
  BY <1>1, <1>4 DEF Objs
<1>8. ASSUME NEW k \in DOMAIN pols
      PROVE  new[k].error = "none" <=> k \in Abs!InForce(Objs(pols), Objs(sigs))
  <2>1. CASE pols[k].obj.form # "ok"
    BY <2>1, <1>1, <1>2, <1>3 DEF Abs!InForce
  <2>2. CASE pols[k].obj.form = "ok"
    <3>1. Verified(pols[k], sigs)
            <=> \A req \in pols[k].obj.reqs :
                  \E j \in Abs!Active(Objs(sigs)) : Meets(req, Objs(sigs)[j])
      BY <2>2, <1>2, VerifiedByActive
    <3> QED
      BY <3>1, <2>2, <1>1, <1>3 DEF Abs!InForce
  <2> QED
    BY <2>1, <2>2
<1>9. ValidKeys(new) = Abs!InForce(Objs(pols), Objs(sigs))
  BY <1>8, <1>1 DEF ValidKeys, IsValid, Abs!InForce
<1> QED
  BY <1>5, <1>6, <1>7, <1>9 DEF new

-----------------------------------------------------------------------------
(* The operations *)

\* Storing a signature, or removing one, leaves what Reconcile needs.
LEMMA SetSig ==
  ASSUME SigsOK, NEW o \in APUserSigs
  PROVE  LET new == Set(userSigs, o.name, CreateUserSigEx(o))
         IN SigCreated(new) /\ SigErrors(new) /\ Abs!OneKey(Objs(userSigs), Objs(new))
<1> DEFINE new == Set(userSigs, o.name, CreateUserSigEx(o))
<1>1. /\ DOMAIN new = DOMAIN userSigs \cup {o.name}
      /\ new = [k \in DOMAIN new |-> new[k]]
      /\ \A k \in DOMAIN new : new[k] = IF k = o.name THEN CreateUserSigEx(o) ELSE userSigs[k]
  BY DEF Set
<1> HIDE DEF new
<1>2. CreateUserSigEx(o).obj = o
      /\ CreateUserSigEx(o) = [CreateUserSigEx(o) EXCEPT !.error = CreateUserSigEx(o).error]
  BY DEF CreateUserSigEx
<1>3. SigCreated(new)
  BY <1>1, <1>2 DEF SigsOK, SigCreated
<1>4. SigErrors(new)
  BY <1>1, <1>2 DEF SigsOK, SigErrors
<1>5. Abs!OneKey(Objs(userSigs), Objs(new))
  BY <1>1 DEF Abs!OneKey, Objs
<1> QED
  BY <1>3, <1>4, <1>5 DEF new

\* Removing a signature (DeleteUserSig).
LEMMA UnsetSig ==
  ASSUME SigsOK, NEW name \in DOMAIN userSigs
  PROVE  LET new == Unset(userSigs, name)
         IN SigCreated(new) /\ SigErrors(new) /\ Abs!OneKey(Objs(userSigs), Objs(new))
<1> DEFINE new == Unset(userSigs, name)
<1>1. /\ DOMAIN new = DOMAIN userSigs \ {name}
      /\ new = [k \in DOMAIN new |-> new[k]]
      /\ \A k \in DOMAIN new : new[k] = userSigs[k]
  BY DEF Unset
<1> HIDE DEF new
<1>2. SigCreated(new)
  BY <1>1 DEF SigsOK, SigCreated
<1>3. SigErrors(new)
  BY <1>1 DEF SigsOK, SigErrors
<1>4. Abs!OneKey(Objs(userSigs), Objs(new))
  BY <1>1 DEF Abs!OneKey, Objs
<1> QED
  BY <1>2, <1>3, <1>4 DEF new

\* The same for policies: what is stored and what is in force.
LEMMA SetPolicy ==
  ASSUME APInv, NEW o \in APPolicies, AddOrUpdatePolicy(o)
  PROVE  /\ PoliciesOK'
         /\ ValidKeys(policies') = Abs!InForce(Objs(policies'), Objs(userSigs))
         /\ Abs!OneKey(Objs(policies), Objs(policies'))
<1> DEFINE ex == CreatePolicyEx(o)
           checked == IF IsValid(ex) /\ ~Verified(ex, userSigs)
                        THEN [ex EXCEPT !.error = "missingUserSig"] ELSE ex
<1>1. policies' = Set(policies, o.name, checked)
  BY DEF AddOrUpdatePolicy
<1>2. /\ DOMAIN policies' = DOMAIN policies \cup {o.name}
      /\ policies' = [k \in DOMAIN policies' |-> policies'[k]]
      /\ \A k \in DOMAIN policies' : policies'[k] = IF k = o.name THEN checked ELSE policies[k]
  <2> HIDE DEF checked
  <2> QED
    BY <1>1 DEF Set
<1>3. /\ checked = [CreatePolicyEx(checked.obj) EXCEPT !.error = checked.error]
      /\ checked.obj = o
      /\ \/ checked.error = CreatePolicyEx(checked.obj).error
         \/ checked.obj.form = "ok" /\ checked.error = "missingUserSig"
      /\ IsValid(checked) <=> o.form = "ok" /\ Verified(ex, userSigs)
  <2>1. /\ ex = [obj |-> o, reqs |-> ex.reqs, error |-> ex.error]
        /\ ex = CreatePolicyEx(o)
        /\ ex.error = "none" <=> o.form = "ok"
        /\ CreatePolicyEx(o) = [CreatePolicyEx(o) EXCEPT !.error = CreatePolicyEx(o).error]
    BY APAssumption DEF CreatePolicyEx, APAssumption, Forms
  <2> HIDE DEF ex
  <2>2. CASE IsValid(ex) /\ ~Verified(ex, userSigs)
    <3>1. checked = [obj |-> o, reqs |-> ex.reqs, error |-> "missingUserSig"]
      BY <2>1, <2>2
    <3> QED
      BY <3>1, <2>1, <2>2 DEF IsValid
  <2>3. CASE ~(IsValid(ex) /\ ~Verified(ex, userSigs))
    <3>1. checked = ex
      BY <2>3
    <3>2. checked.obj = o
      BY <3>1, <2>1
    <3> HIDE DEF checked
    <3>3. checked = [CreatePolicyEx(checked.obj) EXCEPT !.error = checked.error]
      BY <3>1, <3>2, <2>1
    <3>4. IsValid(checked) <=> o.form = "ok" /\ Verified(ex, userSigs)
      BY <3>1, <2>1, <2>3 DEF IsValid
    <3>5. checked.error = CreatePolicyEx(checked.obj).error
      BY <3>1, <3>2, <2>1
    <3> QED
      BY <3>2, <3>3, <3>4, <3>5
  <2> QED
    BY <2>2, <2>3
<1>4. o.form = "ok" =>
        (Verified(ex, userSigs) <=>
           \A req \in o.reqs : \E j \in Abs!Active(Objs(userSigs)) : Meets(req, Objs(userSigs)[j]))
  <2>1. o.form = "ok" => ex.reqs = o.reqs
    BY DEF CreatePolicyEx
  <2> HIDE DEF ex
  <2> QED
    BY <2>1, VerifiedByActive DEF APInv, SigsOK
<1> HIDE DEF ex, checked
<1>5. PoliciesOK'
  BY <1>2, <1>3 DEF APInv, PoliciesOK, PolicyCreated, PolicyErrors
<1>6. /\ DOMAIN Objs(policies') = DOMAIN policies'
      /\ \A k \in DOMAIN policies' : Objs(policies')[k] = IF k = o.name THEN o ELSE policies[k].obj
      /\ DOMAIN Objs(policies) = DOMAIN policies
      /\ \A k \in DOMAIN policies : Objs(policies)[k] = policies[k].obj
  BY <1>2, <1>3 DEF Objs
<1>7. Abs!OneKey(Objs(policies), Objs(policies'))
  BY <1>2, <1>6 DEF Abs!OneKey
<1>8. ASSUME NEW k \in DOMAIN policies'
      PROVE  k \in ValidKeys(policies') <=> k \in Abs!InForce(Objs(policies'), Objs(userSigs))
  <2>1. CASE k = o.name
    BY <2>1, <1>2, <1>3, <1>4, <1>6 DEF ValidKeys, Abs!InForce
  <2>2. CASE k # o.name
    <3>1. k \in ValidKeys(policies) <=> k \in Abs!InForce(Objs(policies), Objs(userSigs))
      BY DEF APInv
    <3> QED
      BY <3>1, <2>2, <1>2, <1>6 DEF ValidKeys, Abs!InForce
  <2> QED
    BY <2>1, <2>2
<1>9. ValidKeys(policies') = Abs!InForce(Objs(policies'), Objs(userSigs))
  BY <1>8, <1>6 DEF ValidKeys, Abs!InForce
<1> QED
  BY <1>5, <1>7, <1>9

\* Removing a policy (DeletePolicy).
LEMMA UnsetPolicy ==
  ASSUME APInv, NEW name \in DOMAIN policies, policies' = Unset(policies, name)
  PROVE  /\ PoliciesOK'
         /\ ValidKeys(policies') = Abs!InForce(Objs(policies'), Objs(userSigs))
         /\ Abs!OneKey(Objs(policies), Objs(policies'))
<1>1. /\ DOMAIN policies' = DOMAIN policies \ {name}
      /\ policies' = [k \in DOMAIN policies' |-> policies'[k]]
      /\ \A k \in DOMAIN policies' : policies'[k] = policies[k]
  BY DEF Unset
<1>2. PoliciesOK'
  BY <1>1 DEF APInv, PoliciesOK, PolicyCreated, PolicyErrors
<1>3. Abs!OneKey(Objs(policies), Objs(policies'))
  BY <1>1 DEF Abs!OneKey, Objs
<1>4. ASSUME NEW k \in DOMAIN policies'
      PROVE  k \in ValidKeys(policies') <=> k \in Abs!InForce(Objs(policies'), Objs(userSigs))
  <2>1. k \in ValidKeys(policies) <=> k \in Abs!InForce(Objs(policies), Objs(userSigs))
    BY DEF APInv
  <2> QED
    BY <2>1, <1>1 DEF ValidKeys, Abs!InForce, Objs
<1>5. DOMAIN Objs(policies') = DOMAIN policies'
  BY DEF Objs
<1>6. ValidKeys(policies') = Abs!InForce(Objs(policies'), Objs(userSigs))
  BY <1>4, <1>5 DEF ValidKeys, Abs!InForce
<1> QED
  BY <1>2, <1>3, <1>6

\* A reconciliation after one signature changed is a step of the abstract
\* specification (AddOrUpdateUserSig, DeleteUserSig).
LEMMA ReconcileStep ==
  ASSUME APInv, NEW sigs, SigCreated(sigs), SigErrors(sigs),
         Abs!OneKey(Objs(userSigs), Objs(sigs)), ReconcileAll(sigs)
  PROVE  APInv' /\ Abs!Next
<1>1. userSigs' = Reconcile(sigs) /\ policies' = Verify(policies, userSigs')
  BY DEF ReconcileAll
<1>2. /\ SigsOK' /\ Objs(userSigs') = Objs(sigs)
      /\ ValidKeys(userSigs') = Abs!Active(Objs(userSigs'))
  BY <1>1, ReconcileActive DEF SigsOK
<1>3. /\ PoliciesOK' /\ Objs(policies') = Objs(policies)
      /\ ValidKeys(policies') = Abs!InForce(Objs(policies'), Objs(userSigs'))
  BY <1>1, <1>2, VerifyInForce DEF SigsOK, APInv, PoliciesOK
<1>4. APInv'
  BY <1>2, <1>3 DEF APInv
<1> QED
  BY <1>2, <1>3, <1>4 DEF Abs!Next, Objs

-----------------------------------------------------------------------------
(* The theorems *)

\* Every operation keeps the invariant, and is a step or a stutter of the
\* abstract specification.
LEMMA APStep ==
  ASSUME APInv, [APNext]_apVars
  PROVE  APInv' /\ [Abs!Next]_(Abs!vars)
<1>1. ASSUME UNCHANGED <<policies, userSigs>>
      PROVE  APInv' /\ UNCHANGED Abs!vars
  BY <1>1 DEF APInv, SigsOK, PoliciesOK, Abs!vars
<1>2. ASSUME UNCHANGED userSigs, PoliciesOK',
             ValidKeys(policies') = Abs!InForce(Objs(policies'), Objs(userSigs)),
             Abs!OneKey(Objs(policies), Objs(policies'))
      PROVE  APInv' /\ Abs!Next
  BY <1>2 DEF APInv, SigsOK, Abs!Next, Objs
<1>3. ASSUME NEW o \in APPolicies, AddOrUpdatePolicy(o)
      PROVE  APInv' /\ Abs!Next
  <2>1. UNCHANGED userSigs
    BY <1>3 DEF AddOrUpdatePolicy
  <2> QED
    BY <2>1, <1>2, <1>3, SetPolicy
<1>4. ASSUME NEW o \in APLogConfs, AddOrUpdateLogConf(o)
      PROVE  APInv' /\ UNCHANGED Abs!vars
  BY <1>1, <1>4 DEF AddOrUpdateLogConf
<1>5. ASSUME NEW o \in APUserSigs, AddOrUpdateUserSig(o)
      PROVE  APInv' /\ Abs!Next
  <2> DEFINE sigs == Set(userSigs, o.name, CreateUserSigEx(o))
  <2>1. SigCreated(sigs) /\ SigErrors(sigs) /\ Abs!OneKey(Objs(userSigs), Objs(sigs))
    BY SetSig DEF APInv
  <2>2. ReconcileAll(sigs)
    BY <1>5 DEF AddOrUpdateUserSig
  <2> HIDE DEF sigs
  <2> QED
    BY <2>1, <2>2, ReconcileStep
<1>6. ASSUME NEW n \in PolicyNames, DeletePolicy(n)
      PROVE  APInv' /\ [Abs!Next]_(Abs!vars)
  <2>1. UNCHANGED userSigs /\ policies' = Unset(policies, n)
    BY <1>6 DEF DeletePolicy
  <2>2. CASE n \in DOMAIN policies
    BY <2>1, <2>2, <1>2, UnsetPolicy
  <2>3. CASE n \notin DOMAIN policies
    <3>1. policies' = policies
      BY <2>1, <2>3 DEF Unset, APInv, PoliciesOK, PolicyCreated
    <3> QED
      BY <3>1, <2>1, <1>1
  <2> QED
    BY <2>2, <2>3
<1>7. ASSUME NEW n \in LogConfNames, DeleteLogConf(n)
      PROVE  APInv' /\ UNCHANGED Abs!vars
  BY <1>1, <1>7 DEF DeleteLogConf
<1>8. ASSUME NEW n \in UserSigNames, DeleteUserSig(n)
      PROVE  APInv' /\ [Abs!Next]_(Abs!vars)
  <2>1. CASE n \in DOMAIN userSigs
    <3> DEFINE sigs == Unset(userSigs, n)
    <3>1. SigCreated(sigs) /\ SigErrors(sigs) /\ Abs!OneKey(Objs(userSigs), Objs(sigs))
      BY <2>1, UnsetSig DEF APInv
    <3>2. ReconcileAll(sigs)
      BY <1>8, <2>1 DEF DeleteUserSig
    <3> HIDE DEF sigs
    <3> QED
      BY <3>1, <3>2, ReconcileStep
  <2>2. CASE n \notin DOMAIN userSigs
    BY <1>1, <1>8, <2>2 DEF DeleteUserSig
  <2> QED
    BY <2>1, <2>2
<1>9. ASSUME UNCHANGED apVars
      PROVE  APInv' /\ UNCHANGED Abs!vars
  BY <1>1, <1>9 DEF apVars
<1> QED
  BY <1>3, <1>4, <1>5, <1>6, <1>7, <1>8, <1>9 DEF APNext

\* A controller that has just started stores nothing.
LEMMA APInitOK ==
  ASSUME APInit
  PROVE  APInv /\ Abs!Init
<1>1. \A f : f = <<>> => f = [k \in DOMAIN f |-> f[k]] /\ DOMAIN f = {} /\ Objs(f) = <<>>
  BY DEF Objs
<1>2. DOMAIN policies = {} /\ DOMAIN userSigs = {} /\ Objs(policies) = <<>> /\ Objs(userSigs) = <<>>
      /\ policies = [k \in DOMAIN policies |-> policies[k]]
      /\ userSigs = [k \in DOMAIN userSigs |-> userSigs[k]]
  BY <1>1 DEF APInit
<1>3. ValidKeys(userSigs) = {} /\ Abs!Active(Objs(userSigs)) = {}
      /\ ValidKeys(policies) = {} /\ Abs!InForce(Objs(policies), Objs(userSigs)) = {}
  BY <1>2 DEF ValidKeys, Abs!Active, Abs!InForce, Objs
<1>4. APInv
  BY <1>2, <1>3 DEF APInv, SigsOK, PoliciesOK, SigCreated, SigErrors, PolicyCreated, PolicyErrors
<1> QED
  BY <1>2, <1>3, <1>4 DEF Abs!Init, Objs

\* The incremental bookkeeping of app_protect_configuration.go is right: after
\* any history of any objects, what is stored was altered in its error only, and
\* the valid signatures and policies are those the stored objects determine.
THEOREM APInvariant == APSpec => []APInv
<1>1. APInit => APInv
  BY APInitOK
<1>2. APInv /\ [APNext]_apVars => APInv'
  BY APStep
<1> QED
  BY <1>1, <1>2, PTL DEF APSpec

\* The App Protect configuration implements its abstract specification, the
\* step of every operation included (AddOrUpdate* and Delete* of
\* app_protect_configuration.go).
THEOREM APRefinement == APSpec => APRefines
<1>1. APInit => Abs!Init
  BY APInitOK
<1>2. APInv /\ [APNext]_apVars => [Abs!Next]_(Abs!vars)
  BY APStep
<1> QED
  BY <1>1, <1>2, APInvariant, PTL DEF APSpec, APRefines, Abs!Spec

\* Two signatures that NGINX App Protect is given never have the same tag,
\* whatever their creation times and UIDs (detectDuplicateTags,
\* reconcileUserSigs).
TagsDiffer ==
  \A k, j \in ValidKeys(userSigs) :
    userSigs[k].tag = userSigs[j].tag => k = j \/ userSigs[k].tag = NoTag

\* NGINX is never given two signature sets with one tag (RefreshAppProtectUserSigs
\* writes the valid ones).
THEOREM NoDuplicateTag == APSpec => []TagsDiffer
<1>1. APInv => TagsDiffer
  <2> SUFFICES ASSUME APInv, NEW k \in ValidKeys(userSigs), NEW j \in ValidKeys(userSigs),
                      userSigs[k].tag = userSigs[j].tag, k # j, userSigs[k].tag # NoTag
               PROVE  FALSE
    BY DEF TagsDiffer
  <2>1. k \in Abs!Active(Objs(userSigs)) /\ j \in Abs!Active(Objs(userSigs))
    BY DEF APInv
  <2>2. ASSUME NEW i \in Abs!Active(Objs(userSigs))
        PROVE  /\ i \in DOMAIN userSigs /\ userSigs[i].obj \in APUserSigs
               /\ userSigs[i].obj.form = "ok" /\ userSigs[i].obj.tag = userSigs[i].tag
    <3>1. i \in DOMAIN userSigs /\ userSigs[i].obj.form = "ok"
      BY DEF Abs!Active, Objs
    <3>2. userSigs[i] = [CreateUserSigEx(userSigs[i].obj) EXCEPT !.error = userSigs[i].error]
          /\ userSigs[i].obj \in APUserSigs
      BY <3>1 DEF APInv, SigsOK, SigCreated
    <3>3. userSigs[i].tag = CreateUserSigEx(userSigs[i].obj).tag
      BY <3>2 DEF CreateUserSigEx
    <3> QED
      BY <3>1, <3>2, <3>3 DEF CreateUserSigEx
  <2>3. Abs!Senior(userSigs[k].obj, userSigs[j].obj) /\ Abs!Senior(userSigs[j].obj, userSigs[k].obj)
    BY <2>1, <2>2 DEF Abs!Active, Objs
  <2> QED
    BY <2>1, <2>2, <2>3, APAssumption DEF APAssumption, Abs!Senior
<1> QED
  BY <1>1, APInvariant, PTL
=============================================================================
