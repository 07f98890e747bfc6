------------------------- MODULE ArbitrationProofs -------------------------
(***************************************************************************)
(* The loop of Arbitration computes the senior claimants, for any set of   *)
(* claimants and any order of the visits.                                  *)
(***************************************************************************)
EXTENDS Arbitration, OperatorProofs, TLAPS

LEMMA ClaimantsRanked == Ranked(Claimants, MaxUID)
BY ClaimantsAssumption DEF Ranked

\* The loop visits every claimant once.
THEOREM ArbitrationType == Spec => []TypeOK
<1>1. Init => TypeOK
  BY DEF Init, TypeOK
<1>2. TypeOK /\ [Next]_vars => TypeOK'
  <2> SUFFICES ASSUME TypeOK, [Next]_vars PROVE TypeOK'
    OBVIOUS
  <2>1. ASSUME NEW o \in Claimants, Begin(o) PROVE TypeOK'
    BY <2>1, ClaimantsAssumption DEF Begin, TypeOK
  <2>2. ASSUME NEW o \in Claimants, Claim(o) PROVE TypeOK'
    <3>1. o.claims \in Seq(Nat) /\ next \in DOMAIN o.claims
      BY <2>2, ClaimantsAssumption DEF Claim, TypeOK
    <3>2. next' \in Nat \ {0} /\ \A c \in current' : next' <= Len(c.claims) + 1
      BY <2>2, <3>1 DEF Claim, TypeOK
    <3>3. holder' = [k \in DOMAIN holder' |-> holder'[k]]
      BY <2>2 DEF Claim, Take, Displace, Lose, TypeOK
    <3> QED
      BY <2>2, <3>2, <3>3 DEF Claim, TypeOK
  <2>3. CASE UNCHANGED vars
    BY <2>3 DEF vars, TypeOK
  <2> QED
    BY <2>1, <2>2, <2>3 DEF Next
<1> QED
  BY <1>1, <1>2, PTL DEF Spec

\* What has been claimed does not change when the loop moves on.
LEMMA BeginClaims ==
  ASSUME TypeOK, NEW o \in Claimants, Begin(o), NEW p \in Claimants, NEW k
  PROVE  /\ Claimed(p, k)' <=> Claimed(p, k)
         /\ ClaimedTwice(p, k)' <=> ClaimedTwice(p, k)
<1>1. p.claims \in Seq(Nat)
  BY ClaimantsAssumption
<1>2. \A i \in DOMAIN p.claims : Reached(p, i)' <=> Reached(p, i)
  <2> SUFFICES ASSUME NEW i \in DOMAIN p.claims PROVE Reached(p, i)' <=> Reached(p, i)
    OBVIOUS
  <2>1. i \in 1..Len(p.claims)
    BY <1>1
  <2>2. CASE p = o
    BY <2>1, <2>2 DEF Begin, Reached, TypeOK
  <2>3. CASE p # o /\ p \in current
    BY <2>1, <2>3, <1>1 DEF Begin, Reached, TypeOK
  <2>4. CASE p # o /\ p \notin current
    BY <2>4 DEF Begin, Reached, TypeOK
  <2> QED
    BY <2>2, <2>3, <2>4
<1> QED
  BY <1>2 DEF Claimed, ClaimedTwice

\* A step adds the claim it is at, and nothing else.
LEMMA ClaimClaims ==
  ASSUME TypeOK, NEW o \in Claimants, Claim(o), NEW p \in Claimants, NEW k
  PROVE  /\ Claimed(p, k)' <=> Claimed(p, k) \/ (p = o /\ k = o.claims[next])
         /\ ClaimedTwice(p, k)' <=>
              ClaimedTwice(p, k) \/ (p = o /\ k = o.claims[next] /\ Claimed(o, k))
<1>1. /\ o \in current /\ next \in 1..Len(o.claims) /\ next' = next + 1
      /\ UNCHANGED <<todo, current>> /\ current = {o} /\ o \notin todo
      /\ next \in Nat /\ DOMAIN o.claims = 1..Len(o.claims)
  BY ClaimantsAssumption DEF Claim, TypeOK
<1>2. CASE p # o
  BY <1>1, <1>2 DEF Claimed, ClaimedTwice, Reached
<1>3. CASE p = o
  <2>1. \A i \in DOMAIN o.claims : Reached(o, i)' <=> Reached(o, i) \/ i = next
    BY <1>1 DEF Reached
  <2>2. \A i \in DOMAIN o.claims : Reached(o, i) <=> i < next
    BY <1>1 DEF Reached
  <2>3. Claimed(o, k)' <=> Claimed(o, k) \/ k = o.claims[next]
    BY <1>1, <2>1 DEF Claimed
  <2>4. ClaimedTwice(o, k)' <=>
          \E i, j \in DOMAIN o.claims :
            i < j /\ o.claims[i] = k /\ o.claims[j] = k /\ (j < next \/ j = next)
    BY <2>1, <2>2 DEF ClaimedTwice
  <2>5. ClaimedTwice(o, k)' <=> ClaimedTwice(o, k) \/ (k = o.claims[next] /\ Claimed(o, k))
    BY <1>1, <2>2, <2>4 DEF ClaimedTwice, Claimed
  <2> QED
    BY <1>3, <2>3, <2>5
<1> QED
  BY <1>2, <1>3

-----------------------------------------------------------------------------
(* Holders *)

\* Moving on preserves both invariants, and so does each way a claim ends.
LEMMA BeginKeeps ==
  ASSUME TypeOK, HeldBySenior, NEW o \in Claimants, Begin(o)
  PROVE  HeldBySenior' /\ (GrantedOrWarned => GrantedOrWarned')
<1>1. UNCHANGED <<holder, granted, warned>>
  BY DEF Begin
<1>2. \A p \in Claimants : \A k : /\ Claimed(p, k)' <=> Claimed(p, k)
                                  /\ ClaimedTwice(p, k)' <=> ClaimedTwice(p, k)
  BY BeginClaims
<1>3. HeldBySenior'
  BY <1>1, <1>2 DEF HeldBySenior
<1>4. GrantedOrWarned => GrantedOrWarned'
  BY <1>1, <1>2 DEF GrantedOrWarned
<1> QED
  BY <1>3, <1>4

LEMMA ClaimKeepsHolders ==
  ASSUME TypeOK, HeldBySenior, NEW o \in Claimants, Claim(o)
  PROVE  HeldBySenior'
<1> DEFINE k == o.claims[next]
<1>1. k \in AllClaims
  <2>1. next \in DOMAIN o.claims
    BY ClaimantsAssumption DEF Claim, TypeOK
  <2> QED
    BY <2>1 DEF AllClaims, ClaimsOf
<1>2. \A p \in Claimants : \A j : Claimed(p, j)' <=> Claimed(p, j) \/ (p = o /\ j = k)
  BY ClaimClaims
<1>3. Take(o, k) \/ Displace(o, k) \/ Lose(o, k)
  BY DEF Claim
<1>4. /\ \A p, q \in Claimants : p # q => (Senior(p, q) <=> ~Wins(q, p))
      /\ \A p, q \in Claimants : Senior(p, q) <=> Wins(p, q)
      /\ \A p, q, r \in Claimants : Senior(p, q) /\ Senior(q, r) => Senior(p, r)
  BY ClaimantsRanked, WinsIsTotalOrder
<1> HIDE DEF k
<1>5. CASE Take(o, k)
  <2>1. \A p \in Claimants : ~Claimed(p, k)
    BY <1>1, <1>5 DEF Take, HeldBySenior
  <2>2. /\ DOMAIN holder' = DOMAIN holder \cup {k} /\ holder'[k] = o
        /\ \A j \in DOMAIN holder \ {k} : holder'[j] = holder[j]
    BY <1>5 DEF Take
  <2> QED
    BY <1>1, <1>2, <2>1, <2>2 DEF HeldBySenior
<1>6. CASE Displace(o, k)
  <2>1. /\ DOMAIN holder' = DOMAIN holder /\ holder'[k] = o /\ k \in DOMAIN holder
        /\ \A j \in DOMAIN holder \ {k} : holder'[j] = holder[j]
        /\ ~Wins(holder[k], o)
    BY <1>6 DEF Displace
  <2>2. holder[k] \in Claimants
        /\ \A p \in Claimants \ {holder[k]} : Claimed(p, k) => Senior(holder[k], p)
    BY <2>1 DEF HeldBySenior
  <2>3. \A p \in Claimants \ {o} : Claimed(p, k) => Senior(o, p)
    BY <2>1, <2>2, <1>4
  <2> QED
    BY <1>1, <1>2, <2>1, <2>3 DEF HeldBySenior
<1>7. CASE Lose(o, k)
  <2>1. UNCHANGED holder /\ k \in DOMAIN holder /\ Wins(holder[k], o)
    BY <1>7 DEF Lose
  <2>2. holder[k] \in Claimants
    BY <2>1 DEF HeldBySenior
  <2>3. Senior(holder[k], o)
    BY <2>1, <2>2, <1>4
  <2> QED
    BY <1>1, <1>2, <2>1, <2>3 DEF HeldBySenior
<1> QED
  BY <1>3, <1>5, <1>6, <1>7

\* At every point of the loop the senior one of those that claimed something
\* holds it, in whatever order the claimants come.
THEOREM HeldBySeniorInvariant == Spec => []HeldBySenior
<1>1. Init => HeldBySenior
  BY DEF Init, HeldBySenior, Claimed, Reached
<1>2. TypeOK /\ HeldBySenior /\ [Next]_vars => HeldBySenior'
  <2> SUFFICES ASSUME TypeOK, HeldBySenior, [Next]_vars PROVE HeldBySenior'
    OBVIOUS
  <2>1. ASSUME NEW o \in Claimants, Begin(o) PROVE HeldBySenior'
    BY <2>1, BeginKeeps
  <2>2. ASSUME NEW o \in Claimants, Claim(o) PROVE HeldBySenior'
    BY <2>2, ClaimKeepsHolders
  <2>3. CASE UNCHANGED vars
    BY <2>3 DEF vars, HeldBySenior, Claimed, Reached
  <2> QED
    BY <2>1, <2>2, <2>3 DEF Next
<1> QED
  BY <1>1, <1>2, ArbitrationType, PTL DEF Spec

\* The loop computes Holder: the holders it ends with do not depend on the
\* order in which it met the claimants.
THEOREM OrderIndependence == Spec => []OrderIndependent
<1>1. TypeOK /\ HeldBySenior => OrderIndependent
  <2> SUFFICES ASSUME TypeOK, HeldBySenior, Through
               PROVE  holder = [k \in AllClaims |-> Holder(ClaimantsOf(k))]
    BY DEF OrderIndependent
  <2>1. \A o \in Claimants : \A k : Claimed(o, k) <=> k \in ClaimsOf(o)
    <3> SUFFICES ASSUME NEW o \in Claimants
                 PROVE  \A i \in DOMAIN o.claims : Reached(o, i)
      BY DEF Claimed, ClaimsOf
    <3> QED
      BY ClaimantsAssumption DEF Through, Reached, TypeOK
  <2>2. DOMAIN holder = AllClaims
    BY <2>1 DEF HeldBySenior, AllClaims
  <2>3. ASSUME NEW k \in AllClaims PROVE holder[k] = Holder(ClaimantsOf(k))
    <3>1. Ranked(ClaimantsOf(k), MaxUID)
      BY ClaimantsRanked DEF Ranked, ClaimantsOf
    <3>2. /\ holder[k] \in ClaimantsOf(k)
          /\ \A p \in ClaimantsOf(k) \ {holder[k]} : Senior(holder[k], p)
      BY <2>1, <2>2 DEF HeldBySenior, ClaimantsOf
    <3> QED
      BY <3>1, <3>2, HolderUnique
  <2>4. holder = [k \in DOMAIN holder |-> holder[k]]
    BY DEF TypeOK
  <2> QED
    BY <2>2, <2>3, <2>4
<1> QED
  BY <1>1, ArbitrationType, HeldBySeniorInvariant, PTL

-----------------------------------------------------------------------------
(* Grants and warnings *)

LEMMA ClaimKeepsMarks ==
  ASSUME TypeOK, HeldBySenior, GrantedOrWarned, NEW o \in Claimants, Claim(o)
  PROVE  GrantedOrWarned'
<1> DEFINE k == o.claims[next]
           Mark(p, j) == /\ <<p, j>> \in granted <=> /\ j \in DOMAIN holder
                                                     /\ holder[j] = p
                                                     /\ ~ClaimedTwice(p, j)
                         /\ <<p, j>> \in warned <=> Claimed(p, j) /\ <<p, j>> \notin granted
<1>1. k \in AllClaims /\ k \in ClaimsOf(o)
  <2>1. next \in DOMAIN o.claims
    BY ClaimantsAssumption DEF Claim, TypeOK
  <2> QED
    BY <2>1 DEF AllClaims, ClaimsOf
<1>2. \A p \in Claimants : \A j :
        /\ Claimed(p, j)' <=> Claimed(p, j) \/ (p = o /\ j = k)
        /\ ClaimedTwice(p, j)' <=> ClaimedTwice(p, j) \/ (p = o /\ j = k /\ Claimed(o, k))
  BY ClaimClaims
<1>3. Take(o, k) \/ Displace(o, k) \/ Lose(o, k)
  BY DEF Claim
<1>4. /\ \A p, q \in Claimants : Senior(p, q) <=> Wins(p, q)
      /\ \A p \in Claimants : ~Wins(p, p)
  BY ClaimantsRanked, WinsIsTotalOrder
<1>5. \A p \in Claimants : \A j : ClaimedTwice(p, j) => Claimed(p, j)
  BY DEF ClaimedTwice, Claimed
<1>6. \A p \in Claimants : \A j \in ClaimsOf(p) : Mark(p, j)
  BY DEF GrantedOrWarned
<1>7. SUFFICES ASSUME NEW p \in Claimants, NEW j \in ClaimsOf(p) PROVE Mark(p, j)'
  BY DEF GrantedOrWarned
<1> HIDE DEF k
<1>8. Claimed(p, j)' <=> Claimed(p, j) \/ (p = o /\ j = k)
  BY <1>2
<1>9. ClaimedTwice(p, j)' <=> ClaimedTwice(p, j) \/ (p = o /\ j = k /\ Claimed(o, k))
  BY <1>2
<1>10. CASE Take(o, k)
  <2>1. /\ DOMAIN holder' = DOMAIN holder \cup {k} /\ holder'[k] = o
        /\ \A i \in DOMAIN holder \ {k} : holder'[i] = holder[i]
        /\ granted' = granted \cup {<<o, k>>} /\ warned' = warned
        /\ k \notin DOMAIN holder
    BY <1>10 DEF Take
  <2>2. \A q \in Claimants : ~Claimed(q, k)
    BY <1>1, <2>1 DEF HeldBySenior
  <2> QED
    BY <2>1, <2>2, <1>5, <1>6, <1>8, <1>9
<1>11. CASE Displace(o, k)
  <2>1. /\ DOMAIN holder' = DOMAIN holder /\ holder'[k] = o
        /\ \A i \in DOMAIN holder \ {k} : holder'[i] = holder[i]
        /\ granted' = (granted \cup {<<o, k>>}) \ {<<holder[k], k>>}
        /\ warned' = warned \cup {<<holder[k], k>>}
        /\ k \in DOMAIN holder /\ ~Wins(holder[k], o)
    BY <1>11 DEF Displace
  <2>2. holder[k] \in Claimants /\ Claimed(holder[k], k)
    BY <2>1 DEF HeldBySenior
  <2>3. holder[k] # o => ~Claimed(o, k)
    BY <2>1, <2>2, <1>4 DEF HeldBySenior
  <2> QED
    BY <2>1, <2>2, <2>3, <1>5, <1>6, <1>8, <1>9
<1>12. CASE Lose(o, k)
  <2>1. /\ UNCHANGED <<holder, granted>> /\ warned' = warned \cup {<<o, k>>}
        /\ k \in DOMAIN holder /\ Wins(holder[k], o)
    BY <1>12 DEF Lose
  <2>2. holder[k] # o
    BY <2>1, <1>4
  <2> QED
    BY <2>1, <2>2, <1>1, <1>6, <1>8, <1>9
<1> QED
  BY <1>3, <1>10, <1>11, <1>12

\* Every claim the loop has met is granted to its holder or warned about,
\* never both and never neither; a claim listed twice is granted to nobody.
THEOREM GrantedOrWarnedInvariant == Spec => []GrantedOrWarned
<1>1. Init => GrantedOrWarned
  BY DEF Init, GrantedOrWarned, Claimed, Reached
<1>2. TypeOK /\ HeldBySenior /\ GrantedOrWarned /\ [Next]_vars => GrantedOrWarned'
  <2> SUFFICES ASSUME TypeOK, HeldBySenior, GrantedOrWarned, [Next]_vars
               PROVE  GrantedOrWarned'
    OBVIOUS
  <2>1. ASSUME NEW o \in Claimants, Begin(o) PROVE GrantedOrWarned'
    BY <2>1, BeginKeeps
  <2>2. ASSUME NEW o \in Claimants, Claim(o) PROVE GrantedOrWarned'
    BY <2>2, ClaimKeepsMarks
  <2>3. CASE UNCHANGED vars
    <3>1. UNCHANGED <<todo, current, next, holder, granted, warned>>
      BY <2>3 DEF vars
    <3>2. \A o, i : Reached(o, i)' <=> Reached(o, i)
      BY <3>1 DEF Reached
    <3>3. \A o, k : /\ Claimed(o, k)' <=> Claimed(o, k)
                    /\ ClaimedTwice(o, k)' <=> ClaimedTwice(o, k)
      BY <3>2, Zenon DEF Claimed, ClaimedTwice
    <3> QED
      BY <3>1, <3>3, Zenon DEF GrantedOrWarned
  <2> QED
    BY <2>1, <2>2, <2>3 DEF Next
<1> QED
  BY <1>1, <1>2, ArbitrationType, HeldBySeniorInvariant, PTL DEF Spec
=============================================================================
