---------------------------- MODULE Arbitration ----------------------------
(***************************************************************************)
(* The loop by which Configuration settles who owns what, one claim at a   *)
(* time: buildHostsAndResources visits Ingresses, VirtualServers and       *)
(* TransportServers and their hosts, buildListenersAndTSConfigurations     *)
(* TransportServers and the listener each one matches, buildMinionConfigs  *)
(* minions and their paths (internal/k8s/configuration.go).  The second    *)
(* one ranges over a Go map, so the claimants come in an arbitrary order.  *)
(***************************************************************************)
EXTENDS Seniority, Sequences, FiniteSets

CONSTANTS Claimants,  \* records [created, uid, claims], claims a sequence
          MaxUID

ASSUME ClaimantsAssumption ==
  /\ MaxUID \in Nat
  /\ \A o \in Claimants : /\ o.created \in Nat
                          /\ o.uid \in 0..MaxUID
                          /\ o.claims \in Seq(Nat)
  /\ \A o, p \in Claimants : o # p => o.uid # p.uid

ClaimsOf(o) == {o.claims[i] : i \in DOMAIN o.claims}
AllClaims == UNION {ClaimsOf(o) : o \in Claimants}

VARIABLES
  todo,     \* the claimants the loop has not come to
  current,  \* the one it is at, as a set with at most one element
  next,     \* the index of its next claim
  holder,   \* hosts, listeners or paths |-> the claimant that holds them
  granted,  \* ValidPaths: the claims marked true
  warned    \* the claims "taken by another resource"

vars == <<todo, current, next, holder, granted, warned>>

Init ==
  /\ todo = Claimants /\ current = {} /\ next = 1
  /\ holder = <<>> /\ granted = {} /\ warned = {}

\* Mutant: the loop moves on before the last claim.
BeginEarly(o) ==
  /\ o \in todo
  /\ \A c \in current : next >= Len(c.claims)
  /\ todo' = todo \ {o}
  /\ current' = {o}
  /\ next' = 1
  /\ UNCHANGED <<holder, granted, warned>>

\* Mutant: the index is not reset.
BeginAtOldIndex(o) ==
  /\ o \in todo
  /\ \A c \in current : next > Len(c.claims)
  /\ todo' = todo \ {o}
  /\ current' = {o}
  /\ UNCHANGED <<next, holder, granted, warned>>

\* The loop moves on when it is through with the claims of a claimant.
Begin(o) ==
  /\ o \in todo
  /\ \A c \in current : next > Len(c.claims)
  /\ todo' = todo \ {o}
  /\ current' = {o}
  /\ next' = 1
  /\ UNCHANGED <<holder, granted, warned>>

\* Nobody holds it: no warning.
Take(o, k) ==
  /\ k \notin DOMAIN holder
  /\ holder' = [j \in DOMAIN holder \cup {k} |-> IF j = k THEN o ELSE holder[j]]
  /\ granted' = granted \cup {<<o, k>>}
  /\ UNCHANGED warned

\* Mutant: the displaced holder keeps its grant.
DisplaceKeepingGrant(o, k) ==
  /\ k \in DOMAIN holder
  /\ ~Wins(holder[k], o)
  /\ holder' = [holder EXCEPT ![k] = o]
  /\ granted' = granted \cup {<<o, k>>}
  /\ warned' = warned \cup {<<holder[k], k>>}

\* The holder is displaced; a claimant that lists a claim twice displaces
\* itself, and its own mark is the one that is cleared last.
Displace(o, k) ==
  /\ k \in DOMAIN holder
  /\ ~Wins(holder[k], o)
  /\ holder' = [holder EXCEPT ![k] = o]
  /\ granted' = (granted \cup {<<o, k>>}) \ {<<holder[k], k>>}
  /\ warned' = warned \cup {<<holder[k], k>>}

Lose(o, k) ==
  /\ k \in DOMAIN holder
  /\ Wins(holder[k], o)
  /\ warned' = warned \cup {<<o, k>>}
  /\ UNCHANGED <<holder, granted>>

Claim(o) ==
  /\ o \in current
  /\ next <= Len(o.claims)
  /\ \/ Take(o, o.claims[next])
     \/ Displace(o, o.claims[next])
     \/ Lose(o, o.claims[next])
  /\ next' = next + 1
  /\ UNCHANGED <<todo, current>>

Next == \E o \in Claimants : Begin(o) \/ Claim(o)

Spec == Init /\ [][Next]_vars

-----------------------------------------------------------------------------
(* Properties *)

\* The loop is at one claimant at a time, and never comes back to it.
TypeOK ==
  /\ todo \subseteq Claimants
  /\ current \subseteq Claimants \ todo
  /\ \A c, d \in current : c = d
  /\ next \in Nat \ {0}
  /\ current = {} => todo = Claimants
  /\ \A c \in current : next <= Len(c.claims) + 1
  /\ holder = [k \in DOMAIN holder |-> holder[k]]

\* The loop has come to the i-th claim of o.
Reached(o, i) == o \notin todo /\ (o \in current => i < next)

\* o has claimed k so far.
Claimed(o, k) == \E i \in DOMAIN o.claims : o.claims[i] = k /\ Reached(o, i)

\* ... more than once.
ClaimedTwice(o, k) ==
  \E i, j \in DOMAIN o.claims :
    i < j /\ o.claims[i] = k /\ o.claims[j] = k /\ Reached(o, j)

\* At any point of the loop, whatever the order of the visits: what has been
\* claimed is held by the senior one of those that claimed it.
HeldBySenior ==
  /\ DOMAIN holder = {k \in AllClaims : \E o \in Claimants : Claimed(o, k)}
  /\ \A k \in DOMAIN holder :
       /\ holder[k] \in Claimants
       /\ Claimed(holder[k], k)
       /\ \A p \in Claimants \ {holder[k]} : Claimed(p, k) => Senior(holder[k], p)

\* The marks agree with the holders: a claim is granted to its holder, unless
\* the holder lists it twice, and every claim that was made and is not
\* granted is the subject of a warning, and no other is.
GrantedOrWarned ==
  \A o \in Claimants : \A k \in ClaimsOf(o) :
    /\ <<o, k>> \in granted <=> /\ k \in DOMAIN holder
                                /\ holder[k] = o
                                /\ ~ClaimedTwice(o, k)
    /\ <<o, k>> \in warned <=> Claimed(o, k) /\ <<o, k>> \notin granted

Through == todo = {} /\ \A c \in current : next > Len(c.claims)

ClaimantsOf(k) == {o \in Claimants : k \in ClaimsOf(o)}

\* When the loop ends, the order of the visits can no longer be told: the
\* holders are the ones that the Configuration module computes with Holder.
OrderIndependent ==
  Through => holder = [k \in AllClaims |-> Holder(ClaimantsOf(k))]
=============================================================================
