---------------------------- MODULE ChangesProofs ----------------------------
(***************************************************************************)
(* Proofs about the lists of changes that the operations of Configuration  *)
(* return: what sorting, squashing and refreshing do to them, and that     *)
(* applying them brings the config files up to date.                       *)
(***************************************************************************)
EXTENDS ConfigurationProofs, SequenceTheorems, TLAPS

-----------------------------------------------------------------------------
(* Lists of changes *)

\* Changes to resources of a set R.
ChangeSet(R) == [op : {"Delete", "AddOrUpdate"}, resource : R, error : BOOLEAN]

KeyOf(c) == ResourceKey(c.resource)

\* The elements of a concatenation are those of its parts.
LEMMA ConcatElements ==
  ASSUME NEW T, NEW s \in Seq(T), NEW t \in Seq(T)
  PROVE  /\ s \o t \in Seq(T)
         /\ ToSet(s \o t) = ToSet(s) \cup ToSet(t)
<1>1. /\ s \o t \in Seq(T) /\ Len(s) \in Nat /\ Len(t) \in Nat
      /\ DOMAIN s = 1..Len(s) /\ DOMAIN t = 1..Len(t)
      /\ DOMAIN (s \o t) = 1..(Len(s) + Len(t))
      /\ \A i \in 1..(Len(s) + Len(t)) :
           (s \o t)[i] = IF i <= Len(s) THEN s[i] ELSE t[i - Len(s)]
  BY ConcatProperties, LenProperties
<1>2. ASSUME NEW i \in 1..Len(s) PROVE s[i] \in ToSet(s \o t)
  BY <1>1 DEF ToSet
<1>3. ASSUME NEW j \in 1..Len(t) PROVE t[j] \in ToSet(s \o t)
  <2>1. j + Len(s) \in DOMAIN (s \o t) /\ (s \o t)[j + Len(s)] = t[j]
    BY <1>1
  <2> QED
    BY <2>1 DEF ToSet
<1>4. ASSUME NEW i \in 1..(Len(s) + Len(t)) PROVE (s \o t)[i] \in ToSet(s) \cup ToSet(t)
  BY <1>1 DEF ToSet
<1> QED
  BY <1>1, <1>2, <1>3, <1>4 DEF ToSet

\* What Subsequence returns for positions of a sequence.
LEMMA SubsequenceOfSeq ==
  ASSUME NEW T, NEW s \in Seq(T), NEW at, at \subseteq DOMAIN s
  PROVE  /\ Subsequence(s, at) \in Seq(T)
         /\ Len(Subsequence(s, at)) = Cardinality(at)
         /\ Cardinality(at) \in Nat
         /\ \A k \in 1..Cardinality(at) : /\ Sorted(at)[k] \in at
                                          /\ Subsequence(s, at)[k] = s[Sorted(at)[k]]
         /\ \A i \in at : \E k \in 1..Cardinality(at) : Sorted(at)[k] = i
         /\ \A j, k \in 1..Cardinality(at) : j < k => Sorted(at)[j] < Sorted(at)[k]
         /\ ToSet(Subsequence(s, at)) = {s[i] : i \in at}
<1>1. Len(s) \in Nat /\ DOMAIN s = 1..Len(s)
  BY LenProperties
<1>2. IsFiniteSet(at) /\ at \subseteq Nat
  <2>1. IsFiniteSet(1..Len(s)) /\ at \in SUBSET (1..Len(s))
    BY <1>1, FS_Interval
  <2> QED
    BY <1>1, <2>1, FS_Subset
<1>3. /\ Cardinality(at) \in Nat
      /\ Subsequence(s, at) = [k \in 1..Cardinality(at) |-> s[Sorted(at)[k]]]
      /\ \A k \in 1..Cardinality(at) : Sorted(at)[k] \in at
      /\ \A i \in at : \E k \in 1..Cardinality(at) : Sorted(at)[k] = i
      /\ \A j, k \in 1..Cardinality(at) : j < k => Sorted(at)[j] < Sorted(at)[k]
  <2>1. ASSUME NEW t PROVE Subsequence(t, at) = [k \in 1..Cardinality(at) |-> t[Sorted(at)[k]]]
    BY <1>2, SubsequenceOK
  <2>2. /\ Cardinality(at) \in Nat
        /\ \A k \in 1..Cardinality(at) : Sorted(at)[k] \in at
        /\ \A i \in at : \E k \in 1..Cardinality(at) : Sorted(at)[k] = i
        /\ \A j, k \in 1..Cardinality(at) : j < k => Sorted(at)[j] < Sorted(at)[k]
    BY <1>2, SubsequenceOK
  <2> QED
    BY <2>1, <2>2
<1>4. \A k \in 1..Cardinality(at) : s[Sorted(at)[k]] \in T
  BY <1>1, <1>3
<1>5. Subsequence(s, at) \in Seq(T) /\ Len(Subsequence(s, at)) = Cardinality(at)
  BY <1>3, <1>4
<1>6. ToSet(Subsequence(s, at)) = {s[i] : i \in at}
  <2>1. ToSet(Subsequence(s, at)) = {s[Sorted(at)[k]] : k \in 1..Cardinality(at)}
    BY <1>3 DEF ToSet
  <2> QED
    BY <2>1, <1>3
<1> QED
  BY <1>3, <1>5, <1>6

\* A non-empty set of positions has a greatest element.
LEMMA GreatestPosition ==
  ASSUME NEW n \in Nat, NEW T, T \subseteq 1..n, T # {}
  PROVE  Max(T) \in T /\ \A j \in T : j <= Max(T)
<1>1. {n - j : j \in T} \subseteq Nat /\ {n - j : j \in T} # {}
  OBVIOUS
<1>2. PICK x \in {n - j : j \in T} : \A y \in {n - j : j \in T} : x <= y
  BY <1>1, LeastNat
<1>3. PICK i \in T : x = n - i
  BY <1>2
<1>4. \A j \in T : i >= j
  <2>1. \A j \in T : n - i <= n - j
    BY <1>2, <1>3
  <2>2. \A j \in T : j \in Int
    OBVIOUS
  <2> QED
    BY <2>1, <2>2
<1>5. Max(T) \in T /\ \A j \in T : Max(T) >= j
  BY <1>4 DEF Max
<1>6. \A j \in T : j \in Int
  OBVIOUS
<1> QED
  BY <1>5, <1>6

\* The last change of a resource is its final one.
LEMMA LastChangesOK ==
  ASSUME NEW R, NEW cs \in Seq(ChangeSet(R))
  PROVE  /\ LastChanges(cs) \in Seq(ChangeSet(R))
         /\ DOMAIN LastChanges(cs) = DOMAIN cs
         /\ \A i \in DOMAIN cs : /\ LastChanges(cs)[i] \in Finals(cs)
                                 /\ KeyOf(LastChanges(cs)[i]) = KeyOf(cs[i])
         /\ \A c \in Finals(cs) : \A i \in DOMAIN cs :
              KeyOf(cs[i]) = KeyOf(c) => LastChanges(cs)[i] = c
<1> DEFINE n == Len(cs)
           Same(i) == {j \in DOMAIN cs : ResourceKey(cs[j].resource) = ResourceKey(cs[i].resource)}
<1>1. n \in Nat /\ DOMAIN cs = 1..n
  BY LenProperties
<1>2. ASSUME NEW i \in DOMAIN cs
      PROVE  /\ Max(Same(i)) \in Same(i)
             /\ \A j \in Same(i) : j <= Max(Same(i))
  <2>1. Same(i) \subseteq 1..n /\ Same(i) # {}
    BY <1>1
  <2> HIDE DEF n, Same
  <2> QED
    BY <1>1, <2>1, GreatestPosition
<1>3. LastChanges(cs) = [i \in DOMAIN cs |-> cs[Max(Same(i))]]
  BY DEF LastChanges
<1>4. \A i \in DOMAIN cs : Max(Same(i)) \in DOMAIN cs
                           /\ KeyOf(cs[Max(Same(i))]) = KeyOf(cs[i])
  BY <1>2 DEF KeyOf
<1>5. LastChanges(cs) \in Seq(ChangeSet(R))
  <2>1. \A i \in 1..n : cs[Max(Same(i))] \in ChangeSet(R)
    <3>1. \A m \in DOMAIN cs : cs[m] \in ChangeSet(R)
      BY <1>1, ElementOfSeq
    <3> QED
      BY <1>1, <1>4, <3>1
  <2> QED
    BY <1>1, <1>3, <2>1
<1>6. ASSUME NEW i \in DOMAIN cs PROVE cs[Max(Same(i))] \in Finals(cs)
  <2> DEFINE m == Max(Same(i))
  <2>1. m \in DOMAIN cs /\ m \in Nat
    BY <1>1, <1>2
  <2>2. ASSUME NEW k \in DOMAIN cs, k > m
        PROVE  ResourceKey(cs[k].resource) # ResourceKey(cs[m].resource)
    <3>1. ~(k <= m)
      BY <1>1, <2>1, <2>2
    <3>2. k \notin Same(i)
      BY <1>2, <3>1
    <3> QED
      BY <3>2, <1>2
  <2> HIDE DEF m
  <2> QED
    BY <2>1, <2>2 DEF Finals, m
<1>7. ASSUME NEW c \in Finals(cs), NEW i \in DOMAIN cs, KeyOf(cs[i]) = KeyOf(c)
      PROVE  cs[Max(Same(i))] = c
  <2>1. PICK j \in DOMAIN cs : /\ c = cs[j]
                               /\ \A k \in DOMAIN cs : k > j =>
                                    ResourceKey(cs[k].resource) # ResourceKey(cs[j].resource)
    BY DEF Finals
  <2>2. j \in Same(i)
    BY <1>7, <2>1 DEF KeyOf
  <2>3. j <= Max(Same(i)) /\ Max(Same(i)) \in DOMAIN cs
    BY <1>2, <2>2
  <2>4. KeyOf(cs[Max(Same(i))]) = KeyOf(cs[j])
    BY <1>4, <1>7, <2>1
  <2>5. ~(Max(Same(i)) > j)
    BY <2>1, <2>3, <2>4 DEF KeyOf
  <2>6. Max(Same(i)) = j
    <3>1. j \in Nat /\ Max(Same(i)) \in Nat
      BY <1>1, <2>1, <2>3
    <3> HIDE DEF Same
    <3> QED
      BY <3>1, <2>3, <2>5
  <2> QED
    BY <2>1, <2>6
<1> QED
  BY <1>3, <1>4, <1>5, <1>6, <1>7

\* squashResourceChanges keeps one change for each resource, the final one,
\* and puts the deletes before the updates.
LEMMA SquashOK ==
  ASSUME NEW R, NEW cs \in Seq(ChangeSet(R))
  PROVE  LET sq == SquashResourceChanges(cs)
         IN /\ sq \in Seq(ChangeSet(R))
            /\ ToSet(sq) = Finals(cs)
            /\ \A i, j \in DOMAIN sq : KeyOf(sq[i]) = KeyOf(sq[j]) => i = j
            /\ \A i, j \in DOMAIN sq : i < j /\ sq[j].op = "Delete" => sq[i].op = "Delete"
<1> DEFINE L == LastChanges(cs)
           A == FirstChanges(cs, "Delete")
           B == FirstChanges(cs, "AddOrUpdate")
           a == Subsequence(L, A)
           b == Subsequence(L, B)
           sq == a \o b
<1>1. /\ L \in Seq(ChangeSet(R)) /\ DOMAIN L = DOMAIN cs
      /\ \A i \in DOMAIN cs : L[i] \in Finals(cs) /\ KeyOf(L[i]) = KeyOf(cs[i])
      /\ \A c \in Finals(cs) : \A i \in DOMAIN cs : KeyOf(cs[i]) = KeyOf(c) => L[i] = c
  BY LastChangesOK
<1>2. Len(cs) \in Nat /\ DOMAIN cs = 1..Len(cs)
  BY LenProperties
<1>3. /\ A \subseteq DOMAIN L /\ \A i \in A : L[i].op = "Delete"
      /\ B \subseteq DOMAIN L /\ \A i \in B : L[i].op = "AddOrUpdate"
  BY <1>1 DEF FirstChanges
<1>4. \A i, j \in A \cup B : KeyOf(L[i]) = KeyOf(L[j]) => i = j
  <2> SUFFICES ASSUME NEW i \in A \cup B, NEW j \in A \cup B, KeyOf(L[i]) = KeyOf(L[j]), i < j
               PROVE  FALSE
    <3>1. \A i \in A \cup B : i \in Nat
      BY <1>1, <1>2, <1>3
    <3> QED
      BY <3>1
  <2>1. i \in DOMAIN cs /\ j \in DOMAIN cs /\ i \in 1..(j - 1)
    BY <1>1, <1>2, <1>3
  <2>2. ResourceKey(cs[i].resource) # ResourceKey(cs[j].resource)
    BY <2>1 DEF FirstChanges
  <2> QED
    BY <1>1, <2>1, <2>2 DEF KeyOf
<1>5. \A i \in DOMAIN cs : \E j \in A \cup B : KeyOf(cs[j]) = KeyOf(cs[i])
  <2> SUFFICES ASSUME NEW i \in DOMAIN cs
               PROVE  \E j \in A \cup B : KeyOf(cs[j]) = KeyOf(cs[i])
    OBVIOUS
  <2> DEFINE T == {j \in DOMAIN cs : KeyOf(cs[j]) = KeyOf(cs[i])}
  <2>1. T \subseteq Nat /\ T # {}
    BY <1>2
  <2>2. PICK j \in T : \A k \in T : j <= k
    <3> HIDE DEF T
    <3> QED
      BY <2>1, LeastNat
  <2>3. \A k \in 1..(j - 1) : KeyOf(cs[k]) # KeyOf(cs[j])
    <3> SUFFICES ASSUME NEW k \in 1..(j - 1), KeyOf(cs[k]) = KeyOf(cs[j]) PROVE FALSE
      OBVIOUS
    <3>1. k \in DOMAIN cs /\ k < j
      BY <1>2, <2>2
    <3>2. j <= k
      BY <2>2, <3>1
    <3> QED
      BY <3>1, <3>2, <1>2, <2>2
  <2>4. L[j].op \in {"Delete", "AddOrUpdate"}
    <3> HIDE DEF L
    <3>1. L[j] \in ChangeSet(R)
      BY <1>1, <2>2, ElementOfSeq, LenProperties
    <3> QED
      BY <3>1 DEF ChangeSet
  <2>5. j \in A \cup B
    BY <2>2, <2>3, <2>4 DEF FirstChanges, KeyOf
  <2> QED
    BY <2>2, <2>5
<1> HIDE DEF A, B, L
<1>6. /\ a \in Seq(ChangeSet(R)) /\ Len(a) = Cardinality(A) /\ Cardinality(A) \in Nat
      /\ \A k \in 1..Cardinality(A) : Sorted(A)[k] \in A /\ a[k] = L[Sorted(A)[k]]
      /\ \A j, k \in 1..Cardinality(A) : j < k => Sorted(A)[j] < Sorted(A)[k]
      /\ ToSet(a) = {L[i] : i \in A}
  BY <1>1, <1>3, SubsequenceOfSeq
<1>7. /\ b \in Seq(ChangeSet(R)) /\ Len(b) = Cardinality(B) /\ Cardinality(B) \in Nat
      /\ \A k \in 1..Cardinality(B) : Sorted(B)[k] \in B /\ b[k] = L[Sorted(B)[k]]
      /\ \A j, k \in 1..Cardinality(B) : j < k => Sorted(B)[j] < Sorted(B)[k]
      /\ ToSet(b) = {L[i] : i \in B}
  BY <1>1, <1>3, SubsequenceOfSeq
<1> HIDE DEF a, b
<1>8. sq \in Seq(ChangeSet(R)) /\ ToSet(sq) = ToSet(a) \cup ToSet(b)
  BY <1>6, <1>7, ConcatElements
<1>9. /\ DOMAIN sq = 1..(Len(a) + Len(b))
      /\ \A i \in DOMAIN sq : i <= Len(a) => i \in 1..Len(a) /\ sq[i] = a[i]
      /\ \A i \in DOMAIN sq : ~(i <= Len(a)) => i - Len(a) \in 1..Len(b) /\ sq[i] = b[i - Len(a)]
  BY <1>6, <1>7, ConcatProperties, LenProperties
<1> DEFINE At(i) == IF i <= Len(a) THEN Sorted(A)[i] ELSE Sorted(B)[i - Len(a)]
<1>10. \A i \in DOMAIN sq : /\ At(i) \in A \cup B
                            /\ sq[i] = L[At(i)]
                            /\ i <= Len(a) <=> At(i) \in A
  BY <1>3, <1>6, <1>7, <1>9
<1>11. \A i, j \in DOMAIN sq : i < j => At(i) # At(j)
  <2> SUFFICES ASSUME NEW i \in DOMAIN sq, NEW j \in DOMAIN sq, i < j PROVE At(i) # At(j)
    OBVIOUS
  <2>0. \A k \in A \cup B : k \in Nat
    BY <1>1, <1>2, <1>3
  <2>1. CASE j <= Len(a)
    BY <1>6, <1>9, <2>0, <2>1
  <2>2. CASE ~(i <= Len(a))
    <3>1. i - Len(a) \in 1..Len(b) /\ j - Len(a) \in 1..Len(b) /\ i - Len(a) < j - Len(a)
          /\ ~(j <= Len(a))
      BY <1>6, <1>7, <1>9, <2>2
    <3> QED
      BY <1>7, <2>0, <2>2, <3>1
  <2>3. CASE i <= Len(a) /\ ~(j <= Len(a))
    BY <1>10, <2>3
  <2> QED
    BY <2>1, <2>2, <2>3
<1>12. \A i, j \in DOMAIN sq : KeyOf(sq[i]) = KeyOf(sq[j]) => i = j
  <2> HIDE DEF At, sq
  <2>1. \A i \in DOMAIN sq : i \in Nat
    BY <1>6, <1>7, <1>9
  <2> QED
    BY <1>4, <1>10, <1>11, <2>1
<1>13. \A i, j \in DOMAIN sq : i < j /\ sq[j].op = "Delete" => sq[i].op = "Delete"
  <2>1. \A i \in DOMAIN sq : i \in Nat
    BY <1>6, <1>7, <1>9
  <2>2. \A i \in DOMAIN sq : sq[i].op = "Delete" <=> i <= Len(a)
    <3> HIDE DEF At, sq
    <3> QED
      BY <1>3, <1>10
  <2> QED
    BY <1>6, <2>1, <2>2
<1>14. ToSet(sq) = Finals(cs)
  <2>1. ToSet(sq) = {L[i] : i \in A \cup B}
    BY <1>6, <1>7, <1>8
  <2>2. \A c \in Finals(cs) : \E i \in A \cup B : L[i] = c
    <3> SUFFICES ASSUME NEW c \in Finals(cs) PROVE \E i \in A \cup B : L[i] = c
      OBVIOUS
    <3>1. PICK j \in DOMAIN cs : c = cs[j]
      BY DEF Finals
    <3>2. PICK i \in A \cup B : KeyOf(cs[i]) = KeyOf(cs[j])
      BY <1>5
    <3> QED
      BY <1>1, <1>3, <3>1, <3>2
  <2> QED
    BY <1>1, <1>3, <2>1, <2>2
<1> QED
  BY <1>8, <1>12, <1>13, <1>14 DEF SquashResourceChanges, L, A, B, a, b

\* A change is final in a list exactly when no later one is for its resource.
LEMMA FinalPosition ==
  ASSUME NEW cs, NEW c
  PROVE  c \in Finals(cs) <=>
           \E i \in DOMAIN cs : /\ cs[i] = c
                                /\ \A k \in DOMAIN cs : k > i => KeyOf(cs[k]) # KeyOf(c)
BY DEF Finals, KeyOf

\* When all changes for one resource are the same, each of them is final.
LEMMA FinalsOfUniform ==
  ASSUME NEW R, NEW cs \in Seq(ChangeSet(R)),
         \A i, j \in DOMAIN cs : KeyOf(cs[i]) = KeyOf(cs[j]) => cs[i] = cs[j]
  PROVE  Finals(cs) = ToSet(cs)
<1>1. Finals(cs) \subseteq ToSet(cs)
  BY DEF Finals, ToSet
<1>2. ASSUME NEW i \in DOMAIN cs PROVE cs[i] \in Finals(cs)
  <2>1. /\ LastChanges(cs)[i] \in Finals(cs)
        /\ KeyOf(LastChanges(cs)[i]) = KeyOf(cs[i])
    BY LastChangesOK
  <2>2. PICK j \in DOMAIN cs : LastChanges(cs)[i] = cs[j]
    BY <2>1, <1>1 DEF ToSet
  <2> QED
    BY <2>1, <2>2
<1> QED
  BY <1>1, <1>2 DEF ToSet

\* Later lists override earlier ones, resource by resource.
LEMMA FinalsOfConcat ==
  ASSUME NEW R, NEW s \in Seq(ChangeSet(R)), NEW t \in Seq(ChangeSet(R))
  PROVE  Finals(s \o t) =
           Finals(t) \cup {c \in Finals(s) : \A d \in ToSet(t) : KeyOf(d) # KeyOf(c)}
<1> DEFINE m == Len(s)
           n == Len(t)
           st == s \o t
<1>1. m \in Nat /\ n \in Nat /\ DOMAIN s = 1..m /\ DOMAIN t = 1..n /\ DOMAIN st = 1..(m + n)
  BY ConcatProperties, LenProperties
<1>2. /\ \A i \in 1..m : i \in 1..(m + n) /\ st[i] = s[i]
      /\ \A j \in 1..n : j + m \in 1..(m + n) /\ st[j + m] = t[j]
      /\ \A k \in 1..(m + n) : k \in 1..m \/ k - m \in 1..n
  BY <1>1, ConcatProperties
<1> HIDE DEF m, n, st
<1>3. ASSUME NEW c \in Finals(st)
      PROVE  \/ c \in Finals(t)
             \/ c \in Finals(s) /\ \A d \in ToSet(t) : KeyOf(d) # KeyOf(c)
  <2>1. PICK i \in DOMAIN st : /\ st[i] = c
                               /\ \A k \in DOMAIN st : k > i => KeyOf(st[k]) # KeyOf(c)
    BY <1>3, FinalPosition
  <2>2. CASE i \in 1..m
    <3>1. s[i] = c /\ \A k \in 1..m : k > i => KeyOf(s[k]) # KeyOf(c)
      BY <1>1, <1>2, <2>1, <2>2
    <3>2. \A j \in 1..n : j + m > i
      BY <1>1, <2>2
    <3>3. \A j \in 1..n : KeyOf(t[j]) # KeyOf(c)
      BY <1>1, <1>2, <2>1, <3>2
    <3>4. c \in Finals(s)
      BY <1>1, <2>2, <3>1, FinalPosition
    <3> QED
      BY <1>1, <3>3, <3>4 DEF ToSet
  <2>3. CASE i - m \in 1..n
    <3>1. t[i - m] = c
      BY <1>1, <1>2, <2>1, <2>3
    <3>2. \A k \in 1..n : k > i - m => k + m > i
      BY <1>1, <2>1
    <3>3. \A k \in 1..n : k > i - m => KeyOf(t[k]) # KeyOf(c)
      BY <1>1, <1>2, <2>1, <3>2
    <3> QED
      BY <1>1, <2>3, <3>1, <3>3, FinalPosition
  <2> QED
    BY <1>1, <1>2, <2>1, <2>2, <2>3
<1>4. ASSUME NEW c \in Finals(t) PROVE c \in Finals(st)
  <2>1. PICK j \in 1..n : t[j] = c /\ \A k \in 1..n : k > j => KeyOf(t[k]) # KeyOf(c)
    BY <1>1, <1>4, FinalPosition
  <2>2. ASSUME NEW k \in 1..(m + n), k > j + m PROVE KeyOf(st[k]) # KeyOf(c)
    <3>1. k - m \in 1..n /\ k - m > j /\ (k - m) + m = k
      BY <1>1, <2>2
    <3> QED
      BY <1>2, <2>1, <3>1
  <2> QED
    BY <1>1, <1>2, <2>1, <2>2, FinalPosition
<1>5. ASSUME NEW c \in Finals(s), \A d \in ToSet(t) : KeyOf(d) # KeyOf(c)
      PROVE  c \in Finals(st)
  <2>1. PICK i \in 1..m : s[i] = c /\ \A k \in 1..m : k > i => KeyOf(s[k]) # KeyOf(c)
    BY <1>1, <1>5, FinalPosition
  <2>2. ASSUME NEW k \in 1..(m + n), k > i PROVE KeyOf(st[k]) # KeyOf(c)
    <3>1. CASE k \in 1..m
      BY <1>2, <2>1, <2>2, <3>1
    <3>2. CASE k - m \in 1..n
      <4>1. st[k] = t[k - m]
        BY <1>1, <1>2, <3>2
      <4> QED
        BY <1>1, <1>5, <3>2, <4>1 DEF ToSet
    <3> QED
      BY <1>2, <3>1, <3>2
  <2> QED
    BY <1>1, <1>2, <2>1, <2>2, FinalPosition
<1> QED
  BY <1>3, <1>4, <1>5 DEF st

\* A change keeps what it does, and to which resource, when it is refreshed:
\* only the version of the resource may change.
LEMMA RefreshOK ==
  ASSUME NEW R, NEW cs \in Seq(ChangeSet(R)), NEW T, T \subseteq R
  PROVE  LET rf == RefreshResources(cs, T)
         IN /\ rf \in Seq(ChangeSet(R))
            /\ DOMAIN rf = DOMAIN cs
            /\ \A i \in DOMAIN cs :
                 /\ rf[i].op = cs[i].op /\ rf[i].error = cs[i].error
                 /\ KeyOf(rf[i]) = KeyOf(cs[i])
                 /\ \/ rf[i].resource \in T
                    \/ /\ rf[i].resource = cs[i].resource
                       /\ \A r \in T : ResourceKey(r) # KeyOf(cs[i])
<1> DEFINE Latest(r) == {s \in T : ResourceKey(s) = ResourceKey(r)}
           rf == RefreshResources(cs, T)
<1>1. rf = [i \in DOMAIN cs |->
              IF Latest(cs[i].resource) = {} THEN cs[i]
                ELSE [cs[i] EXCEPT !.resource = CHOOSE s \in Latest(cs[i].resource) : TRUE]]
  BY DEF RefreshResources
<1>2. DOMAIN rf = DOMAIN cs
  BY <1>1
<1>3. \A i \in DOMAIN cs : cs[i] \in ChangeSet(R)
  BY ElementOfSeq, LenProperties
<1>4. ASSUME NEW i \in DOMAIN cs
      PROVE  /\ rf[i] \in ChangeSet(R)
             /\ rf[i].op = cs[i].op /\ rf[i].error = cs[i].error
             /\ KeyOf(rf[i]) = KeyOf(cs[i])
             /\ \/ rf[i].resource \in T
                \/ /\ rf[i].resource = cs[i].resource
                   /\ \A r \in T : ResourceKey(r) # KeyOf(cs[i])
  <2>1. CASE Latest(cs[i].resource) = {}
    BY <1>1, <1>3, <2>1 DEF KeyOf
  <2>2. CASE Latest(cs[i].resource) # {}
    <3> DEFINE s == CHOOSE s \in Latest(cs[i].resource) : TRUE
    <3>1. s \in T /\ ResourceKey(s) = ResourceKey(cs[i].resource)
      BY <2>2
    <3>2. rf[i] = [cs[i] EXCEPT !.resource = s]
      BY <1>1, <2>2
    <3> HIDE DEF s, rf
    <3>3. /\ rf[i] \in ChangeSet(R) /\ rf[i].resource = s
          /\ rf[i].op = cs[i].op /\ rf[i].error = cs[i].error
      BY <1>3, <3>1, <3>2 DEF ChangeSet
    <3> QED
      BY <3>1, <3>3 DEF KeyOf
  <2> QED
    BY <2>1, <2>2
<1>5. rf \in Seq(ChangeSet(R))
  <2>1. Len(cs) \in Nat /\ DOMAIN cs = 1..Len(cs)
    BY LenProperties
  <2>2. rf \in [1..Len(cs) -> ChangeSet(R)]
    BY <1>1, <1>4, <2>1
  <2> QED
    BY <2>1, <2>2
<1> QED
  BY <1>2, <1>4, <1>5

-----------------------------------------------------------------------------
(* The changes from one map of owners to another *)

\* All that an owner owns is filed under one and the same resource.
OneResourcePerKey(f) ==
  \A k, l \in DOMAIN f : ResourceKey(f[k]) = ResourceKey(f[l]) => f[k] = f[l]

\* A map from finitely many names to resources of R.
OwnerMap(f, R) ==
  /\ DOMAIN f \subseteq Nat /\ IsFiniteSet(DOMAIN f)
  /\ \A k \in DOMAIN f : f[k] \in R
  /\ OneResourcePerKey(f)

\* The names that changed hands, or are owned by something that changed.
Lost(old, new) ==
  {k \in DOMAIN old : k \in DOMAIN new => ResourceKey(old[k]) # ResourceKey(new[k])}
Gained(old, new) ==
  {k \in DOMAIN new : k \in DOMAIN old => ~IsEqual(old[k], new[k])}

ChangeOf(op, r) == [op |-> op, resource |-> r, error |-> FALSE]

\* ChangesFor lists one change for every name.
LEMMA ChangesForType ==
  ASSUME NEW R, NEW f, NEW D, NEW s \in Seq(D), NEW op \in {"Delete", "AddOrUpdate"},
         \A k \in D : f[k] \in R
  PROVE  ChangesFor(s, op, f) \in Seq(ChangeSet(R))
<1>1. Len(s) \in Nat /\ DOMAIN s = 1..Len(s) /\ \A i \in DOMAIN s : s[i] \in D
  BY LenProperties, ElementOfSeq
<1>2. ChangesFor(s, op, f) = [i \in 1..Len(s) |-> ChangeOf(op, f[s[i]])]
  BY <1>1 DEF ChangesFor, ChangeOf
<1>3. \A i \in 1..Len(s) : ChangeOf(op, f[s[i]]) \in ChangeSet(R)
  BY <1>1 DEF ChangeSet, ChangeOf
<1> QED
  BY <1>1, <1>2, <1>3

LEMMA ChangesForElements ==
  ASSUME NEW f, NEW s, NEW op
  PROVE  ToSet(ChangesFor(s, op, f)) = {ChangeOf(op, f[k]) : k \in ToSet(s)}
BY DEF ChangesFor, ChangeOf, ToSet

\* A sorted set is a sequence of its elements.
LEMMA SortedSeq ==
  ASSUME NEW D, NEW S, S \subseteq D, D \subseteq Nat, IsFiniteSet(D)
  PROVE  Sorted(S) \in Seq(D) /\ ToSet(Sorted(S)) = S
<1>1. IsFiniteSet(S) /\ S \subseteq Nat
  BY FS_Subset
<1>2. /\ Cardinality(S) \in Nat
      /\ Sorted(S) \in [1..Cardinality(S) -> S]
      /\ \A x \in S : \E i \in 1..Cardinality(S) : Sorted(S)[i] = x
  BY <1>1, SortedOK
<1>3. Sorted(S) \in [1..Cardinality(S) -> D]
  BY <1>2
<1>4. Sorted(S) \in Seq(D)
  BY <1>2, <1>3
<1> QED
  BY <1>2, <1>4 DEF ToSet

\* The final changes: an update for every resource that gained a name or
\* changed, and a delete for every one that lost a name and is not updated.
IsFinal(c, old, new) ==
  \/ \E k \in Gained(old, new) : c = ChangeOf("AddOrUpdate", new[k])
  \/ /\ \E k \in Lost(old, new) : c = ChangeOf("Delete", old[k])
     /\ \A k \in Gained(old, new) : ResourceKey(new[k]) # KeyOf(c)
LEMMA CreateOK ==
  ASSUME NEW R, NEW old, NEW new, OwnerMap(old, R), OwnerMap(new, R)
  PROVE  /\ CreateResourceChanges(old, new) \in Seq(ChangeSet(R))
         /\ \A c : c \in Finals(CreateResourceChanges(old, new)) <=> IsFinal(c, old, new)
<1> DEFINE removed == DOMAIN old \ DOMAIN new
           added   == DOMAIN new \ DOMAIN old
           updated == {k \in DOMAIN old \cap DOMAIN new : ~IsEqual(old[k], new[k])}
           moved   == {k \in DOMAIN old \cap DOMAIN new : ResourceKey(old[k]) # ResourceKey(new[k])}
           updates == {ChangeOf("AddOrUpdate", new[k]) : k \in Gained(old, new)}
           deletes == {ChangeOf("Delete", old[k]) : k \in Lost(old, new)}
           s == ChangesFor(Sorted(removed) \o Sorted(moved), "Delete", old)
           t == ChangesFor(Sorted(updated) \o Sorted(added), "AddOrUpdate", new)
<1>1. CreateResourceChanges(old, new) = s \o t
  BY DEF CreateResourceChanges
<1>2. removed \cup moved = Lost(old, new) /\ updated \cup added = Gained(old, new)
  BY DEF Lost, Gained
<1>3. /\ Sorted(removed) \o Sorted(moved) \in Seq(DOMAIN old)
      /\ ToSet(Sorted(removed) \o Sorted(moved)) = Lost(old, new)
  <2>1. removed \subseteq DOMAIN old /\ moved \subseteq DOMAIN old
    OBVIOUS
  <2> HIDE DEF removed, moved
  <2> DEFINE u == Sorted(removed)
             v == Sorted(moved)
  <2>2. /\ u \in Seq(DOMAIN old) /\ ToSet(u) = removed
        /\ v \in Seq(DOMAIN old) /\ ToSet(v) = moved
    BY <2>1, SortedSeq DEF OwnerMap
  <2> HIDE DEF u, v
  <2>3. u \o v \in Seq(DOMAIN old) /\ ToSet(u \o v) = ToSet(u) \cup ToSet(v)
    BY <2>2, ConcatElements
  <2> QED
    BY <1>2, <2>2, <2>3 DEF u, v
<1>4. /\ Sorted(updated) \o Sorted(added) \in Seq(DOMAIN new)
      /\ ToSet(Sorted(updated) \o Sorted(added)) = Gained(old, new)
  <2>1. updated \subseteq DOMAIN new /\ added \subseteq DOMAIN new
    OBVIOUS
  <2> HIDE DEF updated, added
  <2> DEFINE u == Sorted(updated)
             v == Sorted(added)
  <2>2. /\ u \in Seq(DOMAIN new) /\ ToSet(u) = updated
        /\ v \in Seq(DOMAIN new) /\ ToSet(v) = added
    BY <2>1, SortedSeq DEF OwnerMap
  <2> HIDE DEF u, v
  <2>3. u \o v \in Seq(DOMAIN new) /\ ToSet(u \o v) = ToSet(u) \cup ToSet(v)
    BY <2>2, ConcatElements
  <2> QED
    BY <1>2, <2>2, <2>3 DEF u, v
<1>5. s \in Seq(ChangeSet(R)) /\ ToSet(s) = deletes
  <2> DEFINE u == Sorted(removed) \o Sorted(moved)
  <2>1. u \in Seq(DOMAIN old) /\ ToSet(u) = Lost(old, new) /\ \A k \in DOMAIN old : old[k] \in R
    BY <1>3 DEF OwnerMap
  <2> HIDE DEF u
  <2>2. ChangesFor(u, "Delete", old) \in Seq(ChangeSet(R))
    BY <2>1, ChangesForType
  <2>3. ToSet(ChangesFor(u, "Delete", old)) = {ChangeOf("Delete", old[k]) : k \in ToSet(u)}
    BY ChangesForElements
  <2> QED
    BY <2>1, <2>2, <2>3 DEF u
<1>6. t \in Seq(ChangeSet(R)) /\ ToSet(t) = updates
  <2> DEFINE u == Sorted(updated) \o Sorted(added)
  <2>1. u \in Seq(DOMAIN new) /\ ToSet(u) = Gained(old, new) /\ \A k \in DOMAIN new : new[k] \in R
    BY <1>4 DEF OwnerMap
  <2> HIDE DEF u
  <2>2. ChangesFor(u, "AddOrUpdate", new) \in Seq(ChangeSet(R))
    BY <2>1, ChangesForType
  <2>3. ToSet(ChangesFor(u, "AddOrUpdate", new)) = {ChangeOf("AddOrUpdate", new[k]) : k \in ToSet(u)}
    BY ChangesForElements
  <2> QED
    BY <2>1, <2>2, <2>3 DEF u
<1> HIDE DEF s, t
<1>7. Finals(s) = deletes
  <2>1. \A k, l \in Lost(old, new) :
          KeyOf(ChangeOf("Delete", old[k])) = KeyOf(ChangeOf("Delete", old[l])) => old[k] = old[l]
    BY DEF OwnerMap, OneResourcePerKey, Lost, KeyOf, ChangeOf
  <2>2. \A c, d \in deletes : KeyOf(c) = KeyOf(d) => c = d
    BY <2>1
  <2>3. \A i \in DOMAIN s : s[i] \in deletes
    BY <1>5 DEF ToSet
  <2> HIDE DEF deletes
  <2> QED
    BY <1>5, <2>2, <2>3, FinalsOfUniform
<1>8. Finals(t) = updates
  <2>1. \A k, l \in Gained(old, new) :
          KeyOf(ChangeOf("AddOrUpdate", new[k])) = KeyOf(ChangeOf("AddOrUpdate", new[l])) => new[k] = new[l]
    BY DEF OwnerMap, OneResourcePerKey, Gained, KeyOf, ChangeOf
  <2>2. \A c, d \in updates : KeyOf(c) = KeyOf(d) => c = d
    BY <2>1
  <2>3. \A i \in DOMAIN t : t[i] \in updates
    BY <1>6 DEF ToSet
  <2> HIDE DEF updates
  <2> QED
    BY <1>6, <2>2, <2>3, FinalsOfUniform
<1>9. Finals(s \o t) = updates \cup {d \in deletes : \A u \in updates : KeyOf(u) # KeyOf(d)}
  BY <1>5, <1>6, <1>7, <1>8, FinalsOfConcat
<1>10. s \o t \in Seq(ChangeSet(R))
  BY <1>5, <1>6, ConcatElements
<1>11. \A k : KeyOf(ChangeOf("AddOrUpdate", new[k])) = ResourceKey(new[k])
  BY DEF KeyOf, ChangeOf
<1>12. \A c : c \in Finals(s \o t) <=> IsFinal(c, old, new)
  <2> TAKE c
  <2>1. c \in Finals(s \o t) <=>
          (c \in updates \/ (c \in deletes /\ \A u \in updates : KeyOf(u) # KeyOf(c)))
    <3> HIDE DEF updates, deletes
    <3> QED
      BY <1>9
  <2>2. c \in updates <=> \E k \in Gained(old, new) : c = ChangeOf("AddOrUpdate", new[k])
    OBVIOUS
  <2>3. c \in deletes <=> \E k \in Lost(old, new) : c = ChangeOf("Delete", old[k])
    OBVIOUS
  <2>4. (\A u \in updates : KeyOf(u) # KeyOf(c))
          <=> \A k \in Gained(old, new) : ResourceKey(new[k]) # KeyOf(c)
    BY <1>11
  <2> HIDE DEF updates, deletes
  <2> QED
    BY <2>1, <2>2, <2>3, <2>4 DEF IsFinal
<1> QED
  BY <1>1, <1>10, <1>12

\* What a list of changes from old to new consists of: one change for each
\* resource, deletes first; the updates are for the owners of the names gained,
\* the deletes for the owners of the names lost that are not updated.
Transforms(cs, old, new) ==
  /\ \A i, j \in DOMAIN cs : KeyOf(cs[i]) = KeyOf(cs[j]) => i = j
  /\ \A i, j \in DOMAIN cs : i < j /\ cs[j].op = "Delete" => cs[i].op = "Delete"
  /\ \A i \in DOMAIN cs : cs[i].op = "AddOrUpdate" =>
       \E k \in Gained(old, new) : cs[i].resource = new[k]
  /\ \A k \in Gained(old, new) : \E i \in DOMAIN cs :
       cs[i].op = "AddOrUpdate" /\ cs[i].resource = new[k]
  /\ \A i \in DOMAIN cs : cs[i].op = "Delete" =>
       /\ \E k \in Lost(old, new) : KeyOf(cs[i]) = ResourceKey(old[k])
       /\ \A k \in Gained(old, new) : KeyOf(cs[i]) # ResourceKey(new[k])
  /\ \A k \in Lost(old, new) :
       (\A l \in Gained(old, new) : ResourceKey(new[l]) # ResourceKey(old[k])) =>
         \E i \in DOMAIN cs : cs[i].op = "Delete" /\ KeyOf(cs[i]) = ResourceKey(old[k])

\* createResourceChanges and squashResourceChanges, one after the other.
LEMMA SquashedTransforms ==
  ASSUME NEW R, NEW old, NEW new, OwnerMap(old, R), OwnerMap(new, R)
  PROVE  LET sq == SquashResourceChanges(CreateResourceChanges(old, new))
         IN sq \in Seq(ChangeSet(R)) /\ Transforms(sq, old, new)
<1> DEFINE cr == CreateResourceChanges(old, new)
           sq == SquashResourceChanges(cr)
<1>1. /\ cr \in Seq(ChangeSet(R))
      /\ \A c : c \in Finals(cr) <=> IsFinal(c, old, new)
  BY CreateOK
<1> HIDE DEF cr
<1>2. /\ sq \in Seq(ChangeSet(R))
      /\ ToSet(sq) = Finals(cr)
      /\ \A i, j \in DOMAIN sq : KeyOf(sq[i]) = KeyOf(sq[j]) => i = j
      /\ \A i, j \in DOMAIN sq : i < j /\ sq[j].op = "Delete" => sq[i].op = "Delete"
  BY <1>1, SquashOK
<1> HIDE DEF sq
<1>3. \A c : c \in ToSet(sq) <=> \E i \in DOMAIN sq : sq[i] = c
  BY DEF ToSet
<1>4. \A r : /\ ChangeOf("AddOrUpdate", r).op = "AddOrUpdate"
             /\ ChangeOf("AddOrUpdate", r).resource = r
             /\ KeyOf(ChangeOf("AddOrUpdate", r)) = ResourceKey(r)
             /\ ChangeOf("Delete", r).op = "Delete"
             /\ KeyOf(ChangeOf("Delete", r)) = ResourceKey(r)
  BY DEF ChangeOf, KeyOf
<1>5. ASSUME NEW i \in DOMAIN sq
      PROVE  \/ \E k \in Gained(old, new) : sq[i] = ChangeOf("AddOrUpdate", new[k])
             \/ /\ \E k \in Lost(old, new) : sq[i] = ChangeOf("Delete", old[k])
                /\ \A k \in Gained(old, new) : KeyOf(sq[i]) # ResourceKey(new[k])
  BY <1>1, <1>2, <1>3 DEF IsFinal
<1>6. ASSUME NEW k \in Gained(old, new)
      PROVE  \E i \in DOMAIN sq : sq[i] = ChangeOf("AddOrUpdate", new[k])
  <2>1. IsFinal(ChangeOf("AddOrUpdate", new[k]), old, new)
    BY Zenon DEF IsFinal
  <2>2. ChangeOf("AddOrUpdate", new[k]) \in ToSet(sq)
    BY <1>1, <1>2, <2>1, Zenon
  <2> QED
    BY <1>3, <2>2, Zenon
<1>7. ASSUME NEW k \in Lost(old, new),
             \A l \in Gained(old, new) : ResourceKey(new[l]) # ResourceKey(old[k])
      PROVE  \E i \in DOMAIN sq : sq[i] = ChangeOf("Delete", old[k])
  <2>1. \A l \in Gained(old, new) : ResourceKey(new[l]) # KeyOf(ChangeOf("Delete", old[k]))
    BY <1>4, <1>7
  <2>2. IsFinal(ChangeOf("Delete", old[k]), old, new)
    BY <2>1, Zenon DEF IsFinal
  <2>3. ChangeOf("Delete", old[k]) \in ToSet(sq)
    BY <1>1, <1>2, <2>2, Zenon
  <2> QED
    BY <1>3, <2>3, Zenon
<1>8. Transforms(sq, old, new)
  <2>1. \A i \in DOMAIN sq : sq[i].op = "AddOrUpdate" =>
          \E k \in Gained(old, new) : sq[i].resource = new[k]
    BY <1>4, <1>5
  <2>2. \A k \in Gained(old, new) : \E i \in DOMAIN sq :
          sq[i].op = "AddOrUpdate" /\ sq[i].resource = new[k]
    BY <1>4, <1>6
  <2>3. \A i \in DOMAIN sq : sq[i].op = "Delete" =>
          /\ \E k \in Lost(old, new) : KeyOf(sq[i]) = ResourceKey(old[k])
          /\ \A k \in Gained(old, new) : KeyOf(sq[i]) # ResourceKey(new[k])
    BY <1>4, <1>5
  <2>4. \A k \in Lost(old, new) :
          (\A l \in Gained(old, new) : ResourceKey(new[l]) # ResourceKey(old[k])) =>
            \E i \in DOMAIN sq : sq[i].op = "Delete" /\ KeyOf(sq[i]) = ResourceKey(old[k])
    BY <1>4, <1>7
  <2> QED
    BY <1>2, <2>1, <2>2, <2>3, <2>4 DEF Transforms
<1> QED
  BY <1>2, <1>8 DEF sq, cr

\* Refreshing keeps that: the resources of the updates are already the latest.
LEMMA RefreshedTransforms ==
  ASSUME NEW R, NEW old, NEW new, NEW cs \in Seq(ChangeSet(R)), Transforms(cs, old, new),
         NEW T, T \subseteq R, \A k \in DOMAIN new : new[k] \in T,
         \A r, s \in T : ResourceKey(r) = ResourceKey(s) => r = s
  PROVE  LET rf == RefreshResources(cs, T)
         IN rf \in Seq(ChangeSet(R)) /\ Transforms(rf, old, new)
<1> DEFINE rf == RefreshResources(cs, T)
<1>1. /\ rf \in Seq(ChangeSet(R)) /\ DOMAIN rf = DOMAIN cs
      /\ \A i \in DOMAIN cs :
           /\ rf[i].op = cs[i].op
           /\ KeyOf(rf[i]) = KeyOf(cs[i])
           /\ \/ rf[i].resource \in T
              \/ /\ rf[i].resource = cs[i].resource
                 /\ \A r \in T : ResourceKey(r) # KeyOf(cs[i])
  BY RefreshOK
<1> HIDE DEF rf
<1>2. \A k \in Gained(old, new) : new[k] \in T
  BY DEF Gained
<1>3. ASSUME NEW i \in DOMAIN cs, NEW k \in Gained(old, new), cs[i].resource = new[k]
      PROVE  rf[i].resource = new[k]
  <2>1. KeyOf(cs[i]) = ResourceKey(new[k]) /\ KeyOf(rf[i]) = ResourceKey(rf[i].resource)
    BY <1>3 DEF KeyOf
  <2> QED
    BY <1>1, <1>2, <1>3, <2>1
<1>4. Transforms(rf, old, new)
  <2>1. \A i, j \in DOMAIN rf : KeyOf(rf[i]) = KeyOf(rf[j]) => i = j
    BY <1>1 DEF Transforms
  <2>2. \A i, j \in DOMAIN rf : i < j /\ rf[j].op = "Delete" => rf[i].op = "Delete"
    BY <1>1 DEF Transforms
  <2>3. \A i \in DOMAIN rf : rf[i].op = "AddOrUpdate" =>
          \E k \in Gained(old, new) : rf[i].resource = new[k]
    BY <1>1, <1>3 DEF Transforms
  <2>4. ASSUME NEW k \in Gained(old, new)
        PROVE  \E i \in DOMAIN rf : rf[i].op = "AddOrUpdate" /\ rf[i].resource = new[k]
    <3>1. PICK i \in DOMAIN cs : cs[i].op = "AddOrUpdate" /\ cs[i].resource = new[k]
      BY DEF Transforms
    <3> QED
      BY <1>1, <1>3, <3>1
  <2>5. \A i \in DOMAIN rf : rf[i].op = "Delete" =>
          /\ \E k \in Lost(old, new) : KeyOf(rf[i]) = ResourceKey(old[k])
          /\ \A k \in Gained(old, new) : KeyOf(rf[i]) # ResourceKey(new[k])
    BY <1>1 DEF Transforms
  <2>6. ASSUME NEW k \in Lost(old, new),
               \A l \in Gained(old, new) : ResourceKey(new[l]) # ResourceKey(old[k])
        PROVE  \E i \in DOMAIN rf : rf[i].op = "Delete" /\ KeyOf(rf[i]) = ResourceKey(old[k])
    <3>1. PICK i \in DOMAIN cs : cs[i].op = "Delete" /\ KeyOf(cs[i]) = ResourceKey(old[k])
      BY <2>6 DEF Transforms
    <3> QED
      BY <1>1, <3>1
  <2> QED
    BY <2>1, <2>2, <2>3, <2>4, <2>5, <2>6 DEF Transforms
<1> QED
  BY <1>1, <1>4 DEF rf

-----------------------------------------------------------------------------
(* The files that the changes leave behind *)

FilesOf(f) == {Content(f[k]) : k \in DOMAIN f}

LEMMA FilesOfElement ==
  ASSUME NEW f, NEW x
  PROVE  x \in FilesOf(f) <=> \E k \in DOMAIN f : x = Content(f[k])
BY DEF FilesOf

LEMMA ContentKey ==
  ASSUME NEW r
  PROVE  Content(r).key = ResourceKey(r)
BY DEF Content

\* A file survives a list of changes when none is about its resource; an
\* update writes the file of its resource when no later change follows it.
LEMMA AppliedElement ==
  ASSUME NEW files, NEW cs, NEW x
  PROVE  x \in Applied(files, cs) <=>
           \/ x \in files /\ \A c \in Finals(cs) : KeyOf(c) # x.key
           \/ \E c \in Finals(cs) : c.op = "AddOrUpdate" /\ x = Content(c.resource)
BY DEF Applied, KeyOf

\* When there is one change for each resource, all are final.
LEMMA FinalsOfDistinct ==
  ASSUME NEW R, NEW cs \in Seq(ChangeSet(R)),
         \A i, j \in DOMAIN cs : KeyOf(cs[i]) = KeyOf(cs[j]) => i = j,
         NEW c
  PROVE  c \in Finals(cs) <=> \E i \in DOMAIN cs : c = cs[i]
<1>1. DOMAIN cs = 1..Len(cs) /\ Len(cs) \in Nat
  BY LenProperties
<1>2. \A i, j \in DOMAIN cs :
        j > i => ResourceKey(cs[j].resource) # ResourceKey(cs[i].resource)
  BY <1>1 DEF KeyOf
<1>3. {j \in DOMAIN cs : \A k \in DOMAIN cs :
         k > j => ResourceKey(cs[k].resource) # ResourceKey(cs[j].resource)} = DOMAIN cs
  BY <1>2
<1> QED
  BY <1>3 DEF Finals

\* The names whose owner is unchanged, as far as IsEqual can tell, really
\* have the same file, and their owner has lost no other name.
Faithful(old, new) ==
  \A k \in DOMAIN old \cap DOMAIN new : IsEqual(old[k], new[k]) =>
    /\ Content(old[k]) = Content(new[k])
    /\ \A l \in Lost(old, new) : ResourceKey(old[l]) # ResourceKey(new[k])

\* No file of G is the file of a resource that owns a name.
Apart(G, f) == \A g \in G : \A k \in DOMAIN f : g.key # ResourceKey(f[k])

\* The changes from old to new, applied to the files of old, yield the files
\* of new, and leave the files of other resources alone.
LEMMA UpToDate ==
  ASSUME NEW R, NEW cs \in Seq(ChangeSet(R)), NEW old, NEW new, Transforms(cs, old, new),
         OneResourcePerKey(new), Faithful(old, new),
         NEW G, Apart(G, old), Apart(G, new)
  PROVE  Applied(FilesOf(old) \cup G, cs) = FilesOf(new) \cup G
<1>1. \A c : c \in Finals(cs) <=> \E i \in DOMAIN cs : c = cs[i]
  BY FinalsOfDistinct DEF Transforms
<1>2. \A i \in DOMAIN cs : cs[i].op \in {"Delete", "AddOrUpdate"}
  <2>1. \A i \in DOMAIN cs : cs[i] \in ChangeSet(R)
    BY LenProperties, ElementOfSeq
  <2> QED
    BY <2>1 DEF ChangeSet
<1>3. \A i \in DOMAIN cs : KeyOf(cs[i]) = ResourceKey(cs[i].resource)
  BY DEF KeyOf
<1>4. ASSUME NEW x \in Applied(FilesOf(old) \cup G, cs)
      PROVE  x \in FilesOf(new) \cup G
  <2>1. CASE \E c \in Finals(cs) : c.op = "AddOrUpdate" /\ x = Content(c.resource)
    <3>1. PICK i \in DOMAIN cs : cs[i].op = "AddOrUpdate" /\ x = Content(cs[i].resource)
      BY <1>1, <2>1
    <3>2. PICK k \in Gained(old, new) : cs[i].resource = new[k]
      BY <3>1 DEF Transforms
    <3> QED
      BY <3>1, <3>2, FilesOfElement DEF Gained
  <2>2. CASE x \in FilesOf(old) \cup G /\ \A c \in Finals(cs) : KeyOf(c) # x.key
    <3>1. SUFFICES ASSUME NEW k \in DOMAIN old, x = Content(old[k])
                   PROVE  x \in FilesOf(new)
      BY <2>2, FilesOfElement
    <3>2. \A i \in DOMAIN cs : KeyOf(cs[i]) # ResourceKey(old[k])
      BY <1>1, <2>2, <3>1, ContentKey
    <3>3. \A l \in Gained(old, new) : ResourceKey(new[l]) # ResourceKey(old[k])
      <4> TAKE l \in Gained(old, new)
      <4>1. PICK i \in DOMAIN cs : cs[i].op = "AddOrUpdate" /\ cs[i].resource = new[l]
        BY DEF Transforms
      <4> QED
        BY <1>3, <3>2, <4>1
    <3>4. k \notin Lost(old, new)
      BY <3>2, <3>3 DEF Transforms
    <3>5. k \in DOMAIN new /\ ResourceKey(old[k]) = ResourceKey(new[k])
      BY <3>4 DEF Lost
    <3>6. IsEqual(old[k], new[k])
      BY <3>3, <3>5 DEF Gained
    <3> QED
      BY <3>1, <3>5, <3>6, FilesOfElement DEF Faithful
  <2> QED
    BY <1>4, <2>1, <2>2, AppliedElement
<1>5. ASSUME NEW x \in G
      PROVE  x \in Applied(FilesOf(old) \cup G, cs)
  <2>1. \A i \in DOMAIN cs : KeyOf(cs[i]) # x.key
    <3> TAKE i \in DOMAIN cs
    <3>1. CASE cs[i].op = "AddOrUpdate"
      <4>1. PICK k \in Gained(old, new) : cs[i].resource = new[k]
        BY <3>1 DEF Transforms
      <4> QED
        BY <1>3, <4>1 DEF Apart, Gained
    <3>2. CASE cs[i].op = "Delete"
      <4>1. PICK k \in Lost(old, new) : KeyOf(cs[i]) = ResourceKey(old[k])
        BY <3>2 DEF Transforms
      <4> QED
        BY <4>1 DEF Apart, Lost
    <3> QED
      BY <1>2, <3>1, <3>2
  <2> QED
    BY <1>1, <2>1, AppliedElement
<1>6. ASSUME NEW k \in DOMAIN new
      PROVE  Content(new[k]) \in Applied(FilesOf(old) \cup G, cs)
  <2>1. CASE \E l \in Gained(old, new) : ResourceKey(new[l]) = ResourceKey(new[k])
    <3>1. PICK l \in Gained(old, new) : ResourceKey(new[l]) = ResourceKey(new[k])
      BY <2>1
    <3>2. new[l] = new[k]
      BY <3>1 DEF OneResourcePerKey, Gained
    <3>3. PICK i \in DOMAIN cs : cs[i].op = "AddOrUpdate" /\ cs[i].resource = new[l]
      BY DEF Transforms
    <3> QED
      BY <1>1, <3>2, <3>3, AppliedElement
  <2>2. CASE \A l \in Gained(old, new) : ResourceKey(new[l]) # ResourceKey(new[k])
    <3>1. k \in DOMAIN old /\ IsEqual(old[k], new[k])
      BY <2>2 DEF Gained
    <3>2. /\ Content(old[k]) = Content(new[k])
          /\ \A l \in Lost(old, new) : ResourceKey(old[l]) # ResourceKey(new[k])
      BY <3>1 DEF Faithful
    <3>3. \A i \in DOMAIN cs : KeyOf(cs[i]) # ResourceKey(new[k])
      <4> TAKE i \in DOMAIN cs
      <4>1. CASE cs[i].op = "AddOrUpdate"
        BY <1>3, <2>2, <4>1 DEF Transforms
      <4>2. CASE cs[i].op = "Delete"
        BY <3>2, <4>2 DEF Transforms
      <4> QED
        BY <1>2, <4>1, <4>2
    <3>4. Content(new[k]) \in FilesOf(old)
      BY <3>1, <3>2, FilesOfElement
    <3> QED
      BY <1>1, <3>3, <3>4, AppliedElement, ContentKey
  <2> QED
    BY <2>1, <2>2
<1>7. ASSUME NEW x \in FilesOf(new)
      PROVE  x \in Applied(FilesOf(old) \cup G, cs)
  <2>1. PICK k \in DOMAIN new : x = Content(new[k])
    BY FilesOfElement
  <2> QED
    BY <1>6, <2>1
<1> QED
  BY <1>4, <1>5, <1>7, Zenon

\* Applying a list of changes and then another is applying both in a row.
LEMMA AppliedConcat ==
  ASSUME NEW R, NEW s \in Seq(ChangeSet(R)), NEW t \in Seq(ChangeSet(R)), NEW files
  PROVE  Applied(files, s \o t) = Applied(Applied(files, s), t)
<1>0. \A k : (\E d \in ToSet(t) : KeyOf(d) = k) <=> (\E d \in Finals(t) : KeyOf(d) = k)
  <2>1. \A i \in DOMAIN t : /\ LastChanges(t)[i] \in Finals(t)
                            /\ KeyOf(LastChanges(t)[i]) = KeyOf(t[i])
    BY LastChangesOK
  <2>2. Finals(t) \subseteq ToSet(t)
    BY DEF Finals, ToSet
  <2> QED
    BY <2>1, <2>2 DEF ToSet
<1>1. Finals(s \o t) = Finals(t) \cup {c \in Finals(s) : \A d \in Finals(t) : KeyOf(d) # KeyOf(c)}
  <2>1. Finals(s \o t) = Finals(t) \cup {c \in Finals(s) : \A d \in ToSet(t) : KeyOf(d) # KeyOf(c)}
    BY FinalsOfConcat
  <2>2. \A c : (\A d \in ToSet(t) : KeyOf(d) # KeyOf(c)) <=> (\A d \in Finals(t) : KeyOf(d) # KeyOf(c))
    BY <1>0
  <2> QED
    BY <2>1, <2>2
<1>2. \A c : KeyOf(c) = Content(c.resource).key
  BY ContentKey DEF KeyOf
<1>3. ASSUME NEW x
      PROVE  x \in Applied(files, s \o t) <=> x \in Applied(Applied(files, s), t)
  <2>1. x \in Applied(files, s \o t) <=>
          \/ x \in files /\ \A c \in Finals(s \o t) : KeyOf(c) # x.key
          \/ \E c \in Finals(s \o t) : c.op = "AddOrUpdate" /\ x = Content(c.resource)
    BY AppliedElement
  <2>2. x \in Applied(Applied(files, s), t) <=>
          \/ x \in Applied(files, s) /\ \A c \in Finals(t) : KeyOf(c) # x.key
          \/ \E c \in Finals(t) : c.op = "AddOrUpdate" /\ x = Content(c.resource)
    BY AppliedElement
  <2>3. x \in Applied(files, s) <=>
          \/ x \in files /\ \A c \in Finals(s) : KeyOf(c) # x.key
          \/ \E c \in Finals(s) : c.op = "AddOrUpdate" /\ x = Content(c.resource)
    BY AppliedElement
  <2>4. (\A c \in Finals(s \o t) : KeyOf(c) # x.key)
          <=> /\ \A c \in Finals(s) : KeyOf(c) # x.key
              /\ \A c \in Finals(t) : KeyOf(c) # x.key
    BY <1>1
  <2>5. (\E c \in Finals(s \o t) : c.op = "AddOrUpdate" /\ x = Content(c.resource))
          <=> \/ \E c \in Finals(t) : c.op = "AddOrUpdate" /\ x = Content(c.resource)
              \/ /\ \E c \in Finals(s) : c.op = "AddOrUpdate" /\ x = Content(c.resource)
                 /\ \A c \in Finals(t) : KeyOf(c) # x.key
    BY <1>1, <1>2
  <2> QED
    BY <2>1, <2>2, <2>3, <2>4, <2>5
<1> QED
  BY <1>3

\* Applying no change, and applying one more: Applied is the fold of Apply.
LEMMA AppliedNothing ==
  ASSUME NEW files
  PROVE  Applied(files, <<>>) = files
BY DEF Applied, Finals

LEMMA AppliedOne ==
  ASSUME NEW files, NEW R, NEW c \in ChangeSet(R)
  PROVE  Applied(files, <<c>>) = Apply(files, c)
<1>1. Finals(<<c>>) = {c}
  BY DEF Finals
<1> QED
  BY <1>1 DEF Applied, Apply

\* Only the operations and the resources of the changes matter.
LEMMA AppliedSame ==
  ASSUME NEW files, NEW s, NEW t, DOMAIN t = DOMAIN s,
         \A i \in DOMAIN s : t[i].op = s[i].op /\ t[i].resource = s[i].resource
  PROVE  Applied(files, t) = Applied(files, s)
<1> DEFINE last(u) == {j \in DOMAIN u : \A k \in DOMAIN u :
                         k > j => ResourceKey(u[k].resource) # ResourceKey(u[j].resource)}
<1>1. last(t) = last(s) /\ last(s) \subseteq DOMAIN s
  OBVIOUS
<1>2. Finals(s) = {s[i] : i \in last(s)} /\ Finals(t) = {t[i] : i \in last(t)}
  BY DEF Finals
<1> HIDE DEF last
<1>3. \A f : (\A c \in Finals(t) : KeyOf(c) # f.key) <=> (\A c \in Finals(s) : KeyOf(c) # f.key)
  BY <1>1, <1>2 DEF KeyOf
<1>4. \A x : (\E c \in Finals(t) : c.op = "AddOrUpdate" /\ x = Content(c.resource))
               <=> (\E c \in Finals(s) : c.op = "AddOrUpdate" /\ x = Content(c.resource))
  BY <1>1, <1>2
<1>5. \A x : x \in Applied(files, t) <=> x \in Applied(files, s)
  BY <1>3, <1>4, AppliedElement
<1> QED
  BY <1>5

-----------------------------------------------------------------------------
(* The resources that own hosts and listeners *)

\* The image of a finite set is finite.
LEMMA ImageFinite ==
  ASSUME NEW S, IsFiniteSet(S), NEW f, f = [x \in S |-> f[x]],
         NEW T, \A y \in T : \E x \in S : y = f[x]
  PROVE  IsFiniteSet(T)
<1>1. PICK U : U = {f[x] : x \in S}
  OBVIOUS
<1>2. f \in [S -> U]
  BY <1>1
<1>3. f \in Surjection(S, U)
  BY <1>1, <1>2 DEF Surjection
<1>4. IsFiniteSet(U)
  BY <1>3, FS_Surjection
<1>5. T \subseteq U
  BY <1>1
<1> QED
  BY <1>4, <1>5, FS_Subset

\* The minions of a master, each of them once.
LEMMA ByNameOK ==
  ASSUME NEW S, IsFiniteSet(S), \A m \in S : m.name \in Nat,
         \A m, n \in S : m.name = n.name => m = n
  PROVE  ByName(S) \in Seq(S) /\ ToSet(ByName(S)) = S
<1> DEFINE N == {m.name : m \in S}
           c == Cardinality(N)
<1>1. IsFiniteSet(N)
  <2> DEFINE f == [m \in S |-> m.name]
  <2>1. f = [m \in S |-> f[m]] /\ \A y \in N : \E m \in S : y = f[m]
    OBVIOUS
  <2> HIDE DEF f, N
  <2> QED
    BY <2>1, ImageFinite
<1>2. N \subseteq Nat
  OBVIOUS
<1>3. /\ c \in Nat
      /\ Sorted(N) \in [1..c -> N]
      /\ \A x \in N : \E i \in 1..c : Sorted(N)[i] = x
  <2> HIDE DEF N
  <2> QED
    BY <1>1, <1>2, SortedOK
<1>4. ByName(S) = [i \in 1..c |-> CHOOSE m \in S : m.name = Sorted(N)[i]]
  BY <1>3 DEF ByName
<1>5. \A i \in 1..c : /\ (CHOOSE m \in S : m.name = Sorted(N)[i]) \in S
                      /\ (CHOOSE m \in S : m.name = Sorted(N)[i]).name = Sorted(N)[i]
  <2> TAKE i \in 1..c
  <2>1. Sorted(N)[i] \in N
    <3> HIDE DEF N, c
    <3> QED
      BY <1>3
  <2>2. \E m \in S : m.name = Sorted(N)[i]
    BY <2>1
  <2> QED
    BY <2>2
<1>6. \A m \in S : \E i \in 1..c : m = CHOOSE n \in S : n.name = Sorted(N)[i]
  <2> TAKE m \in S
  <2>1. PICK i \in 1..c : Sorted(N)[i] = m.name
    BY <1>3
  <2> QED
    BY <1>5, <2>1
<1> HIDE DEF N, c
<1>7. ByName(S) \in [1..c -> S]
  BY <1>4, <1>5
<1>8. \A i \in 1..c : ByName(S)[i] = CHOOSE n \in S : n.name = Sorted(N)[i]
  BY <1>4
<1>9. ByName(S) \in Seq(S)
  BY <1>3, <1>7
<1>10. ASSUME NEW m \in S
       PROVE  \E i \in 1..c : m = ByName(S)[i]
  <2>1. PICK i \in 1..c : m = CHOOSE n \in S : n.name = Sorted(N)[i]
    BY <1>6, Zenon
  <2>2. m = ByName(S)[i]
    BY <1>8, <2>1, Zenon
  <2> QED
    BY <2>2
<1> QED
  BY <1>7, <1>9, <1>10 DEF ToSet

\* The VirtualServerRoutes that the routes of a VirtualServer refer to.
Targets(vs) == UNION {RouteTarget(vs, vs.routes[i]) : i \in DOMAIN vs.routes}

LEMMA RoutesOK ==
  ASSUME StoresOK, NEW vs \in virtualServers
  PROVE  /\ VirtualServerConfiguration(vs).attached \in Seq(virtualServerRoutes)
         /\ ToSet(VirtualServerConfiguration(vs).attached) = Targets(vs)
<1> DEFINE good == {i \in DOMAIN vs.routes : RouteTarget(vs, vs.routes[i]) # {}}
           f == [i \in good |-> TheOne(RouteTarget(vs, vs.routes[i]))]
           n == Cardinality(good)
<1>1. VirtualServerConfiguration(vs).attached = Subsequence(f, good)
  BY DEF VirtualServerConfiguration
<1>2. good \subseteq Nat /\ IsFiniteSet(good)
  <2>1. vs.routes \in Seq([vsr : Nat, path : Nat])
    BY ObjectsAssumption DEF StoresOK, Objects, ObjectType
  <2>2. Len(vs.routes) \in Nat /\ DOMAIN vs.routes = 1..Len(vs.routes)
    BY <2>1, LenProperties
  <2>3. IsFiniteSet(DOMAIN vs.routes) /\ good \subseteq DOMAIN vs.routes
    BY <2>2, FS_Interval
  <2> QED
    BY <2>2, <2>3, FS_Subset
<1>3. \A i \in good : RouteTarget(vs, vs.routes[i]) = {f[i]}
  <2> TAKE i \in good
  <2>1. RouteTarget(vs, vs.routes[i]) # {} /\ f[i] = TheOne(RouteTarget(vs, vs.routes[i]))
    OBVIOUS
  <2>2. f[i] \in RouteTarget(vs, vs.routes[i])
    BY <2>1 DEF TheOne
  <2>3. \A v, w \in RouteTarget(vs, vs.routes[i]) : Key(v) = Key(w)
    BY ObjectsAssumption DEF RouteTarget, StoresOK, Key
  <2>4. \A v, w \in RouteTarget(vs, vs.routes[i]) : v = w
    BY <2>3 DEF RouteTarget, StoresOK, UniqueKeys
  <2> QED
    BY <2>2, <2>4
<1>4. \A i \in good : f[i] \in virtualServerRoutes
  BY <1>3 DEF RouteTarget
<1>5. Targets(vs) = {f[i] : i \in good}
  <2>1. \A i \in DOMAIN vs.routes : i \notin good => RouteTarget(vs, vs.routes[i]) = {}
    OBVIOUS
  <2>2. good \subseteq DOMAIN vs.routes
    OBVIOUS
  <2> HIDE DEF good, f
  <2> QED
    BY <1>3, <2>1, <2>2 DEF Targets
<1> HIDE DEF good, f
<1>6. /\ n \in Nat
      /\ Subsequence(f, good) = [k \in 1..n |-> f[Sorted(good)[k]]]
      /\ \A k \in 1..n : Sorted(good)[k] \in good
      /\ \A i \in good : \E k \in 1..n : Sorted(good)[k] = i
  <2>1. /\ n \in Nat
        /\ Sorted(good) \in [1..n -> good]
        /\ \A i \in good : \E k \in 1..n : Sorted(good)[k] = i
    BY <1>2, SortedOK
  <2>2. Subsequence(f, good) = [k \in DOMAIN Sorted(good) |-> f[Sorted(good)[k]]]
    BY DEF Subsequence
  <2> HIDE DEF n
  <2> QED
    BY <2>1, <2>2
<1> HIDE DEF n
<1>7. Subsequence(f, good) \in [1..n -> virtualServerRoutes]
  BY <1>4, <1>6
<1>8. ToSet(Subsequence(f, good)) = {f[i] : i \in good}
  BY <1>6 DEF ToSet
<1> QED
  BY <1>1, <1>5, <1>6, <1>7, <1>8

\* A resource as the builders of rebuildHosts and rebuildListeners make it.
AcceptedObjects == {o \in Objects : Accepted(o)}
Shaped(r) ==
  /\ r.obj \in AcceptedObjects \ VirtualServerRoutes
  /\ r.attached \in Seq(AcceptedObjects)
  /\ r.validPaths = IF r.obj.kind = "Ingress" THEN ValidPaths(ToSet(r.attached)) ELSE {}

LEMMA StoredAccepted ==
  ASSUME StoresOK
  PROVE  /\ ingresses \subseteq AcceptedObjects
         /\ virtualServers \subseteq AcceptedObjects
         /\ virtualServerRoutes \subseteq AcceptedObjects
         /\ transportServers \subseteq AcceptedObjects
BY DEF StoresOK, AcceptedObjects, Objects

\* The minions attached to a master.
MinionsFor(ing) == IF IsMaster(ing) THEN UNION {MinionsOf(h) : h \in ing.hosts} ELSE {}

LEMMA MinionsOK ==
  ASSUME StoresOK, StoresFinite, NEW ing
  PROVE  /\ MinionsFor(ing) \subseteq ingresses
         /\ ByName(MinionsFor(ing)) \in Seq(MinionsFor(ing))
         /\ ToSet(ByName(MinionsFor(ing))) = MinionsFor(ing)
<1>1. MinionsFor(ing) \subseteq ingresses
  BY DEF MinionsFor, MinionsOf
<1>2. IsFiniteSet(MinionsFor(ing))
  BY <1>1, FS_Subset DEF StoresFinite
<1>3. \A m \in ingresses : m.name \in Nat /\ Key(m) = <<"Ingress", m.name>>
  BY ObjectsAssumption DEF StoresOK, Objects, ObjectType, Key
<1>4. \A m, n \in ingresses : m.name = n.name => m = n
  BY <1>3 DEF StoresOK, UniqueKeys
<1> QED
  BY <1>1, <1>2, <1>3, <1>4, ByNameOK

LEMMA ResourceOK ==
  ASSUME StoresOK, StoresFinite, NEW o \in HostObjects
  PROVE  /\ Resource(o).obj = o
         /\ Shaped(Resource(o))
         /\ o.kind = "Ingress" =>
              Resource(o).validHosts = [h \in o.hosts |-> h \notin LostHosts(o)]
<1>1. o \in AcceptedObjects \ VirtualServerRoutes
  BY HostObjectsOK, ObjectsAssumption, StoredAccepted DEF HostObjects
<1>2. CASE o.kind = "Ingress"
  <2>1. Resource(o) = IngressConfiguration(o)
    BY <1>2 DEF Resource
  <2>2. /\ Resource(o).obj = o
        /\ Resource(o).attached = ByName(MinionsFor(o))
        /\ Resource(o).validPaths = ValidPaths(MinionsFor(o))
        /\ Resource(o).validHosts = [h \in o.hosts |-> h \notin LostHosts(o)]
    <3> DEFINE vh == [h \in o.hosts |-> h \notin LostHosts(o)]
               ws == {<<"host is taken", h>> : h \in LostHosts(o)}
    <3>1. IngressConfiguration(o) =
            [obj |-> o, attached |-> ByName(MinionsFor(o)), validHosts |-> vh,
             validPaths |-> ValidPaths(MinionsFor(o)), warnings |-> ws, port |-> 0]
      BY DEF IngressConfiguration, MinionsFor
    <3> HIDE DEF vh, ws
    <3>2. /\ Resource(o).obj = o
          /\ Resource(o).attached = ByName(MinionsFor(o))
          /\ Resource(o).validPaths = ValidPaths(MinionsFor(o))
          /\ Resource(o).validHosts = vh
      BY <2>1, <3>1
    <3> QED
      BY <3>2 DEF vh
  <2>3. MinionsFor(o) \subseteq AcceptedObjects
    BY MinionsOK, StoredAccepted
  <2>4. /\ ByName(MinionsFor(o)) \in Seq(AcceptedObjects)
        /\ ToSet(ByName(MinionsFor(o))) = MinionsFor(o)
    BY <2>3, MinionsOK
  <2> QED
    BY <1>1, <1>2, <2>2, <2>4 DEF Shaped
<1>3. CASE o.kind = "VirtualServer"
  <2>1. Resource(o) = VirtualServerConfiguration(o)
    BY <1>3 DEF Resource
  <2>2. Resource(o).obj = o /\ Resource(o).validPaths = {}
    <3>1. VirtualServerConfiguration(o).obj = o /\ VirtualServerConfiguration(o).validPaths = {}
      BY DEF VirtualServerConfiguration
    <3> QED
      BY <2>1, <3>1
  <2>3. o \in virtualServers
    BY <1>3, ObjectsAssumption DEF HostObjects, StoresOK
  <2>4. Resource(o).attached \in Seq(AcceptedObjects)
    <3>1. Resource(o).attached \in Seq(virtualServerRoutes)
      BY <2>1, <2>3, RoutesOK
    <3> QED
      BY <3>1, StoredAccepted
  <2> QED
    BY <1>1, <1>3, <2>2, <2>4 DEF Shaped
<1>4. CASE o.kind = "TransportServer"
  <2>1. Resource(o).obj = o /\ Resource(o).validPaths = {} /\ Resource(o).attached = <<>>
    BY <1>4 DEF Resource, TransportServerConfiguration
  <2> QED
    BY <1>1, <1>4, <2>1 DEF Shaped
<1> QED
  BY <1>2, <1>3, <1>4, HostObjectsOK

\* A map from hosts to the resources that own them.
HostMap(f) ==
  /\ DOMAIN f \subseteq Nat /\ IsFiniteSet(DOMAIN f) /\ OneResourcePerKey(f)
  /\ \A h \in DOMAIN f :
       /\ Shaped(f[h])
       /\ h \in f[h].obj.hosts /\ f[h].obj.hosts \subseteq DOMAIN f
       /\ f[h].obj.kind = "Ingress" =>
            f[h].validHosts = [g \in f[h].obj.hosts |-> ResourceKey(f[g]) = ResourceKey(f[h])]
       /\ f[h].obj.kind # "Ingress" => f[h].obj.hosts = {h}

LEMMA HostNames ==
  ASSUME StoresOK, StoresFinite
  PROVE  /\ UNION {o.hosts : o \in HostObjects} \subseteq Nat
         /\ IsFiniteSet(UNION {o.hosts : o \in HostObjects})
<1>1. \A o \in HostObjects : o.hosts \subseteq Nat /\ IsFiniteSet(o.hosts)
  BY HostObjectsOK, ObjectsAssumption DEF ObjectType
<1>2. IsFiniteSet(HostObjects)
  <2>1. IsFiniteSet((ingresses \cup virtualServers) \cup transportServers)
    BY FS_Union DEF StoresFinite
  <2>2. HostObjects \subseteq (ingresses \cup virtualServers) \cup transportServers
    BY DEF HostObjects
  <2> QED
    BY <2>1, <2>2, FS_Subset
<1> DEFINE S == {o.hosts : o \in HostObjects}
           f == [o \in HostObjects |-> o.hosts]
<1>3. f = [o \in HostObjects |-> f[o]] /\ \A y \in S : \E o \in HostObjects : y = f[o]
  OBVIOUS
<1>4. \A T \in S : IsFiniteSet(T) /\ T \subseteq Nat
  BY <1>1
<1> HIDE DEF S, f
<1>5. IsFiniteSet(S)
  BY <1>2, <1>3, ImageFinite
<1>6. IsFiniteSet(UNION S) /\ UNION S \subseteq Nat
  BY <1>4, <1>5, FS_UNION
<1> QED
  BY <1>6 DEF S

\* The owner of a host, as rebuildHosts determines it.
LEMMA HostOwner ==
  ASSUME StoresOK, StoresFinite, hosts = NewHosts, NEW h \in DOMAIN hosts
  PROVE  /\ hosts[h] = Resource(Holder(HostClaimants(h)))
         /\ Holder(HostClaimants(h)) \in HostObjects
         /\ h \in Holder(HostClaimants(h)).hosts
         /\ hosts[h].obj = Holder(HostClaimants(h))
<1>1. h \in UNION {o.hosts : o \in HostObjects}
  BY DEF NewHosts
<1>2. hosts[h] = Resource(Holder(HostClaimants(h)))
  BY <1>1 DEF NewHosts
<1>3. Holder(HostClaimants(h)) \in HostClaimants(h)
  BY <1>1, HostHolder
<1>4. Holder(HostClaimants(h)) \in HostObjects /\ h \in Holder(HostClaimants(h)).hosts
  BY <1>3 DEF HostClaimants
<1> QED
  BY <1>2, <1>4, ResourceOK

LEMMA HostObjectKeys ==
  ASSUME StoresOK, NEW o \in HostObjects, NEW p \in HostObjects, Key(o) = Key(p)
  PROVE  o = p
<1>1. o.kind = p.kind
  BY DEF Key
<1>2. /\ o.kind = "Ingress" => o \in ingresses /\ p \in ingresses
      /\ o.kind = "VirtualServer" => o \in virtualServers /\ p \in virtualServers
      /\ o.kind = "TransportServer" => o \in transportServers /\ p \in transportServers
  BY <1>1, ObjectsAssumption DEF StoresOK, HostObjects
<1> QED
  BY <1>2, HostObjectsOK DEF StoresOK, UniqueKeys

LEMMA HostMapNow == StoresOK /\ StoresFinite /\ hosts = NewHosts => HostMap(hosts)
<1> SUFFICES ASSUME StoresOK, StoresFinite, hosts = NewHosts PROVE HostMap(hosts)
  OBVIOUS
<1>1. DOMAIN hosts = UNION {o.hosts : o \in HostObjects}
  BY DEF NewHosts
<1>2. DOMAIN hosts \subseteq Nat /\ IsFiniteSet(DOMAIN hosts)
  BY <1>1, HostNames
<1>3. OneResourcePerKey(hosts)
  <2> SUFFICES ASSUME NEW g \in DOMAIN hosts, NEW h \in DOMAIN hosts,
                      ResourceKey(hosts[g]) = ResourceKey(hosts[h])
               PROVE  hosts[g] = hosts[h]
    BY DEF OneResourcePerKey
  <2>1. Key(Holder(HostClaimants(g))) = Key(Holder(HostClaimants(h)))
    BY HostOwner DEF ResourceKey
  <2>2. Holder(HostClaimants(g)) = Holder(HostClaimants(h))
    BY <2>1, HostOwner, HostObjectKeys
  <2> QED
    BY <2>2, HostOwner
<1>4. ASSUME NEW h \in DOMAIN hosts
      PROVE  /\ Shaped(hosts[h])
             /\ h \in hosts[h].obj.hosts /\ hosts[h].obj.hosts \subseteq DOMAIN hosts
             /\ hosts[h].obj.kind = "Ingress" =>
                  hosts[h].validHosts =
                    [g \in hosts[h].obj.hosts |-> ResourceKey(hosts[g]) = ResourceKey(hosts[h])]
             /\ hosts[h].obj.kind # "Ingress" => hosts[h].obj.hosts = {h}
  <2>1. PICK o \in HostObjects : o = Holder(HostClaimants(h))
    BY HostOwner
  <2>2. hosts[h] = Resource(o) /\ hosts[h].obj = o /\ h \in o.hosts
    BY <2>1, HostOwner
  <2>3. o.hosts \subseteq DOMAIN hosts
    BY <1>1
  <2>4. o.kind = "Ingress" =>
          Resource(o).validHosts = [g \in o.hosts |-> g \notin LostHosts(o)]
    BY ResourceOK
  <2>5. \A g \in o.hosts : (g \notin LostHosts(o)) = (ResourceKey(hosts[g]) = ResourceKey(hosts[h]))
    <3> TAKE g \in o.hosts
    <3>1. g \notin LostHosts(o) <=> Holder(HostClaimants(g)) = o
      BY DEF LostHosts
    <3>2. Holder(HostClaimants(g)) = o <=> Key(Holder(HostClaimants(g))) = Key(o)
      BY <2>3, HostOwner, HostObjectKeys
    <3>3. ResourceKey(hosts[g]) = Key(Holder(HostClaimants(g))) /\ ResourceKey(hosts[h]) = Key(o)
      BY <2>2, <2>3, HostOwner DEF ResourceKey
    <3> QED
      BY <3>1, <3>2, <3>3
  <2>6. o.kind # "Ingress" => o.hosts = {h}
    <3>1. CASE o.kind = "VirtualServer"
      <4>1. o \in VirtualServers /\ o.valid
        BY <3>1, ObjectsAssumption DEF StoresOK, HostObjects, Accepted
      <4> QED
        BY <2>2, <4>1, ValidationAssumption
    <3>2. CASE o.kind = "TransportServer"
      <4>1. o \in TransportServers /\ o.valid /\ o.listener.protocol = TLSPassthrough
        BY <3>2, ObjectsAssumption DEF StoresOK, HostObjects, Accepted
      <4> QED
        BY <2>2, <4>1, ValidationAssumption
    <3> QED
      BY <3>1, <3>2, HostObjectsOK
  <2>7. Shaped(Resource(o))
    BY ResourceOK
  <2> QED
    BY <2>2, <2>3, <2>4, <2>5, <2>6, <2>7
<1> QED
  BY <1>2, <1>3, <1>4 DEF HostMap

\* A map from listeners to the TransportServers that own them.
ListenerMap(f) ==
  /\ DOMAIN f \subseteq Nat /\ IsFiniteSet(DOMAIN f) /\ OneResourcePerKey(f)
  /\ \A l \in DOMAIN f :
       /\ Shaped(f[l]) /\ f[l].obj \in TransportServers
       /\ f[l].obj.listener.name = l /\ f[l].obj.listener.protocol # TLSPassthrough

\* The owner of a listener, as rebuildListeners determines it.
LEMMA ListenerOwner ==
  ASSUME StoresOK, listeners = NewListeners, NEW l \in DOMAIN listeners
  PROVE  /\ listeners[l] = ListenerConfiguration(Holder(ListenerClaimants(l)))
         /\ listeners[l].obj = Holder(ListenerClaimants(l))
         /\ Holder(ListenerClaimants(l)) \in StreamServers
         /\ Holder(ListenerClaimants(l)).listener.name = l
<1>1. l \in ClaimedListeners /\ listeners[l] = ListenerConfiguration(Holder(ListenerClaimants(l)))
  BY DEF NewListeners, ClaimedListeners
<1>2. Holder(ListenerClaimants(l)) \in ListenerClaimants(l)
      /\ ListenerConfiguration(Holder(ListenerClaimants(l))).obj = Holder(ListenerClaimants(l))
  BY <1>1, ListenersBuiltNow DEF ListenersBuilt
<1>3. \A ts \in ListenerClaimants(l) : ts \in StreamServers /\ ts.listener.name = l
  BY DEF ListenerClaimants, MatchingListeners
<1> QED
  BY <1>1, <1>2, <1>3

LEMMA ListenerMapNow == StoresOK /\ StoresFinite /\ listeners = NewListeners => ListenerMap(listeners)
<1> SUFFICES ASSUME StoresOK, StoresFinite, listeners = NewListeners PROVE ListenerMap(listeners)
  OBVIOUS
<1>1. /\ StreamServers \subseteq transportServers
      /\ \A ts \in StreamServers : ts \in TransportServers /\ ts \in AcceptedObjects
                                   /\ ts.listener.name \in Nat /\ ts.kind = "TransportServer"
                                   /\ ts \notin VirtualServerRoutes
  <2>1. StreamServers \subseteq transportServers
    BY DEF StreamServers
  <2>2. ASSUME NEW ts \in StreamServers
        PROVE  ts \in TransportServers /\ ts \in AcceptedObjects
    BY <2>1, StoredAccepted DEF StoresOK
  <2>3. ASSUME NEW ts \in TransportServers
        PROVE  ts.listener.name \in Nat
    <3>1. ts \in ObjectType
      BY ObjectsAssumption DEF Objects
    <3> QED
      BY <3>1 DEF ObjectType
  <2>4. \A ts \in TransportServers : ts.kind = "TransportServer" /\ ts \notin VirtualServerRoutes
    BY ObjectsAssumption
  <2> QED
    BY <2>1, <2>2, <2>3, <2>4
<1>2. \A l \in DOMAIN listeners : \E ts \in StreamServers : l = ts.listener.name
  BY ListenerOwner
<1>3. DOMAIN listeners \subseteq Nat
  BY <1>1, <1>2
<1>4. IsFiniteSet(DOMAIN listeners)
  <2>1. IsFiniteSet(StreamServers)
    BY <1>1, FS_Subset DEF StoresFinite
  <2> DEFINE f == [ts \in StreamServers |-> ts.listener.name]
  <2>2. f = [ts \in StreamServers |-> f[ts]] /\ \A l \in DOMAIN listeners : \E ts \in StreamServers : l = f[ts]
    BY <1>2
  <2> HIDE DEF f
  <2> QED
    BY <2>1, <2>2, ImageFinite
<1>5. OneResourcePerKey(listeners)
  <2> SUFFICES ASSUME NEW g \in DOMAIN listeners, NEW h \in DOMAIN listeners,
                      ResourceKey(listeners[g]) = ResourceKey(listeners[h])
               PROVE  listeners[g] = listeners[h]
    BY DEF OneResourcePerKey
  <2>1. Key(Holder(ListenerClaimants(g))) = Key(Holder(ListenerClaimants(h)))
    BY ListenerOwner DEF ResourceKey
  <2>2. Holder(ListenerClaimants(g)) = Holder(ListenerClaimants(h))
    BY <1>1, <2>1, ListenerOwner DEF StoresOK, UniqueKeys
  <2> QED
    BY <2>2, ListenerOwner
<1>6. ASSUME NEW l \in DOMAIN listeners
      PROVE  /\ Shaped(listeners[l]) /\ listeners[l].obj \in TransportServers
             /\ listeners[l].obj.listener.name = l
             /\ listeners[l].obj.listener.protocol # TLSPassthrough
  <2>1. PICK ts \in StreamServers : ts = Holder(ListenerClaimants(l))
    BY ListenerOwner
  <2>2. listeners[l] = ListenerConfiguration(ts) /\ ts.listener.name = l /\ listeners[l].obj = ts
    BY <2>1, ListenerOwner
  <2>3. ListenerConfiguration(ts).attached = <<>> /\ ListenerConfiguration(ts).validPaths = {}
    BY DEF ListenerConfiguration, TransportServerConfiguration
  <2>4. Shaped(listeners[l])
    BY <1>1, <2>2, <2>3 DEF Shaped
  <2> QED
    BY <1>1, <2>2, <2>4 DEF StreamServers
<1> QED
  BY <1>3, <1>4, <1>5, <1>6 DEF ListenerMap

\* IsEqual compares enough: two resources that it does not tell apart have
\* the same config file, though it looks at neither specs nor valid paths.
LEMMA SameContent ==
  ASSUME VersionsTold, NEW r, NEW s, Shaped(r), Shaped(s), IsEqual(r, s)
  PROVE  r.obj = s.obj /\ r.attached = s.attached /\ Content(r) = Content(s)
<1>1. r.obj = s.obj
  BY DEF VersionsTold, Shaped, IsEqual, AcceptedObjects
<1>2. r.attached = s.attached
  <2> DEFINE a == r.attached
             b == s.attached
  <2>1. /\ a \in Seq(AcceptedObjects) /\ b \in Seq(AcceptedObjects) /\ Len(a) = Len(b)
        /\ \A i \in DOMAIN a : MetasEqual(a[i], b[i])
    BY DEF Shaped, IsEqual
  <2> HIDE DEF a, b
  <2>2. DOMAIN a = 1..Len(a) /\ DOMAIN b = 1..Len(a) /\ Len(a) \in Nat
    BY <2>1, LenProperties
  <2>3. \A i \in 1..Len(a) : a[i] \in AcceptedObjects /\ b[i] \in AcceptedObjects
    BY <2>1, <2>2, ElementOfSeq
  <2>4. \A i \in 1..Len(a) : a[i] = b[i]
    BY <2>1, <2>2, <2>3 DEF VersionsTold, AcceptedObjects
  <2>5. a = b
    BY <2>1, <2>4, SeqEqual
  <2> QED
    BY <2>5 DEF a, b
<1>3. r.validPaths = s.validPaths
  BY <1>1, <1>2 DEF Shaped
<1>4. r.validHosts = s.validHosts /\ r.port = s.port
  BY DEF IsEqual
<1> QED
  BY <1>1, <1>2, <1>3, <1>4 DEF Content, ResourceKey

LEMMA FaithfulHosts ==
  ASSUME VersionsTold, NEW old, NEW new, HostMap(old), HostMap(new)
  PROVE  Faithful(old, new)
<1> SUFFICES ASSUME NEW k \in DOMAIN old \cap DOMAIN new, IsEqual(old[k], new[k])
             PROVE  /\ Content(old[k]) = Content(new[k])
                    /\ \A l \in Lost(old, new) : ResourceKey(old[l]) # ResourceKey(new[k])
  BY DEF Faithful
<1>1. old[k].obj = new[k].obj /\ Content(old[k]) = Content(new[k])
  BY SameContent DEF HostMap
<1>2. ASSUME NEW l \in Lost(old, new), ResourceKey(old[l]) = ResourceKey(new[k])
      PROVE  FALSE
  <2>1. l \in DOMAIN old /\ (l \in DOMAIN new => ResourceKey(old[l]) # ResourceKey(new[l]))
    BY DEF Lost
  <2>2. old[l] = old[k]
    BY <1>1, <1>2, <2>1 DEF HostMap, OneResourcePerKey, ResourceKey
  <2>3. l \in old[k].obj.hosts
    BY <2>1, <2>2 DEF HostMap
  <2>4. l \in DOMAIN new
    BY <1>1, <2>3 DEF HostMap
  <2>5. CASE old[k].obj.kind = "Ingress"
    <3>1. /\ old[k].validHosts = [g \in old[k].obj.hosts |-> ResourceKey(old[g]) = ResourceKey(old[k])]
          /\ new[k].validHosts = [g \in new[k].obj.hosts |-> ResourceKey(new[g]) = ResourceKey(new[k])]
      BY <1>1, <2>5 DEF HostMap
    <3>2. /\ old[k].validHosts[l] = (ResourceKey(old[l]) = ResourceKey(old[k]))
          /\ new[k].validHosts[l] = (ResourceKey(new[l]) = ResourceKey(new[k]))
      BY <1>1, <2>3, <3>1
    <3>3. old[k].validHosts = new[k].validHosts
      BY DEF IsEqual
    <3> QED
      BY <1>2, <2>1, <2>2, <2>4, <3>2, <3>3
  <2>6. CASE old[k].obj.kind # "Ingress"
    <3>1. l = k
      <4>1. \A h \in DOMAIN old : old[h].obj.kind # "Ingress" => old[h].obj.hosts = {h}
        BY DEF HostMap
      <4> QED
        BY <2>3, <2>6, <4>1
    <3> QED
      BY <1>2, <2>1, <2>4, <3>1
  <2> QED
    BY <2>5, <2>6
<1> QED
  BY <1>1, <1>2

LEMMA FaithfulListeners ==
  ASSUME VersionsTold, NEW old, NEW new, ListenerMap(old), ListenerMap(new)
  PROVE  Faithful(old, new)
<1> SUFFICES ASSUME NEW k \in DOMAIN old \cap DOMAIN new, IsEqual(old[k], new[k])
             PROVE  /\ Content(old[k]) = Content(new[k])
                    /\ \A l \in Lost(old, new) : ResourceKey(old[l]) # ResourceKey(new[k])
  BY DEF Faithful
<1>1. old[k].obj = new[k].obj /\ Content(old[k]) = Content(new[k])
  BY SameContent DEF ListenerMap
<1>2. ASSUME NEW l \in Lost(old, new), ResourceKey(old[l]) = ResourceKey(new[k])
      PROVE  FALSE
  <2>1. l \in DOMAIN old /\ (l \in DOMAIN new => ResourceKey(old[l]) # ResourceKey(new[l]))
    BY DEF Lost
  <2>2. old[l] = old[k]
    BY <1>1, <1>2, <2>1 DEF ListenerMap, OneResourcePerKey, ResourceKey
  <2>3. l = k
    BY <2>1, <2>2 DEF ListenerMap
  <2> QED
    BY <1>2, <2>1, <2>3
<1> QED
  BY <1>1, <1>2

-----------------------------------------------------------------------------
(* The changes that an operation returns *)

\* Two lists with the same operations on the same resources.
SameChanges(s, t) ==
  /\ DOMAIN s = DOMAIN t
  /\ \A i \in DOMAIN t : s[i].op = t[i].op /\ s[i].resource = t[i].resource

\* A validation error that goes with a change alters neither.
LEMMA AnswersOK ==
  ASSUME NEW R, NEW cs \in Seq(ChangeSet(R)), NEW ps, Answers(cs, ps)
  PROVE  /\ changes' \in Seq(ChangeSet(R))
         /\ SameChanges(changes', cs)
         /\ ps \subseteq problems'
<1>0. Len(cs) \in Nat /\ DOMAIN cs = 1..Len(cs) /\ \A i \in DOMAIN cs : cs[i] \in ChangeSet(R)
  BY LenProperties, ElementOfSeq
<1>1. CASE changes' = cs /\ ps \subseteq problems'
  BY <1>1 DEF SameChanges
<1>2. ASSUME NEW m, changes' = [cs EXCEPT ![m].error = TRUE]
      PROVE  changes' \in Seq(ChangeSet(R)) /\ SameChanges(changes', cs)
  <2>1. changes' = [i \in 1..Len(cs) |->
                      IF i = m THEN [cs[i] EXCEPT !.error = TRUE] ELSE cs[i]]
    BY <1>0, <1>2
  <2>2. \A i \in 1..Len(cs) : /\ [cs[i] EXCEPT !.error = TRUE] \in ChangeSet(R)
                              /\ [cs[i] EXCEPT !.error = TRUE].op = cs[i].op
                              /\ [cs[i] EXCEPT !.error = TRUE].resource = cs[i].resource
    BY <1>0 DEF ChangeSet
  <2>3. \A i \in 1..Len(cs) : /\ changes'[i] \in ChangeSet(R)
                              /\ changes'[i].op = cs[i].op
                              /\ changes'[i].resource = cs[i].resource
    BY <1>0, <2>1, <2>2
  <2>4. changes' \in [1..Len(cs) -> ChangeSet(R)]
    BY <2>1, <2>3
  <2> QED
    BY <1>0, <2>3, <2>4 DEF SameChanges
<1>3. CASE Respond(cs, ps)
  BY <1>1, <1>3 DEF Respond
<1>4. ASSUME NEW o \in Objects, RespondTo(o, cs, ps)
      PROVE  /\ changes' \in Seq(ChangeSet(R))
             /\ SameChanges(changes', cs)
             /\ ps \subseteq problems'
  <2>1. \/ changes' = cs /\ ps \subseteq problems'
        \/ /\ \E m : changes' = [cs EXCEPT ![m].error = TRUE]
           /\ ps \subseteq problems'
    BY <1>4 DEF RespondTo, Respond
  <2> QED
    BY <1>1, <1>2, <2>1
<1> QED
  BY <1>3, <1>4 DEF Answers

\* The resources that the changes of an operation may be about.
Owners(f) == {f[k] : k \in DOMAIN f}
ResourcesAbout ==
  Owners(hosts) \cup Owners(hosts') \cup Owners(listeners) \cup Owners(listeners')
    \cup NewResources'

LEMMA HostChangesOK ==
  ASSUME HostMap(hosts), HostMap(hosts'), NEW R, Owners(hosts) \subseteq R,
         NewResources' \subseteq R, Owners(hosts') \subseteq NewResources',
         \A r, s \in NewResources' : ResourceKey(r) = ResourceKey(s) => r = s
  PROVE  HostChanges \in Seq(ChangeSet(R)) /\ Transforms(HostChanges, hosts, hosts')
<1>1. OwnerMap(hosts, R) /\ OwnerMap(hosts', R)
  BY DEF HostMap, OwnerMap, Owners
<1> DEFINE sq == SquashResourceChanges(CreateResourceChanges(hosts, hosts'))
<1>2. sq \in Seq(ChangeSet(R)) /\ Transforms(sq, hosts, hosts')
  BY <1>1, SquashedTransforms
<1>3. \A k \in DOMAIN hosts' : hosts'[k] \in NewResources'
  BY DEF Owners
<1>4. HostChanges = RefreshResources(sq, NewResources')
  BY DEF HostChanges
<1> HIDE DEF sq
<1> QED
  BY <1>2, <1>3, <1>4, RefreshedTransforms

LEMMA ListenerChangesOK ==
  ASSUME ListenerMap(listeners), ListenerMap(listeners'), NEW R,
         Owners(listeners) \subseteq R, Owners(listeners') \subseteq R
  PROVE  ListenerChanges \in Seq(ChangeSet(R))
         /\ Transforms(ListenerChanges, listeners, listeners')
<1>1. OwnerMap(listeners, R) /\ OwnerMap(listeners', R)
  BY DEF ListenerMap, OwnerMap, Owners
<1> QED
  BY <1>1, SquashedTransforms DEF ListenerChanges

\* What the maps of a Configuration whose stores are in order look like.
Maps ==
  /\ HostMap(hosts) /\ ListenerMap(listeners)
  /\ Owners(hosts) \subseteq NewResources
  /\ \A r \in NewResources : Shaped(r)
  /\ \A r, s \in NewResources : ResourceKey(r) = ResourceKey(s) => r = s
  /\ \A h \in DOMAIN hosts, l \in DOMAIN listeners :
       ResourceKey(hosts[h]) # ResourceKey(listeners[l])

LEMMA MapsNow == StoresOK /\ StoresFinite /\ InStep => Maps
<1> SUFFICES ASSUME StoresOK, StoresFinite, InStep PROVE Maps
  OBVIOUS
<1>1. HostMap(hosts) /\ ListenerMap(listeners)
  BY HostMapNow, ListenerMapNow DEF InStep
<1>2. Owners(hosts) \subseteq NewResources
  BY HostOwner DEF Owners, NewResources, InStep
<1>3. \A r \in NewResources : \E o \in HostObjects : r = Resource(o) /\ r.obj = o /\ Shaped(r)
  BY ResourceOK DEF NewResources
<1>4. \A r, s \in NewResources : ResourceKey(r) = ResourceKey(s) => r = s
  BY <1>3, HostObjectKeys DEF ResourceKey
<1>5. ASSUME NEW h \in DOMAIN hosts, NEW l \in DOMAIN listeners
      PROVE  ResourceKey(hosts[h]) # ResourceKey(listeners[l])
  <2> DEFINE o == hosts[h].obj
             ts == listeners[l].obj
  <2>1. o \in HostObjects /\ ts \in StreamServers
    BY HostOwner, ListenerOwner DEF InStep
  <2>2. ts \in transportServers /\ ts.kind = "TransportServer" /\ ts.listener.protocol # TLSPassthrough
    BY <2>1, ObjectsAssumption DEF StreamServers, StoresOK
  <2>3. o.kind = "TransportServer" => o \in transportServers /\ o.listener.protocol = TLSPassthrough
    BY <2>1, ObjectsAssumption DEF HostObjects, StoresOK
  <2>4. Key(o) # Key(ts)
    <3> HIDE DEF o, ts
    <3>1. ASSUME Key(o) = Key(ts) PROVE FALSE
      <4>1. o.kind = "TransportServer"
        BY <2>2, <3>1 DEF Key
      <4> QED
        BY <2>2, <2>3, <3>1, <4>1 DEF StoresOK, UniqueKeys
    <3> QED
      BY <3>1
  <2> QED
    BY <2>4 DEF ResourceKey
<1> QED
  BY <1>1, <1>2, <1>3, <1>4, <1>5 DEF Maps

LEMMA MapsNext == (StoresOK /\ StoresFinite /\ InStep)' => Maps'
BY MapsNow, PTL

\* Every resource that a change may be about is well formed.
LEMMA ResourcesShaped ==
  ASSUME Maps, Maps', NEW r \in ResourcesAbout
  PROVE  Shaped(r)
BY DEF Maps, ResourcesAbout, HostMap, ListenerMap, Owners

\* The changes of every operation are changes of such resources.
LEMMA ChangesAbout ==
  ASSUME Maps, Maps', Next
  PROVE  changes' \in Seq(ChangeSet(ResourcesAbout))
<1> DEFINE R == ResourcesAbout
<1>1. /\ Owners(hosts) \subseteq R /\ NewResources' \subseteq R
      /\ Owners(listeners) \subseteq R /\ Owners(listeners') \subseteq R
  BY DEF ResourcesAbout
<1> HIDE DEF R
<1>2. HostChanges \in Seq(ChangeSet(R)) /\ ListenerChanges \in Seq(ChangeSet(R))
  BY <1>1, HostChangesOK, ListenerChangesOK DEF Maps
<1>3. /\ ListenerChanges \o HostChanges \in Seq(ChangeSet(R))
      /\ ListenerChanges \o <<>> = ListenerChanges
  BY <1>2, ConcatElements, ConcatEmptySeq
<1>4. changes' \in Seq(ChangeSet(R))
  <2>1. CASE NoRebuild
    BY <2>1 DEF NoRebuild, Respond
  <2>2. CASE HostRebuild
    BY <1>2, <2>2, AnswersOK DEF HostRebuild
  <2>3. CASE ListenerRebuild
    BY <1>2, <1>3, <2>3, AnswersOK DEF ListenerRebuild
  <2>4. CASE FullRebuild
    BY <1>3, <2>4, AnswersOK DEF FullRebuild
  <2> QED
    BY <2>1, <2>2, <2>3, <2>4, StepKinds
<1> QED
  BY <1>4 DEF R

\* What the Configuration returns has its type: every change deletes or
\* updates a resource of a kind that has a config file of its own.
THEOREM TypeCorrect == Spec => []TypeOK
<1> DEFINE Typed(cs) == \A i \in DOMAIN cs :
                          /\ cs[i].op \in {"Delete", "AddOrUpdate"}
                          /\ cs[i].resource.obj \in Objects \ VirtualServerRoutes
                          /\ cs[i].error \in BOOLEAN
<1>1. Init => Typed(changes)
  BY DEF Init
<1>2. Maps /\ Maps' /\ Typed(changes) /\ [Next]_vars => Typed(changes)'
  <2> SUFFICES ASSUME Maps, Maps', Typed(changes), [Next]_vars PROVE Typed(changes')
    OBVIOUS
  <2>1. CASE Next
    <3>1. changes' \in Seq(ChangeSet(ResourcesAbout))
      BY <2>1, ChangesAbout
    <3>2. \A i \in DOMAIN changes' : changes'[i] \in ChangeSet(ResourcesAbout)
      BY <3>1, LenProperties, ElementOfSeq
    <3>3. \A r \in ResourcesAbout : r.obj \in Objects \ VirtualServerRoutes
      BY ResourcesShaped DEF Shaped, AcceptedObjects
    <3> QED
      BY <3>2, <3>3 DEF ChangeSet
  <2>2. CASE UNCHANGED vars
    BY <2>2 DEF vars
  <2> QED
    BY <2>1, <2>2
<1>3. StoresOK /\ Maps /\ Typed(changes) => TypeOK
  BY DEF TypeOK, Maps, HostMap, ListenerMap, Shaped, AcceptedObjects
<1> QED
  BY <1>1, <1>2, <1>3, MapsNow, MapsNext, InStepInvariant, PTL DEF Spec

-----------------------------------------------------------------------------
(* The changes are complete *)

LEMMA FilesSplit ==
  ASSUME NEW f, NEW g
  PROVE  Files(f, g) = FilesOf(f) \cup FilesOf(g)
BY DEF Files, FilesOf

LEMMA FilesApart ==
  ASSUME NEW f, NEW g,
         \A k \in DOMAIN f, l \in DOMAIN g : ResourceKey(f[k]) # ResourceKey(g[l])
  PROVE  Apart(FilesOf(f), g) /\ Apart(FilesOf(g), f)
BY FilesOfElement, ContentKey DEF Apart

\* No TransportServer that owns a host is turned, in one operation, into one
\* that owns a listener.
HostOwnersStay ==
  \A h \in DOMAIN hosts, l \in DOMAIN listeners' :
    ResourceKey(hosts[h]) # ResourceKey(listeners'[l])

LEMMA ChangesCompleteStep ==
  ASSUME VersionsTold, Maps, Maps', Next, HostOwnersStay
  PROVE  Applied(Files(hosts, listeners), changes') = Files(hosts', listeners')
<1> DEFINE R == ResourcesAbout
           F == FilesOf(hosts) \cup FilesOf(listeners)
<1>1. /\ Owners(hosts) \subseteq R /\ NewResources' \subseteq R
      /\ Owners(listeners) \subseteq R /\ Owners(listeners') \subseteq R
  BY DEF ResourcesAbout
<1> HIDE DEF R
<1>2. /\ HostChanges \in Seq(ChangeSet(R)) /\ Transforms(HostChanges, hosts, hosts')
      /\ ListenerChanges \in Seq(ChangeSet(R))
      /\ Transforms(ListenerChanges, listeners, listeners')
  BY <1>1, HostChangesOK, ListenerChangesOK DEF Maps
<1>3. Faithful(hosts, hosts') /\ Faithful(listeners, listeners')
  BY FaithfulHosts, FaithfulListeners DEF Maps
<1>4. OneResourcePerKey(hosts') /\ OneResourcePerKey(listeners')
  BY DEF Maps, HostMap, ListenerMap
<1>5. /\ Apart(FilesOf(hosts), listeners) /\ Apart(FilesOf(listeners), hosts)
      /\ Apart(FilesOf(hosts'), listeners') /\ Apart(FilesOf(listeners'), hosts')
      /\ Apart(FilesOf(hosts), listeners') /\ Apart(FilesOf(listeners'), hosts)
  BY FilesApart DEF Maps, HostOwnersStay
<1>6. ASSUME NEW cs \in Seq(ChangeSet(R)), NEW ps, Answers(cs, ps)
      PROVE  Applied(F, changes') = Applied(F, cs)
  <2>1. SameChanges(changes', cs)
    BY <1>6, AnswersOK
  <2> HIDE DEF F
  <2> QED
    BY <2>1, AppliedSame DEF SameChanges
<1>7. Applied(F, changes') = FilesOf(hosts') \cup FilesOf(listeners')
  <2>1. CASE NoRebuild
    <3>1. changes' = <<>> /\ hosts' = hosts /\ listeners' = listeners
      BY <2>1 DEF NoRebuild, Respond
    <3> QED
      BY <3>1, AppliedNothing
  <2>2. CASE HostRebuild
    <3>1. Applied(F, changes') = Applied(F, HostChanges) /\ listeners' = listeners
      BY <1>2, <1>6, <2>2 DEF HostRebuild
    <3>2. Apart(FilesOf(listeners), hosts) /\ Apart(FilesOf(listeners), hosts')
      BY <1>5, <3>1
    <3>3. Applied(F, HostChanges) = FilesOf(hosts') \cup FilesOf(listeners)
      BY <1>2, <1>3, <1>4, <3>2, UpToDate
    <3> QED
      BY <3>1, <3>3
  <2>3. CASE ListenerRebuild
    <3>1. ListenerChanges \o <<>> = ListenerChanges
      BY <1>2, ConcatEmptySeq
    <3>2. Applied(F, changes') = Applied(F, ListenerChanges) /\ hosts' = hosts
      BY <1>2, <1>6, <2>3, <3>1 DEF ListenerRebuild
    <3>3. Applied(FilesOf(listeners) \cup FilesOf(hosts), ListenerChanges)
            = FilesOf(listeners') \cup FilesOf(hosts)
      BY <1>2, <1>3, <1>4, <1>5, UpToDate
    <3>4. F = FilesOf(listeners) \cup FilesOf(hosts)
      OBVIOUS
    <3> QED
      BY <3>2, <3>3, <3>4
  <2>4. CASE FullRebuild
    <3>1. Applied(F, changes') = Applied(F, ListenerChanges \o HostChanges)
      BY <1>2, <1>6, <2>4, ConcatElements DEF FullRebuild
    <3>2. Applied(F, ListenerChanges \o HostChanges)
            = Applied(Applied(F, ListenerChanges), HostChanges)
      BY <1>2, AppliedConcat
    <3>3. Applied(FilesOf(listeners) \cup FilesOf(hosts), ListenerChanges)
            = FilesOf(listeners') \cup FilesOf(hosts)
      BY <1>2, <1>3, <1>4, <1>5, UpToDate
    <3>4. Applied(FilesOf(hosts) \cup FilesOf(listeners'), HostChanges)
            = FilesOf(hosts') \cup FilesOf(listeners')
      BY <1>2, <1>3, <1>4, <1>5, UpToDate
    <3>5. /\ F = FilesOf(listeners) \cup FilesOf(hosts)
          /\ FilesOf(listeners') \cup FilesOf(hosts) = FilesOf(hosts) \cup FilesOf(listeners')
      OBVIOUS
    <3> QED
      BY <3>1, <3>2, <3>3, <3>4, <3>5
  <2> QED
    BY <2>1, <2>2, <2>3, <2>4, StepKinds
<1> QED
  BY <1>7, FilesSplit

\* The changes that any operation returns bring the config files of NGINX up
\* to date, as long as IsEqual can tell the versions of an object apart and no
\* operation edits a TLS passthrough TransportServer into one for a listener.
THEOREM ChangesCompleteTheorem ==
  ASSUME VersionsTold
  PROVE  Spec /\ [][HostOwnersStay]_vars => ChangesComplete
<1>1. ASSUME Maps, Maps', Next, HostOwnersStay
      PROVE  FilesAfter(Len(changes')) = Files(hosts', listeners')
  <2>1. changes' \in Seq(ChangeSet(ResourcesAbout))
    BY <1>1, ChangesAbout
  <2>2. SubSeq(changes', 1, Len(changes')) = changes'
    BY <2>1, SubSeqFull
  <2> QED
    BY <1>1, <2>2, ChangesCompleteStep DEF FilesAfter
<1>2. Maps /\ Maps' /\ [Next]_vars /\ [HostOwnersStay]_vars
        => [FilesAfter(Len(changes')) = Files(hosts', listeners')]_vars
  BY <1>1
<1> QED
  BY <1>2, MapsNow, InStepInvariant, PTL DEF Spec, ChangesComplete

-----------------------------------------------------------------------------
(* Nothing is dropped silently *)

\* What is attached to the owner of a host.
LEMMA AttachedOK ==
  ASSUME StoresOK, StoresFinite, InStep, NEW h \in DOMAIN hosts
  PROVE  LET o == hosts[h].obj
             A == ToSet(hosts[h].attached)
         IN /\ o \in HostObjects /\ h \in o.hosts
            /\ o.kind = "Ingress" => o \in ingresses /\ ~IsMinion(o) /\ A = MinionsFor(o)
            /\ o.kind = "VirtualServer" => o \in virtualServers /\ A = Targets(o)
            /\ o.kind = "TransportServer" => A = {}
            /\ o.kind \in {"Ingress", "VirtualServer", "TransportServer"}
<1>1. PICK o \in HostObjects : hosts[h] = Resource(o) /\ hosts[h].obj = o /\ h \in o.hosts
  BY HostOwner DEF InStep
<1>2. o.kind \in {"Ingress", "VirtualServer", "TransportServer"}
  BY HostObjectsOK
<1>3. CASE o.kind = "Ingress"
  <2>1. o \in ingresses /\ ~IsMinion(o)
    BY <1>3, ObjectsAssumption DEF HostObjects, StoresOK
  <2>2. Resource(o).attached = ByName(MinionsFor(o))
    BY <1>3 DEF Resource, IngressConfiguration, MinionsFor
  <2> QED
    BY <1>1, <1>3, <2>1, <2>2, MinionsOK
<1>4. CASE o.kind = "VirtualServer"
  <2>1. o \in virtualServers
    BY <1>4, ObjectsAssumption DEF HostObjects, StoresOK
  <2>2. Resource(o) = VirtualServerConfiguration(o)
    BY <1>4 DEF Resource
  <2> QED
    BY <1>1, <1>4, <2>1, <2>2, RoutesOK
<1>5. CASE o.kind = "TransportServer"
  <2>1. Resource(o).attached = <<>>
    BY <1>5 DEF Resource, TransportServerConfiguration
  <2> QED
    BY <1>1, <1>5, <2>1 DEF ToSet
<1> QED
  BY <1>1, <1>2, <1>3, <1>4, <1>5

LEMMA InServiceElement ==
  ASSUME NEW o
  PROVE  o \in InService <=>
           \/ \E h \in DOMAIN hosts : o = hosts[h].obj \/ o \in ToSet(hosts[h].attached)
           \/ \E l \in DOMAIN listeners : o = listeners[l].obj
BY DEF InService

\* The keys of the problems that are known.
LEMMA ProblemKeys ==
  ASSUME InStep, NEW k
  PROVE  (\E p \in hostProblems \cup listenerProblems : p.key = k) <=>
           \/ \E o \in HostObjects :
                Key(o) = k /\ \A h \in o.hosts : ResourceKey(hosts[h]) # Key(o)
           \/ \E m \in ingresses :
                /\ Key(m) = k /\ IsMinion(m)
                /\ \A h \in m.hosts : h \in DOMAIN hosts =>
                     ~(hosts[h].obj.kind = "Ingress" /\ IsMaster(hosts[h].obj))
           \/ \E v \in virtualServerRoutes : Key(v) = k /\ OwnerOf(v) = {}
           \/ \E v \in virtualServerRoutes : Key(v) = k /\ \E r \in OwnerOf(v) :
                \A i \in DOMAIN r.attached : r.attached[i].name # v.name
           \/ \E ts \in StreamServers : Key(ts) = k /\ ts.listener.name \notin DOMAIN listeners
           \/ \E ts \in StreamServers :
                /\ Key(ts) = k /\ ts.listener.name \in DOMAIN listeners
                /\ ~IsEqual(ListenerConfiguration(ts), listeners[ts.listener.name])
<1>1. \A o, e, r, m : Problem(o, e, r, m).key = Key(o)
  BY DEF Problem
<1>2. (\E p \in ResourcesWithoutActiveHost : p.key = k) <=>
        \E o \in HostObjects : Key(o) = k /\ \A h \in o.hosts : ResourceKey(hosts[h]) # Key(o)
  BY <1>1 DEF ResourcesWithoutActiveHost
<1>3. (\E p \in OrphanMinions : p.key = k) <=>
        \E m \in ingresses :
          /\ Key(m) = k /\ IsMinion(m)
          /\ \A h \in m.hosts : h \in DOMAIN hosts =>
               ~(hosts[h].obj.kind = "Ingress" /\ IsMaster(hosts[h].obj))
  <2> DEFINE S == {ing \in ingresses :
                     /\ IsMinion(ing)
                     /\ \A h \in ing.hosts : h \in DOMAIN hosts =>
                          ~(hosts[h].obj.kind = "Ingress" /\ IsMaster(hosts[h].obj))}
  <2>1. OrphanMinions = {Problem(m, FALSE, "NoIngressMasterFound", <<"no master", 0>>) : m \in S}
    BY DEF OrphanMinions
  <2> HIDE DEF S
  <2>2. (\E p \in OrphanMinions : p.key = k) <=> \E m \in S : Key(m) = k
    BY <1>1, <2>1
  <2> QED
    BY <2>2 DEF S
<1>4. (\E p \in OrphanOrIgnoredVsrs : p.key = k) <=>
        \/ \E v \in virtualServerRoutes : Key(v) = k /\ OwnerOf(v) = {}
        \/ \E v \in virtualServerRoutes : Key(v) = k /\ \E r \in OwnerOf(v) :
             \A i \in DOMAIN r.attached : r.attached[i].name # v.name
  <2> DEFINE S == {vsr \in virtualServerRoutes : OwnerOf(vsr) = {}}
             T(v) == {s \in OwnerOf(v) : \A i \in DOMAIN s.attached : s.attached[i].name # v.name}
             P == {Problem(v, FALSE, "NoVirtualServerFound", <<"no VirtualServer", 0>>) : v \in S}
             Q(v) == {Problem(v, FALSE, "Ignored", <<"ignored", r.obj.name>>) : r \in T(v)}
             U == UNION {Q(v) : v \in virtualServerRoutes}
  <2>1. OrphanOrIgnoredVsrs = P \cup U
    BY DEF OrphanOrIgnoredVsrs
  <2>10. \A v : v \in S <=> v \in virtualServerRoutes /\ OwnerOf(v) = {}
    OBVIOUS
  <2>2. \A v : (\E p \in Q(v) : p.key = k) <=> Key(v) = k /\ \E r \in OwnerOf(v) : r \in T(v)
    <3>1. \A v : \A r \in T(v) : r \in OwnerOf(v)
      OBVIOUS
    <3> HIDE DEF T
    <3> QED
      BY <1>1, <3>1
  <2>3. (\E p \in U : p.key = k) <=> \E v \in virtualServerRoutes : \E p \in Q(v) : p.key = k
    <3> HIDE DEF Q
    <3> QED
      OBVIOUS
  <2>4. (\E p \in P : p.key = k) <=> \E v \in S : Key(v) = k
    <3> HIDE DEF S
    <3> QED
      BY <1>1
  <2>5. \A v : (\E r \in OwnerOf(v) : r \in T(v)) <=>
          \E r \in OwnerOf(v) : \A i \in DOMAIN r.attached : r.attached[i].name # v.name
    OBVIOUS
  <2> HIDE DEF P, Q, S, T, U
  <2>6. (\E p \in OrphanOrIgnoredVsrs : p.key = k) <=>
          (\E p \in P : p.key = k) \/ (\E p \in U : p.key = k)
    BY <2>1
  <2>7. (\E p \in P : p.key = k) <=> \E v \in virtualServerRoutes : Key(v) = k /\ OwnerOf(v) = {}
    BY <2>4, <2>10, Zenon
  <2>8. (\E p \in U : p.key = k) <=>
          \E v \in virtualServerRoutes : Key(v) = k /\ \E r \in OwnerOf(v) : r \in T(v)
    BY <2>2, <2>3, Zenon
  <2>9. (\E p \in U : p.key = k) <=>
          \E v \in virtualServerRoutes : Key(v) = k /\ \E r \in OwnerOf(v) :
            \A i \in DOMAIN r.attached : r.attached[i].name # v.name
    BY <2>5, <2>8, Zenon
  <2> QED
    BY <2>6, <2>7, <2>9, Zenon
<1>5. (\E p \in NewListenerProblems : p.key = k) <=>
        \/ \E ts \in StreamServers : Key(ts) = k /\ ts.listener.name \notin DOMAIN listeners
        \/ \E ts \in StreamServers :
             /\ Key(ts) = k /\ ts.listener.name \in DOMAIN listeners
             /\ ~IsEqual(ListenerConfiguration(ts), listeners[ts.listener.name])
  <2> DEFINE S == {t \in StreamServers : t.listener.name \notin DOMAIN listeners}
             T == {t \in StreamServers :
                     /\ t.listener.name \in DOMAIN listeners
                     /\ ~IsEqual(ListenerConfiguration(t), listeners[t.listener.name])}
             P == {Problem(t, FALSE, "Rejected", <<"listener doesn't exist", t.listener.name>>) : t \in S}
             Q == {Problem(t, FALSE, "Rejected", <<"listener is taken", t.listener.name>>) : t \in T}
  <2>1. NewListenerProblems = P \cup Q
    BY DEF NewListenerProblems
  <2>2. /\ (\E p \in P : p.key = k) <=> \E t \in S : Key(t) = k
        /\ (\E p \in Q : p.key = k) <=> \E t \in T : Key(t) = k
    <3> HIDE DEF S, T
    <3> QED
      BY <1>1
  <2> HIDE DEF P, Q
  <2> QED
    BY <2>1, <2>2
<1>6. hostProblems \cup listenerProblems =
        ((ResourcesWithoutActiveHost \cup OrphanMinions) \cup OrphanOrIgnoredVsrs)
          \cup NewListenerProblems
  BY DEF InStep, NewHostProblems
<1> QED
  BY <1>2, <1>3, <1>4, <1>5, <1>6

\* Each kind of stored object, by its key.
LEMMA StoredKinds ==
  ASSUME StoresOK
  PROVE  /\ \A o \in ingresses : o.kind = "Ingress"
         /\ \A o \in virtualServers : o.kind = "VirtualServer"
         /\ \A o \in virtualServerRoutes : o.kind = "VirtualServerRoute"
         /\ \A o \in transportServers : o.kind = "TransportServer"
         /\ \A o, p \in Stored : Key(o) = Key(p) => o = p
         /\ HostObjects \subseteq Stored /\ StreamServers \subseteq Stored
<1>1. /\ \A o \in ingresses : o.kind = "Ingress"
      /\ \A o \in virtualServers : o.kind = "VirtualServer"
      /\ \A o \in virtualServerRoutes : o.kind = "VirtualServerRoute"
      /\ \A o \in transportServers : o.kind = "TransportServer"
  BY ObjectsAssumption DEF StoresOK
<1>2. \A o, p : Key(o) = Key(p) => o.kind = p.kind
  BY DEF Key
<1>3. \A o, p \in Stored : Key(o) = Key(p) => o = p
  BY <1>1, <1>2 DEF Stored, StoresOK, UniqueKeys
<1>4. HostObjects \subseteq Stored /\ StreamServers \subseteq Stored
  BY DEF HostObjects, StreamServers, Stored
<1> QED
  BY <1>1, <1>3, <1>4

\* A host object is served when it owns one of its hosts.
LEMMA HostObjectServed ==
  ASSUME StoresOK, StoresFinite, InStep, NEW o \in HostObjects
  PROVE  o \in InService <=> \E p \in o.hosts : ResourceKey(hosts[p]) = Key(o)
<1>1. \A h \in DOMAIN hosts : ToSet(hosts[h].attached) \cap HostObjects = {}
  <2> SUFFICES ASSUME NEW h \in DOMAIN hosts, NEW x \in ToSet(hosts[h].attached), x \in HostObjects
               PROVE  FALSE
    OBVIOUS
  <2>1. hosts[h].obj.kind \in {"Ingress", "VirtualServer", "TransportServer"}
    BY AttachedOK
  <2>2. CASE hosts[h].obj.kind = "Ingress"
    <3>1. x \in MinionsFor(hosts[h].obj)
      BY <2>2, AttachedOK
    <3>2. x \in ingresses /\ IsMinion(x)
      BY <3>1 DEF MinionsFor, MinionsOf
    <3> QED
      BY <3>2, StoredKinds DEF HostObjects
  <2>3. CASE hosts[h].obj.kind = "VirtualServer"
    <3>1. x \in Targets(hosts[h].obj)
      BY <2>3, AttachedOK
    <3>2. x \in virtualServerRoutes
      BY <3>1 DEF Targets, RouteTarget
    <3> QED
      BY <3>2, StoredKinds DEF HostObjects
  <2>4. CASE hosts[h].obj.kind = "TransportServer"
    BY <2>4, AttachedOK
  <2> QED
    BY <2>1, <2>2, <2>3, <2>4
<1>2. \A l \in DOMAIN listeners : listeners[l].obj # o
  <2> TAKE l \in DOMAIN listeners
  <2>1. listeners[l].obj \in StreamServers
    BY ListenerOwner DEF InStep
  <2> QED
    BY <2>1, StoredKinds DEF HostObjects, StreamServers
<1>3. o \in InService <=> \E h \in DOMAIN hosts : o = hosts[h].obj
  BY <1>1, <1>2, InServiceElement
<1>4. o.hosts \subseteq DOMAIN hosts
  BY DEF InStep, NewHosts
<1>5. \A h \in DOMAIN hosts : h \in hosts[h].obj.hosts /\ hosts[h].obj \in HostObjects
  BY HostOwner DEF InStep
<1>6. \A h \in DOMAIN hosts : o = hosts[h].obj <=> Key(o) = ResourceKey(hosts[h])
  BY <1>5, HostObjectKeys DEF ResourceKey
<1> QED
  BY <1>3, <1>4, <1>5, <1>6

\* A minion is served when a master owns its host.
LEMMA MinionServed ==
  ASSUME StoresOK, StoresFinite, InStep, NEW m \in ingresses, IsMinion(m)
  PROVE  m \in InService <=> \E h \in m.hosts : /\ h \in DOMAIN hosts
                                                /\ hosts[h].obj.kind = "Ingress"
                                                /\ IsMaster(hosts[h].obj)
<1>1. m.kind = "Ingress" /\ m \notin virtualServerRoutes /\ m \notin HostObjects
  BY StoredKinds DEF HostObjects
<1>2. \A h \in DOMAIN hosts : hosts[h].obj # m
  BY <1>1, HostOwner DEF InStep
<1>3. \A l \in DOMAIN listeners : listeners[l].obj # m
  <2> TAKE l \in DOMAIN listeners
  <2>1. listeners[l].obj \in StreamServers
    BY ListenerOwner DEF InStep
  <2> QED
    BY <1>1, <2>1, StoredKinds DEF StreamServers
<1>4. m \in InService <=> \E h \in DOMAIN hosts : m \in ToSet(hosts[h].attached)
  BY <1>2, <1>3, InServiceElement
<1>5. ASSUME NEW h \in DOMAIN hosts
      PROVE  m \in ToSet(hosts[h].attached) <=>
               /\ hosts[h].obj.kind = "Ingress" /\ IsMaster(hosts[h].obj) /\ h \in m.hosts
  <2> DEFINE o == hosts[h].obj
  <2>1. o.kind \in {"Ingress", "VirtualServer", "TransportServer"} /\ h \in o.hosts
    BY AttachedOK
  <2>2. CASE o.kind = "Ingress"
    <3>1. ToSet(hosts[h].attached) = MinionsFor(o) /\ o \in ingresses
      BY <2>2, AttachedOK
    <3>2. IsMaster(o) => o.hosts = {h}
      <4>1. o \in Ingresses /\ o.valid
        BY <3>1 DEF StoresOK, Accepted
      <4> HIDE DEF o
      <4> QED
        BY <2>1, <4>1, ValidationAssumption DEF IsMaster
    <3>3. IsMaster(o) => (m \in MinionsFor(o) <=> h \in m.hosts)
      BY <3>2 DEF MinionsFor, MinionsOf
    <3>4. ~IsMaster(o) => MinionsFor(o) = {}
      BY DEF MinionsFor
    <3> QED
      BY <2>2, <3>1, <3>3, <3>4
  <2>3. CASE o.kind = "VirtualServer"
    <3>1. ToSet(hosts[h].attached) = Targets(o)
      BY <2>3, AttachedOK
    <3>2. Targets(o) \subseteq virtualServerRoutes
      BY DEF Targets, RouteTarget
    <3> QED
      BY <1>1, <2>3, <3>1, <3>2
  <2>4. CASE o.kind = "TransportServer"
    BY <2>4, AttachedOK
  <2> QED
    BY <2>1, <2>2, <2>3, <2>4
<1> QED
  BY <1>4, <1>5

\* A VirtualServerRoute is served when the VirtualServer that owns its host
\* has it attached.
LEMMA RouteServed ==
  ASSUME StoresOK, StoresFinite, InStep, NEW v \in virtualServerRoutes
  PROVE  v \in InService <=>
           /\ OwnerOf(v) # {}
           /\ \A r \in OwnerOf(v) : \E i \in DOMAIN r.attached : r.attached[i].name = v.name
<1>1. v.kind = "VirtualServerRoute" /\ v \notin HostObjects /\ v \notin ingresses
  BY StoredKinds DEF HostObjects
<1>2. \A h \in DOMAIN hosts : hosts[h].obj # v
  BY <1>1, HostOwner DEF InStep
<1>3. \A l \in DOMAIN listeners : listeners[l].obj # v
  <2> TAKE l \in DOMAIN listeners
  <2>1. listeners[l].obj \in StreamServers
    BY ListenerOwner DEF InStep
  <2> QED
    BY <1>1, <2>1, StoredKinds DEF StreamServers
<1>4. v \in InService <=> \E h \in DOMAIN hosts : v \in ToSet(hosts[h].attached)
  BY <1>2, <1>3, InServiceElement
<1>5. PICK g : v.hosts = {g}
  <2>1. v \in VirtualServerRoutes /\ v.valid
    BY DEF StoresOK, Accepted
  <2> QED
    BY <2>1, ValidationAssumption
<1>6. ASSUME NEW h \in DOMAIN hosts, v \in ToSet(hosts[h].attached)
      PROVE  h = g /\ hosts[h].obj.kind = "VirtualServer"
  <2> DEFINE o == hosts[h].obj
  <2>1. o.kind \in {"Ingress", "VirtualServer", "TransportServer"} /\ h \in o.hosts
    BY AttachedOK
  <2>2. CASE o.kind = "Ingress"
    <3>1. v \in MinionsFor(o)
      BY <1>6, <2>2, AttachedOK
    <3> QED
      BY <1>1, <3>1 DEF MinionsFor, MinionsOf
  <2>3. CASE o.kind = "VirtualServer"
    <3>1. v \in Targets(o)
      BY <1>6, <2>3, AttachedOK
    <3>2. v.hosts = o.hosts
      BY <3>1 DEF Targets, RouteTarget
    <3> QED
      BY <1>5, <2>1, <2>3, <3>2
  <2>4. CASE o.kind = "TransportServer"
    BY <1>6, <2>4, AttachedOK
  <2> QED
    BY <2>1, <2>2, <2>3, <2>4
<1>7. OwnerOf(v) = IF g \in DOMAIN hosts /\ hosts[g].obj.kind = "VirtualServer"
                     THEN {hosts[g]} ELSE {}
  BY <1>5 DEF OwnerOf
<1>8. ASSUME g \in DOMAIN hosts, hosts[g].obj.kind = "VirtualServer"
      PROVE  v \in ToSet(hosts[g].attached) <=>
               \E i \in DOMAIN hosts[g].attached : hosts[g].attached[i].name = v.name
  <2>1. ToSet(hosts[g].attached) \subseteq virtualServerRoutes
    BY <1>8, AttachedOK DEF Targets, RouteTarget
  <2>2. \A w \in virtualServerRoutes : w.name = v.name => w = v
    BY <1>1, StoredKinds DEF Key, Stored
  <2> QED
    BY <2>1, <2>2 DEF ToSet
<1> QED
  BY <1>4, <1>6, <1>7, <1>8

\* A TransportServer on a listener is served when nothing tells it from the
\* owner of the listener.
LEMMA StreamServed ==
  ASSUME StoresOK, StoresFinite, InStep, NEW ts \in StreamServers
  PROVE  ts \in InService <=>
           /\ ts.listener.name \in DOMAIN listeners
           /\ IsEqual(ListenerConfiguration(ts), listeners[ts.listener.name])
<1>1. ts \in transportServers /\ ts.kind = "TransportServer" /\ ts \notin HostObjects
  BY StoredKinds DEF HostObjects, StreamServers
<1>2. \A h \in DOMAIN hosts : hosts[h].obj # ts /\ ts \notin ToSet(hosts[h].attached)
  <2> TAKE h \in DOMAIN hosts
  <2>1. hosts[h].obj # ts
    BY <1>1, HostOwner DEF InStep
  <2>2. ts \notin ingresses /\ ts \notin virtualServerRoutes
    BY <1>1, StoredKinds
  <2>3. \A o : ts \notin MinionsFor(o) /\ ts \notin Targets(o)
    BY <2>2 DEF MinionsFor, MinionsOf, Targets, RouteTarget
  <2> QED
    BY <2>1, <2>3, AttachedOK
<1>3. ts \in InService <=> \E l \in DOMAIN listeners : ts = listeners[l].obj
  BY <1>2, InServiceElement
<1>4. ListenerConfiguration(ts).obj = ts
  BY DEF ListenerConfiguration, TransportServerConfiguration
<1>5. \A r : IsEqual(r, r)
  BY DEF IsEqual, MetasEqual
<1>6. ASSUME NEW l \in DOMAIN listeners, ts = listeners[l].obj
      PROVE  ts.listener.name = l /\ listeners[l] = ListenerConfiguration(ts)
  BY <1>6, ListenerOwner DEF InStep
<1>7. ASSUME ts.listener.name \in DOMAIN listeners,
             IsEqual(ListenerConfiguration(ts), listeners[ts.listener.name])
      PROVE  ts = listeners[ts.listener.name].obj
  <2>1. Key(ts) = Key(listeners[ts.listener.name].obj)
    BY <1>4, <1>7 DEF IsEqual, MetasEqual
  <2>2. listeners[ts.listener.name].obj \in StreamServers
    BY <1>7, ListenerOwner DEF InStep
  <2> QED
    BY <2>1, <2>2, StoredKinds
<1> QED
  BY <1>3, <1>5, <1>6, <1>7

LEMMA NothingDroppedNow == StoresOK /\ StoresFinite /\ InStep => NothingDropped
<1> SUFFICES ASSUME StoresOK, StoresFinite, InStep, NEW o \in Stored
             PROVE  o \in InService <=> ~(\E p \in hostProblems \cup listenerProblems : p.key = Key(o))
  BY DEF NothingDropped
<1>1. /\ \A p \in Stored : Key(p) = Key(o) => p = o
      /\ HostObjects \subseteq Stored /\ StreamServers \subseteq Stored
      /\ ingresses \subseteq Stored /\ virtualServerRoutes \subseteq Stored
  BY StoredKinds DEF Stored
<1>2. (\E p \in hostProblems \cup listenerProblems : p.key = Key(o)) <=>
        \/ o \in HostObjects /\ \A h \in o.hosts : ResourceKey(hosts[h]) # Key(o)
        \/ /\ o \in ingresses /\ IsMinion(o)
           /\ \A h \in o.hosts : h \in DOMAIN hosts =>
                ~(hosts[h].obj.kind = "Ingress" /\ IsMaster(hosts[h].obj))
        \/ /\ o \in virtualServerRoutes
           /\ \/ OwnerOf(o) = {}
              \/ \E r \in OwnerOf(o) : \A i \in DOMAIN r.attached : r.attached[i].name # o.name
        \/ /\ o \in StreamServers
           /\ \/ o.listener.name \notin DOMAIN listeners
              \/ /\ o.listener.name \in DOMAIN listeners
                 /\ ~IsEqual(ListenerConfiguration(o), listeners[o.listener.name])
  <2> DEFINE A(p) == \A h \in p.hosts : ResourceKey(hosts[h]) # Key(p)
             B(m) == \A h \in m.hosts : h \in DOMAIN hosts =>
                       ~(hosts[h].obj.kind = "Ingress" /\ IsMaster(hosts[h].obj))
             C(v) == \E r \in OwnerOf(v) :
                       \A i \in DOMAIN r.attached : r.attached[i].name # v.name
             D(ts) == /\ ts.listener.name \in DOMAIN listeners
                      /\ ~IsEqual(ListenerConfiguration(ts), listeners[ts.listener.name])
  <2>1. (\E p \in hostProblems \cup listenerProblems : p.key = Key(o)) <=>
          \/ \E p \in HostObjects : Key(p) = Key(o) /\ A(p)
          \/ \E m \in ingresses : Key(m) = Key(o) /\ IsMinion(m) /\ B(m)
          \/ \E v \in virtualServerRoutes : Key(v) = Key(o) /\ OwnerOf(v) = {}
          \/ \E v \in virtualServerRoutes : Key(v) = Key(o) /\ C(v)
          \/ \E ts \in StreamServers : Key(ts) = Key(o) /\ ts.listener.name \notin DOMAIN listeners
          \/ \E ts \in StreamServers : Key(ts) = Key(o) /\ D(ts)
    BY ProblemKeys, Zenon
  <2> HIDE DEF A, B, C, D
  <2>2. (\E p \in hostProblems \cup listenerProblems : p.key = Key(o)) <=>
          \/ o \in HostObjects /\ A(o)
          \/ o \in ingresses /\ IsMinion(o) /\ B(o)
          \/ o \in virtualServerRoutes /\ (OwnerOf(o) = {} \/ C(o))
          \/ o \in StreamServers /\ (o.listener.name \notin DOMAIN listeners \/ D(o))
    BY <1>1, <2>1
  <2> QED
    BY <2>2 DEF A, B, C, D
<1>3. CASE o \in HostObjects
  <2>1. /\ ~(o \in ingresses /\ IsMinion(o))
        /\ o \notin virtualServerRoutes /\ o \notin StreamServers
    BY <1>3, StoredKinds DEF HostObjects, StreamServers
  <2> QED
    BY <1>2, <1>3, <2>1, HostObjectServed
<1>4. CASE o \in ingresses /\ IsMinion(o)
  <2>1. o \notin HostObjects /\ o \notin virtualServerRoutes /\ o \notin StreamServers
    BY <1>4, StoredKinds DEF HostObjects, StreamServers
  <2> QED
    BY <1>2, <1>4, <2>1, MinionServed
<1>5. CASE o \in virtualServerRoutes
  <2>1. o \notin HostObjects /\ o \notin ingresses /\ o \notin StreamServers
    BY <1>5, StoredKinds DEF HostObjects, StreamServers
  <2> QED
    BY <1>2, <1>5, <2>1, RouteServed
<1>6. CASE o \in StreamServers
  <2>1. o \notin HostObjects /\ o \notin ingresses /\ o \notin virtualServerRoutes
    BY <1>6, StoredKinds DEF HostObjects, StreamServers
  <2> QED
    BY <1>2, <1>6, <2>1, StreamServed
<1>7. \/ o \in HostObjects \/ (o \in ingresses /\ IsMinion(o))
      \/ o \in virtualServerRoutes \/ o \in StreamServers
  <2>1. \A ts \in transportServers :
          ts.listener.protocol = TLSPassthrough => IsTLSPassthroughEnabled
    BY ValidationAssumption DEF StoresOK, Accepted
  <2> QED
    BY <2>1 DEF Stored, HostObjects, StreamServers
<1> QED
  BY <1>3, <1>4, <1>5, <1>6, <1>7

\* No stored object is dropped silently and none is reported while it is
\* served, whatever the history of operations.
THEOREM NothingDroppedInvariant == Spec => []NothingDropped
BY NothingDroppedNow, InStepInvariant, PTL

\* Whatever is served is stored.
ServedStored == InService \subseteq Stored

LEMMA ServedStoredNow == StoresOK /\ StoresFinite /\ InStep => ServedStored
<1> SUFFICES ASSUME StoresOK, StoresFinite, InStep, NEW o \in InService PROVE o \in Stored
  BY DEF ServedStored
<1>1. ASSUME NEW h \in DOMAIN hosts PROVE hosts[h].obj \in Stored
  BY AttachedOK, StoredKinds
<1>2. ASSUME NEW l \in DOMAIN listeners PROVE listeners[l].obj \in Stored
  BY ListenerOwner, StoredKinds DEF InStep
<1>3. ASSUME NEW h \in DOMAIN hosts PROVE ToSet(hosts[h].attached) \subseteq Stored
  <2>1. \A p : MinionsFor(p) \subseteq Stored /\ Targets(p) \subseteq Stored
    BY DEF MinionsFor, MinionsOf, Targets, RouteTarget, Stored
  <2> QED
    BY <2>1, AttachedOK
<1> QED
  BY <1>1, <1>2, <1>3, InServiceElement

\* An object that is demoted is the subject of a problem that the operation
\* returns: its problem cannot have been known before, since it was served.
THEOREM LoserToldTheorem == Spec => LoserTold
<1> DEFINE Inv == StoresOK /\ StoresFinite /\ InStep
           Told == \A o \in InService : \A p \in Stored' :
                     Key(p) = Key(o) /\ p \notin InService' => \E q \in problems' : q.key = Key(o)
<1>1. ASSUME Maps, Maps', NothingDropped, NothingDropped', ServedStored, Next
      PROVE  Told
  <2> SUFFICES ASSUME NEW o \in InService, NEW p \in Stored', Key(p) = Key(o), p \notin InService'
               PROVE  \E q \in problems' : q.key = Key(o)
    OBVIOUS
  <2>1. PICK q \in hostProblems' \cup listenerProblems' : q.key = Key(o)
    BY <1>1 DEF NothingDropped
  <2>2. q \notin hostProblems /\ q \notin listenerProblems
    BY <1>1, <2>1 DEF NothingDropped, ServedStored
  <2> DEFINE R == ResourcesAbout
  <2>3. /\ Owners(hosts) \subseteq R /\ NewResources' \subseteq R
        /\ Owners(listeners) \subseteq R /\ Owners(listeners') \subseteq R
    BY DEF ResourcesAbout
  <2> HIDE DEF R
  <2>4. HostChanges \in Seq(ChangeSet(R)) /\ ListenerChanges \in Seq(ChangeSet(R))
    BY <1>1, <2>3, HostChangesOK, ListenerChangesOK DEF Maps
  <2>5. /\ ListenerChanges \o HostChanges \in Seq(ChangeSet(R))
        /\ ListenerChanges \o <<>> = ListenerChanges
    BY <2>4, ConcatElements, ConcatEmptySeq
  <2>6. CASE NoRebuild
    BY <2>1, <2>2, <2>6 DEF NoRebuild
  <2>7. CASE HostRebuild
    <3>1. NewProblemsOfHosts \subseteq problems' /\ listenerProblems' = listenerProblems
      BY <2>4, <2>7, AnswersOK DEF HostRebuild
    <3> QED
      BY <2>1, <2>2, <3>1 DEF NewProblemsOfHosts
  <2>8. CASE ListenerRebuild
    <3>1. NewProblemsOfListeners \subseteq problems' /\ hostProblems' = hostProblems
      BY <2>4, <2>5, <2>8, AnswersOK DEF ListenerRebuild
    <3> QED
      BY <2>1, <2>2, <3>1 DEF NewProblemsOfListeners
  <2>9. CASE FullRebuild
    <3>1. NewProblemsOfListeners \cup NewProblemsOfHosts \subseteq problems'
      BY <2>5, <2>9, AnswersOK DEF FullRebuild
    <3> QED
      BY <2>1, <2>2, <3>1 DEF NewProblemsOfListeners, NewProblemsOfHosts
  <2> QED
    BY <1>1, <2>6, <2>7, <2>8, <2>9, StepKinds
<1>2. Maps /\ Maps' /\ NothingDropped /\ NothingDropped' /\ ServedStored /\ [Next]_vars => [Told]_vars
  BY <1>1
<1>3. Inv => Maps /\ NothingDropped /\ ServedStored
  BY MapsNow, NothingDroppedNow, ServedStoredNow
<1>4. Spec => []Inv
  BY InStepInvariant
<1> HIDE DEF Inv
<1> QED
  BY <1>2, <1>3, <1>4, PTL DEF Spec, LoserTold

-----------------------------------------------------------------------------
(* Warnings and problems *)

\* The warnings of the owner of a host that is not an Ingress: one for every
\* route that none of what is attached fits.
RouteWarnings(o, attached) ==
  {<<"route", q.vsr>> : q \in
     {x \in ToSet(o.routes) : \A v \in ToSet(attached) :
        ~(v.name = x.vsr /\ v.hosts = o.hosts /\ x.path \in ToSet(v.paths))}}

OwnWarnings(o, attached) ==
  IF o.kind = "VirtualServer" THEN RouteWarnings(o, attached) ELSE {}

WarningsOK ==
  /\ \A h \in DOMAIN hosts : hosts[h].obj.kind # "Ingress" =>
       hosts[h].warnings = OwnWarnings(hosts[h].obj, hosts[h].attached)
  /\ \A l \in DOMAIN listeners :
       /\ listeners[l].warnings = OwnWarnings(listeners[l].obj, listeners[l].attached)
       /\ ToSet(listeners[l].attached) = {}
       /\ listeners[l].warnings = {}

LEMMA WarningsNow == StoresOK /\ StoresFinite /\ InStep => WarningsOK
<1> SUFFICES ASSUME StoresOK, StoresFinite, InStep PROVE WarningsOK
  OBVIOUS
<1>1. ASSUME NEW h \in DOMAIN hosts, hosts[h].obj.kind # "Ingress"
      PROVE  hosts[h].warnings = OwnWarnings(hosts[h].obj, hosts[h].attached)
  <2>1. PICK o \in HostObjects : /\ hosts[h] = Resource(o) /\ hosts[h].obj = o /\ h \in o.hosts
                                 /\ o = Holder(HostClaimants(h))
    BY HostOwner DEF InStep
  <2>2. o.hosts = {h}
    BY <1>1, <2>1, HostMapNow DEF HostMap, InStep
  <2>3. LostHosts(o) = {}
    BY <2>1, <2>2 DEF LostHosts
  <2>4. {<<"host is taken", g>> : g \in LostHosts(o)} = {}
    BY <2>3
  <2>5. CASE o.kind = "TransportServer"
    <3>1. Resource(o).warnings = {}
      BY <2>4, <2>5 DEF Resource, TransportServerConfiguration
    <3> QED
      BY <2>1, <2>5, <3>1 DEF OwnWarnings
  <2>6. CASE o.kind = "VirtualServer"
    <3>1. o \in virtualServers
      BY <2>6, ObjectsAssumption DEF HostObjects, StoresOK
    <3>2. /\ Resource(o).warnings = {<<"route", r.vsr>> : r \in {q \in ToSet(o.routes) : RouteTarget(o, q) = {}}}
          /\ Resource(o).attached = VirtualServerConfiguration(o).attached
      BY <2>4, <2>6 DEF Resource, VirtualServerConfiguration
    <3>3. ToSet(Resource(o).attached) = Targets(o)
      BY <3>1, <3>2, RoutesOK
    <3>4. ASSUME NEW q \in ToSet(o.routes)
          PROVE  RouteTarget(o, q) = {} <=> \A v \in Targets(o) :
                   ~(v.name = q.vsr /\ v.hosts = o.hosts /\ q.path \in ToSet(v.paths))
      <4>1. PICK i \in DOMAIN o.routes : q = o.routes[i]
        BY DEF ToSet
      <4>2. RouteTarget(o, q) \subseteq Targets(o)
        BY <4>1 DEF Targets
      <4>3. Targets(o) \subseteq virtualServerRoutes
        BY DEF Targets, RouteTarget
      <4> QED
        BY <4>2, <4>3 DEF RouteTarget
    <3>5. {q \in ToSet(o.routes) : RouteTarget(o, q) = {}} =
            {x \in ToSet(o.routes) : \A v \in ToSet(Resource(o).attached) :
               ~(v.name = x.vsr /\ v.hosts = o.hosts /\ x.path \in ToSet(v.paths))}
      BY <3>3, <3>4
    <3> QED
      BY <2>1, <2>6, <3>2, <3>5 DEF OwnWarnings, RouteWarnings
  <2> QED
    BY <1>1, <2>1, <2>5, <2>6, HostObjectsOK
<1>2. ASSUME NEW l \in DOMAIN listeners
      PROVE  /\ listeners[l].warnings = OwnWarnings(listeners[l].obj, listeners[l].attached)
             /\ ToSet(listeners[l].attached) = {}
             /\ listeners[l].warnings = {}
  <2>1. PICK ts \in StreamServers : /\ ts = Holder(ListenerClaimants(l)) /\ ts.listener.name = l
                                    /\ listeners[l] = ListenerConfiguration(ts) /\ listeners[l].obj = ts
    BY ListenerOwner DEF InStep
  <2>2. ListenerConfiguration(ts).warnings = {} /\ ListenerConfiguration(ts).attached = <<>>
    BY <2>1 DEF ListenerConfiguration, TransportServerConfiguration
  <2>3. ts.kind = "TransportServer"
    BY ObjectsAssumption DEF StreamServers, StoresOK
  <2> QED
    BY <2>1, <2>2, <2>3 DEF OwnWarnings, ToSet
<1> QED
  BY <1>1, <1>2 DEF WarningsOK

\* A known problem is about a stored object that is not served.
ProblemsStored ==
  \A q \in hostProblems \cup listenerProblems :
    ~q.isError /\ \E o \in Stored \ InService : q.key = Key(o)

LEMMA ProblemsNoError ==
  ASSUME InStep
  PROVE  \A q \in hostProblems \cup listenerProblems : ~q.isError
<1>1. \A o, r, m : ~Problem(o, FALSE, r, m).isError
  BY DEF Problem
<1>2. \A q \in ResourcesWithoutActiveHost : ~q.isError
  BY <1>1 DEF ResourcesWithoutActiveHost
<1>3. \A q \in OrphanMinions : ~q.isError
  BY <1>1 DEF OrphanMinions
<1>4. \A q \in OrphanOrIgnoredVsrs : ~q.isError
  <2> DEFINE P == {Problem(vsr, FALSE, "NoVirtualServerFound", <<"no VirtualServer", 0>>) :
                     vsr \in {v \in virtualServerRoutes : OwnerOf(v) = {}}}
             T(v) == {s \in OwnerOf(v) : \A i \in DOMAIN s.attached : s.attached[i].name # v.name}
             Q(v) == {Problem(v, FALSE, "Ignored", <<"ignored", r.obj.name>>) : r \in T(v)}
             U == UNION {Q(v) : v \in virtualServerRoutes}
  <2>1. OrphanOrIgnoredVsrs = P \cup U
    BY DEF OrphanOrIgnoredVsrs
  <2>2. \A q \in P : ~q.isError
    BY <1>1
  <2> HIDE DEF T
  <2>3. \A v : \A q \in Q(v) : ~q.isError
    BY <1>1
  <2> HIDE DEF P, Q
  <2>4. \A q \in U : ~q.isError
    BY <2>3
  <2> HIDE DEF U
  <2> QED
    BY <2>1, <2>2, <2>4
<1>5. \A q \in NewListenerProblems : ~q.isError
  BY <1>1 DEF NewListenerProblems
<1>6. hostProblems \cup listenerProblems =
        ((ResourcesWithoutActiveHost \cup OrphanMinions) \cup OrphanOrIgnoredVsrs)
          \cup NewListenerProblems
  BY DEF InStep, NewHostProblems
<1> QED
  BY <1>2, <1>3, <1>4, <1>5, <1>6

LEMMA ProblemsStoredNow == StoresOK /\ StoresFinite /\ InStep => ProblemsStored
<1> SUFFICES ASSUME StoresOK, StoresFinite, InStep, NEW q \in hostProblems \cup listenerProblems
             PROVE  ~q.isError /\ \E o \in Stored \ InService : q.key = Key(o)
  BY DEF ProblemsStored
<1>1. \E o \in Stored : Key(o) = q.key
  <2>1. /\ HostObjects \subseteq Stored /\ StreamServers \subseteq Stored
        /\ ingresses \subseteq Stored /\ virtualServerRoutes \subseteq Stored
    BY StoredKinds DEF Stored
  <2>2. \E p \in hostProblems \cup listenerProblems : p.key = q.key
    OBVIOUS
  <2> QED
    BY <2>1, <2>2, ProblemKeys
<1> QED
  BY <1>1, NothingDroppedNow, ProblemsNoError DEF NothingDropped

\* An object that is stored now and not served is the subject of a problem that
\* the operation returns, unless it was stored and not served before.
LEMMA NewProblemTold ==
  ASSUME Maps, Maps', ProblemsStored, NothingDropped', Next,
         NEW p \in Stored', p \notin InService',
         \A s \in Stored : Key(s) = Key(p) => s \in InService
  PROVE  \E q \in problems' : q.key = Key(p)
<1>1. PICK q \in hostProblems' \cup listenerProblems' : q.key = Key(p)
  BY DEF NothingDropped
<1>2. q \notin hostProblems /\ q \notin listenerProblems
  BY <1>1 DEF ProblemsStored
<1> DEFINE R == ResourcesAbout
<1>3. /\ Owners(hosts) \subseteq R /\ NewResources' \subseteq R
      /\ Owners(listeners) \subseteq R /\ Owners(listeners') \subseteq R
  BY DEF ResourcesAbout
<1> HIDE DEF R
<1>4. HostChanges \in Seq(ChangeSet(R)) /\ ListenerChanges \in Seq(ChangeSet(R))
  BY <1>3, HostChangesOK, ListenerChangesOK DEF Maps
<1>5. /\ ListenerChanges \o HostChanges \in Seq(ChangeSet(R))
      /\ ListenerChanges \o <<>> = ListenerChanges
  BY <1>4, ConcatElements, ConcatEmptySeq
<1>6. CASE NoRebuild
  BY <1>1, <1>2, <1>6 DEF NoRebuild
<1>7. CASE HostRebuild
  <2>1. NewProblemsOfHosts \subseteq problems' /\ listenerProblems' = listenerProblems
    BY <1>4, <1>7, AnswersOK DEF HostRebuild
  <2> QED
    BY <1>1, <1>2, <2>1 DEF NewProblemsOfHosts
<1>8. CASE ListenerRebuild
  <2>1. NewProblemsOfListeners \subseteq problems' /\ hostProblems' = hostProblems
    BY <1>4, <1>5, <1>8, AnswersOK DEF ListenerRebuild
  <2> QED
    BY <1>1, <1>2, <2>1 DEF NewProblemsOfListeners
<1>9. CASE FullRebuild
  <2>1. NewProblemsOfListeners \cup NewProblemsOfHosts \subseteq problems'
    BY <1>5, <1>9, AnswersOK DEF FullRebuild
  <2> QED
    BY <1>1, <1>2, <2>1 DEF NewProblemsOfListeners, NewProblemsOfHosts
<1> QED
  BY <1>6, <1>7, <1>8, <1>9, StepKinds

-----------------------------------------------------------------------------
(* Which resources the changes of an operation are about *)

AllOwners == Owners(hosts) \cup Owners(listeners)

\* The resource r is as some owner was before, as far as its status goes.
OwnerKept(r) ==
  \E s \in AllOwners : /\ s.obj = r.obj /\ s.attached = r.attached
                       /\ r.obj.kind # "Ingress" => s.warnings = r.warnings

LEMMA UngainedHost ==
  ASSUME VersionsTold, Maps, Maps', WarningsOK, WarningsOK',
         NEW h \in DOMAIN hosts', h \notin Gained(hosts, hosts')
  PROVE  OwnerKept(hosts'[h])
<1>1. h \in DOMAIN hosts /\ IsEqual(hosts[h], hosts'[h])
  BY DEF Gained
<1>2. hosts[h].obj = hosts'[h].obj /\ hosts[h].attached = hosts'[h].attached
  BY <1>1, SameContent DEF Maps, HostMap
<1>3. hosts'[h].obj.kind # "Ingress" => hosts[h].warnings = hosts'[h].warnings
  BY <1>1, <1>2 DEF WarningsOK
<1>4. hosts[h] \in AllOwners
  BY <1>1 DEF AllOwners, Owners
<1> QED
  BY <1>2, <1>3, <1>4 DEF OwnerKept

LEMMA UngainedListener ==
  ASSUME VersionsTold, Maps, Maps', WarningsOK, WarningsOK',
         NEW l \in DOMAIN listeners', l \notin Gained(listeners, listeners')
  PROVE  OwnerKept(listeners'[l])
<1>1. l \in DOMAIN listeners /\ IsEqual(listeners[l], listeners'[l])
  BY DEF Gained
<1>2. listeners[l].obj = listeners'[l].obj /\ listeners[l].attached = listeners'[l].attached
  BY <1>1, SameContent DEF Maps, ListenerMap
<1>3. listeners[l].warnings = listeners'[l].warnings
  BY <1>1, <1>2 DEF WarningsOK
<1>4. listeners[l] \in AllOwners
  BY <1>1 DEF AllOwners, Owners
<1> QED
  BY <1>2, <1>3, <1>4 DEF OwnerKept

LEMMA KeptAsIs ==
  ASSUME NEW r \in AllOwners
  PROVE  OwnerKept(r)
BY DEF OwnerKept

UpdateIn(cs, r) == \E i \in DOMAIN cs : cs[i].op = "AddOrUpdate" /\ cs[i].resource = r

\* Whoever owns a host or a listener from now on is updated or as before.
LEMMA UpdatedOrKept ==
  ASSUME VersionsTold, Maps, Maps', WarningsOK, WarningsOK', Next, NEW r \in AllOwners'
  PROVE  UpdateIn(changes', r) \/ OwnerKept(r)
<1> DEFINE R == ResourcesAbout
<1>1. /\ Owners(hosts) \subseteq R /\ NewResources' \subseteq R
      /\ Owners(listeners) \subseteq R /\ Owners(listeners') \subseteq R
  BY DEF ResourcesAbout
<1> HIDE DEF R
<1>2. /\ HostChanges \in Seq(ChangeSet(R)) /\ Transforms(HostChanges, hosts, hosts')
      /\ ListenerChanges \in Seq(ChangeSet(R))
      /\ Transforms(ListenerChanges, listeners, listeners')
  BY <1>1, HostChangesOK, ListenerChangesOK DEF Maps
<1>3. /\ ListenerChanges \o HostChanges \in Seq(ChangeSet(R))
      /\ ToSet(ListenerChanges \o HostChanges) = ToSet(ListenerChanges) \cup ToSet(HostChanges)
      /\ ListenerChanges \o <<>> = ListenerChanges
  BY <1>2, ConcatElements, ConcatEmptySeq
<1>4. ASSUME NEW h \in DOMAIN hosts', r = hosts'[h] PROVE UpdateIn(HostChanges, r) \/ OwnerKept(r)
  BY <1>2, <1>4, UngainedHost DEF Transforms, UpdateIn
<1>5. ASSUME NEW l \in DOMAIN listeners', r = listeners'[l]
      PROVE  UpdateIn(ListenerChanges, r) \/ OwnerKept(r)
  BY <1>2, <1>5, UngainedListener DEF Transforms, UpdateIn
<1>6. ASSUME NEW cs \in Seq(ChangeSet(R)), NEW ps, Answers(cs, ps), UpdateIn(cs, r)
      PROVE  UpdateIn(changes', r)
  <2>1. SameChanges(changes', cs)
    BY <1>6, AnswersOK
  <2> QED
    BY <1>6, <2>1 DEF SameChanges, UpdateIn
<1>7. UpdateIn(HostChanges, r) \/ UpdateIn(ListenerChanges, r) => UpdateIn(ListenerChanges \o HostChanges, r)
  <2>1. \A cs : UpdateIn(cs, r) <=> \E c \in ToSet(cs) : c.op = "AddOrUpdate" /\ c.resource = r
    BY DEF UpdateIn, ToSet
  <2> QED
    BY <1>3, <2>1
<1>8. (\E h \in DOMAIN hosts' : r = hosts'[h]) \/ (\E l \in DOMAIN listeners' : r = listeners'[l])
  BY DEF AllOwners, Owners
<1>9. CASE NoRebuild
  BY <1>9, KeptAsIs DEF NoRebuild, AllOwners
<1>10. CASE HostRebuild
  <2>1. listeners' = listeners /\ \E ps : Answers(HostChanges, ps)
    BY <1>10 DEF HostRebuild
  <2>2. r \in Owners(listeners') => OwnerKept(r)
    BY <2>1, KeptAsIs DEF AllOwners
  <2> QED
    BY <1>2, <1>4, <1>6, <2>1, <2>2 DEF AllOwners, Owners
<1>11. CASE ListenerRebuild
  <2>1. hosts' = hosts /\ \E ps : Answers(ListenerChanges, ps)
    BY <1>3, <1>11 DEF ListenerRebuild
  <2>2. r \in Owners(hosts') => OwnerKept(r)
    BY <2>1, KeptAsIs DEF AllOwners
  <2> QED
    BY <1>2, <1>5, <1>6, <2>1, <2>2 DEF AllOwners, Owners
<1>12. CASE FullRebuild
  BY <1>3, <1>4, <1>5, <1>6, <1>7, <1>8, <1>12 DEF FullRebuild
<1> QED
  BY <1>9, <1>10, <1>11, <1>12, StepKinds

\* A delete is for something that owned a host or a listener before; there is at
\* most one change for what owns neither from now on.
DeletesOwners(cs) ==
  \A i \in DOMAIN cs : cs[i].op = "Delete" => \E r \in AllOwners : KeyOf(cs[i]) = ResourceKey(r)
OncePerLoser(cs) ==
  \A i, j \in DOMAIN cs : KeyOf(cs[i]) = KeyOf(cs[j]) =>
    i = j \/ \E r \in AllOwners' : KeyOf(cs[i]) = ResourceKey(r)

LEMMA DeletesAbout ==
  ASSUME Maps, Maps', Next
  PROVE  DeletesOwners(changes') /\ OncePerLoser(changes')
<1> DEFINE R == ResourcesAbout
<1>1. /\ Owners(hosts) \subseteq R /\ NewResources' \subseteq R
      /\ Owners(listeners) \subseteq R /\ Owners(listeners') \subseteq R
  BY DEF ResourcesAbout
<1> HIDE DEF R
<1>2. /\ HostChanges \in Seq(ChangeSet(R)) /\ Transforms(HostChanges, hosts, hosts')
      /\ ListenerChanges \in Seq(ChangeSet(R))
      /\ Transforms(ListenerChanges, listeners, listeners')
  BY <1>1, HostChangesOK, ListenerChangesOK DEF Maps
<1> DEFINE DeletesOf(cs, f) == \A i \in DOMAIN cs : cs[i].op = "Delete" =>
                                 \E k \in DOMAIN f : KeyOf(cs[i]) = ResourceKey(f[k])
           UpdatesOf(cs, f) == \A i \in DOMAIN cs : cs[i].op # "Delete" =>
                                 \E k \in DOMAIN f : KeyOf(cs[i]) = ResourceKey(f[k])
           Good(cs) == DeletesOwners(cs) /\ OncePerLoser(cs)
<1>3. \A cs \in Seq(ChangeSet(R)) : \A i \in DOMAIN cs : cs[i].op \in {"Delete", "AddOrUpdate"}
  <2> TAKE cs \in Seq(ChangeSet(R))
  <2>1. \A i \in DOMAIN cs : cs[i] \in ChangeSet(R)
    BY LenProperties, ElementOfSeq
  <2> QED
    BY <2>1 DEF ChangeSet
<1>4. DeletesOf(HostChanges, hosts) /\ DeletesOf(ListenerChanges, listeners)
  BY <1>2 DEF Transforms, Lost
<1>5. UpdatesOf(HostChanges, hosts') /\ UpdatesOf(ListenerChanges, listeners')
  BY <1>2, <1>3 DEF Transforms, Gained, KeyOf
<1>6. \A cs : DeletesOf(cs, hosts) \/ DeletesOf(cs, listeners) => DeletesOwners(cs)
  BY DEF DeletesOwners, AllOwners, Owners
<1>7. Good(HostChanges) /\ Good(ListenerChanges)
  <2>1. OncePerLoser(HostChanges) /\ OncePerLoser(ListenerChanges)
    BY <1>2 DEF Transforms, OncePerLoser
  <2> HIDE DEF DeletesOf
  <2> QED
    BY <1>4, <1>6, <2>1
<1>8. Good(ListenerChanges \o HostChanges) /\ ListenerChanges \o HostChanges \in Seq(ChangeSet(R))
      /\ ListenerChanges \o <<>> = ListenerChanges
  <2> DEFINE a == ListenerChanges
             b == HostChanges
  <2>1. /\ a \o b \in Seq(ChangeSet(R)) /\ Len(a) \in Nat /\ Len(b) \in Nat
        /\ DOMAIN a = 1..Len(a) /\ DOMAIN b = 1..Len(b)
        /\ DOMAIN (a \o b) = 1..(Len(a) + Len(b)) /\ a \o <<>> = a
        /\ \A i \in 1..(Len(a) + Len(b)) : (a \o b)[i] = IF i <= Len(a) THEN a[i] ELSE b[i - Len(a)]
    BY <1>2, LenProperties, ConcatProperties, ConcatEmptySeq
  <2>2. \A i \in DOMAIN (a \o b) :
          \/ i \in DOMAIN a /\ (a \o b)[i] = a[i]
          \/ i > Len(a) /\ i - Len(a) \in DOMAIN b /\ (a \o b)[i] = b[i - Len(a)]
    BY <2>1
  <2> HIDE DEF a, b
  <2>3. DeletesOwners(a \o b)
    BY <1>7, <2>2 DEF DeletesOwners, a, b
  <2>4. ASSUME NEW i \in DOMAIN a, NEW j \in DOMAIN b, KeyOf(a[i]) = KeyOf(b[j])
        PROVE  \E r \in AllOwners' : KeyOf(a[i]) = ResourceKey(r)
    <3>1. CASE a[i].op = "Delete" /\ b[j].op = "Delete"
      <4>1. PICK l \in DOMAIN listeners : KeyOf(a[i]) = ResourceKey(listeners[l])
        BY <1>4, <3>1 DEF a
      <4>2. PICK h \in DOMAIN hosts : KeyOf(b[j]) = ResourceKey(hosts[h])
        BY <1>4, <3>1 DEF b
      <4> QED
        BY <2>4, <4>1, <4>2 DEF Maps
    <3>2. CASE a[i].op # "Delete"
      <4>1. PICK l \in DOMAIN listeners' : KeyOf(a[i]) = ResourceKey(listeners'[l])
        BY <1>5, <3>2 DEF a
      <4> QED
        BY <4>1 DEF AllOwners, Owners
    <3>3. CASE b[j].op # "Delete"
      <4>1. PICK h \in DOMAIN hosts' : KeyOf(b[j]) = ResourceKey(hosts'[h])
        BY <1>5, <3>3 DEF b
      <4> QED
        BY <2>4, <4>1 DEF AllOwners, Owners
    <3> QED
      BY <3>1, <3>2, <3>3
  <2>5. OncePerLoser(a \o b)
    <3> SUFFICES ASSUME NEW i \in DOMAIN (a \o b), NEW j \in DOMAIN (a \o b),
                        KeyOf((a \o b)[i]) = KeyOf((a \o b)[j])
                 PROVE  i = j \/ \E r \in AllOwners' : KeyOf((a \o b)[i]) = ResourceKey(r)
      BY DEF OncePerLoser
    <3>1. CASE i \in DOMAIN a /\ j \in DOMAIN a /\ (a \o b)[i] = a[i] /\ (a \o b)[j] = a[j]
      BY <1>7, <3>1 DEF OncePerLoser, a
    <3>2. CASE /\ i > Len(a) /\ i - Len(a) \in DOMAIN b /\ (a \o b)[i] = b[i - Len(a)]
               /\ j > Len(a) /\ j - Len(a) \in DOMAIN b /\ (a \o b)[j] = b[j - Len(a)]
      <4>1. i - Len(a) = j - Len(a) \/ \E r \in AllOwners' : KeyOf(b[i - Len(a)]) = ResourceKey(r)
        BY <1>7, <3>2 DEF OncePerLoser, b
      <4>2. i - Len(a) = j - Len(a) => i = j
        BY <2>1
      <4> QED
        BY <3>2, <4>1, <4>2
    <3>3. CASE /\ i \in DOMAIN a /\ (a \o b)[i] = a[i]
               /\ j - Len(a) \in DOMAIN b /\ (a \o b)[j] = b[j - Len(a)]
      BY <2>4, <3>3
    <3>4. CASE /\ j \in DOMAIN a /\ (a \o b)[j] = a[j]
               /\ i - Len(a) \in DOMAIN b /\ (a \o b)[i] = b[i - Len(a)]
      BY <2>4, <3>4
    <3> QED
      BY <2>2, <3>1, <3>2, <3>3, <3>4
  <2> QED
    BY <2>1, <2>3, <2>5 DEF a, b
<1>9. ASSUME NEW cs \in Seq(ChangeSet(R)), Good(cs), NEW ps, Answers(cs, ps) PROVE Good(changes')
  <2>1. SameChanges(changes', cs)
    BY <1>9, AnswersOK
  <2>2. DOMAIN changes' = DOMAIN cs /\ \A i \in DOMAIN cs : changes'[i].op = cs[i].op /\ KeyOf(changes'[i]) = KeyOf(cs[i])
    BY <2>1 DEF SameChanges, KeyOf
  <2> QED
    BY <1>9, <2>2 DEF DeletesOwners, OncePerLoser
<1> HIDE DEF Good
<1>10. Good(changes')
  <2>1. CASE NoRebuild
    BY <2>1 DEF NoRebuild, Respond, Good, DeletesOwners, OncePerLoser
  <2>2. CASE HostRebuild
    BY <1>2, <1>7, <1>9, <2>2 DEF HostRebuild
  <2>3. CASE ListenerRebuild
    BY <1>2, <1>7, <1>8, <1>9, <2>3 DEF ListenerRebuild
  <2>4. CASE FullRebuild
    BY <1>8, <1>9, <2>4 DEF FullRebuild
  <2> QED
    BY <2>1, <2>2, <2>3, <2>4, StepKinds
<1> QED
  BY <1>10 DEF Good

-----------------------------------------------------------------------------
(* The order of the changes *)

\* Among updates, a resource with an earlier first change comes first.
FirstsFirst(sq, cs) ==
  \A i, j \in DOMAIN sq : i < j /\ sq[i].op = "AddOrUpdate" =>
    \A q \in DOMAIN cs : KeyOf(cs[q]) = KeyOf(sq[j]) =>
      \E p \in DOMAIN cs : p < q /\ KeyOf(cs[p]) = KeyOf(sq[i])

LEMMA SquashOrder ==
  ASSUME NEW R, NEW cs \in Seq(ChangeSet(R))
  PROVE  FirstsFirst(SquashResourceChanges(cs), cs)
<1> DEFINE L == LastChanges(cs)
           A == FirstChanges(cs, "Delete")
           B == FirstChanges(cs, "AddOrUpdate")
           a == Subsequence(L, A)
           b == Subsequence(L, B)
           sq == a \o b
<1>1. /\ L \in Seq(ChangeSet(R)) /\ DOMAIN L = DOMAIN cs
      /\ \A i \in DOMAIN cs : KeyOf(L[i]) = KeyOf(cs[i])
  BY LastChangesOK
<1>2. Len(cs) \in Nat /\ DOMAIN cs = 1..Len(cs)
  BY LenProperties
<1>3. /\ A \subseteq DOMAIN L /\ \A i \in A : L[i].op = "Delete"
      /\ B \subseteq DOMAIN L
  BY <1>1 DEF FirstChanges
<1>4. \A i \in B : \A q \in DOMAIN cs : q < i => KeyOf(cs[q]) # KeyOf(cs[i])
  <2> SUFFICES ASSUME NEW i \in B, NEW q \in DOMAIN cs, q < i PROVE KeyOf(cs[q]) # KeyOf(cs[i])
    OBVIOUS
  <2>1. i \in DOMAIN cs /\ q \in 1..(i - 1)
    BY <1>1, <1>2, <1>3
  <2> QED
    BY <2>1 DEF FirstChanges, KeyOf
<1> HIDE DEF A, B, L
<1>5. /\ a \in Seq(ChangeSet(R)) /\ Len(a) = Cardinality(A) /\ Cardinality(A) \in Nat
      /\ \A k \in 1..Cardinality(A) : Sorted(A)[k] \in A /\ a[k] = L[Sorted(A)[k]]
  BY <1>1, <1>3, SubsequenceOfSeq
<1>6. /\ b \in Seq(ChangeSet(R)) /\ Len(b) = Cardinality(B) /\ Cardinality(B) \in Nat
      /\ \A k \in 1..Cardinality(B) : Sorted(B)[k] \in B /\ b[k] = L[Sorted(B)[k]]
      /\ \A j, k \in 1..Cardinality(B) : j < k => Sorted(B)[j] < Sorted(B)[k]
  BY <1>1, <1>3, SubsequenceOfSeq
<1> HIDE DEF a, b
<1>7. /\ DOMAIN sq = 1..(Len(a) + Len(b))
      /\ \A i \in DOMAIN sq : i <= Len(a) => i \in 1..Len(a) /\ sq[i] = a[i]
      /\ \A i \in DOMAIN sq : ~(i <= Len(a)) => i - Len(a) \in 1..Len(b) /\ sq[i] = b[i - Len(a)]
  BY <1>5, <1>6, ConcatProperties, LenProperties
<1> SUFFICES ASSUME NEW i \in DOMAIN sq, NEW j \in DOMAIN sq, i < j, sq[i].op = "AddOrUpdate",
                    NEW q \in DOMAIN cs, KeyOf(cs[q]) = KeyOf(sq[j])
             PROVE  \E p \in DOMAIN cs : p < q /\ KeyOf(cs[p]) = KeyOf(sq[i])
  BY DEF FirstsFirst, SquashResourceChanges, a, b, A, B, L
<1> HIDE DEF sq
<1>8. ~(i <= Len(a))
  BY <1>3, <1>5, <1>7
<1> DEFINE m == i - Len(a)
           n == j - Len(a)
<1>9. ~(j <= Len(a)) /\ m \in 1..Len(b) /\ n \in 1..Len(b) /\ m < n
  BY <1>5, <1>6, <1>7, <1>8
<1>10. sq[i] = b[m] /\ sq[j] = b[n]
  BY <1>7, <1>8, <1>9
<1> HIDE DEF m, n
<1> DEFINE p == Sorted(B)[m]
           s == Sorted(B)[n]
<1>11. p \in B /\ s \in B /\ p < s /\ sq[i] = L[p] /\ sq[j] = L[s]
  BY <1>6, <1>9, <1>10
<1> HIDE DEF p, s
<1>12. p \in DOMAIN cs /\ s \in DOMAIN cs /\ KeyOf(cs[p]) = KeyOf(sq[i]) /\ KeyOf(cs[s]) = KeyOf(sq[j])
  BY <1>1, <1>3, <1>11
<1>13. ~(q < s)
  BY <1>4, <1>11, <1>12
<1>14. p < q
  BY <1>2, <1>11, <1>12, <1>13
<1> QED
  BY <1>12, <1>14

\* createResourceChanges lists the deletes first.
DeletesFirst(cs, old, new) ==
  /\ \A p, q \in DOMAIN cs : p < q /\ cs[q].op = "Delete" => cs[p].op = "Delete"
  /\ \A q \in DOMAIN cs : cs[q].op = "Delete" =>
       \E k \in Lost(old, new) : KeyOf(cs[q]) = ResourceKey(old[k])
  /\ \A k \in Lost(old, new) : \E q \in DOMAIN cs :
       cs[q].op = "Delete" /\ KeyOf(cs[q]) = ResourceKey(old[k])

LEMMA CreateOrder ==
  ASSUME NEW R, NEW old, NEW new, OwnerMap(old, R), OwnerMap(new, R)
  PROVE  DeletesFirst(CreateResourceChanges(old, new), old, new)
<1> DEFINE removed == DOMAIN old \ DOMAIN new
           added   == DOMAIN new \ DOMAIN old
           updated == {k \in DOMAIN old \cap DOMAIN new : ~IsEqual(old[k], new[k])}
           moved   == {k \in DOMAIN old \cap DOMAIN new : ResourceKey(old[k]) # ResourceKey(new[k])}
           u == Sorted(removed) \o Sorted(moved)
           v == Sorted(updated) \o Sorted(added)
           s == ChangesFor(u, "Delete", old)
           t == ChangesFor(v, "AddOrUpdate", new)
<1>1. CreateResourceChanges(old, new) = s \o t
  BY DEF CreateResourceChanges
<1>2. removed \cup moved = Lost(old, new)
  BY DEF Lost
<1>3. /\ removed \subseteq DOMAIN old /\ moved \subseteq DOMAIN old
      /\ updated \subseteq DOMAIN new /\ added \subseteq DOMAIN new
  OBVIOUS
<1> HIDE DEF removed, added, updated, moved
<1> DEFINE u1 == Sorted(removed)
           u2 == Sorted(moved)
           v1 == Sorted(updated)
           v2 == Sorted(added)
<1>4. /\ u1 \in Seq(DOMAIN old) /\ ToSet(u1) = removed
      /\ u2 \in Seq(DOMAIN old) /\ ToSet(u2) = moved
      /\ v1 \in Seq(DOMAIN new) /\ v2 \in Seq(DOMAIN new)
  BY <1>3, SortedSeq DEF OwnerMap
<1>5. u \in Seq(DOMAIN old) /\ ToSet(u) = Lost(old, new) /\ v \in Seq(DOMAIN new)
  <2>1. u = u1 \o u2 /\ v = v1 \o v2
    OBVIOUS
  <2> HIDE DEF u1, u2, v1, v2, u, v
  <2>2. u1 \o u2 \in Seq(DOMAIN old) /\ ToSet(u1 \o u2) = ToSet(u1) \cup ToSet(u2)
    BY <1>4, ConcatElements
  <2>3. v1 \o v2 \in Seq(DOMAIN new)
    BY <1>4, ConcatElements
  <2> QED
    BY <1>2, <1>4, <2>1, <2>2, <2>3
<1>6. (\A k \in DOMAIN old : old[k] \in R) /\ (\A k \in DOMAIN new : new[k] \in R)
  BY DEF OwnerMap
<1> HIDE DEF u, v
<1>7. s \in Seq(ChangeSet(R)) /\ t \in Seq(ChangeSet(R))
  BY <1>5, <1>6, ChangesForType
<1>8. /\ DOMAIN s = DOMAIN u /\ \A i \in DOMAIN s : s[i].op = "Delete" /\ KeyOf(s[i]) = ResourceKey(old[u[i]])
      /\ \A i \in DOMAIN t : t[i].op = "AddOrUpdate"
  BY DEF ChangesFor, KeyOf
<1> HIDE DEF s, t
<1>9. /\ DOMAIN (s \o t) = 1..(Len(s) + Len(t)) /\ Len(s) \in Nat /\ Len(t) \in Nat /\ DOMAIN s = 1..Len(s)
      /\ \A i \in DOMAIN (s \o t) : i <= Len(s) => i \in DOMAIN s /\ (s \o t)[i] = s[i]
      /\ \A i \in DOMAIN (s \o t) : ~(i <= Len(s)) => i - Len(s) \in DOMAIN t /\ (s \o t)[i] = t[i - Len(s)]
  BY <1>7, ConcatProperties, LenProperties
<1>10. \A i \in DOMAIN (s \o t) : (s \o t)[i].op = "Delete" <=> i <= Len(s)
  BY <1>8, <1>9
<1>11. \A p, q \in DOMAIN (s \o t) : p < q /\ (s \o t)[q].op = "Delete" => (s \o t)[p].op = "Delete"
  BY <1>9, <1>10
<1>12. \A i \in DOMAIN u : u[i] \in Lost(old, new)
  BY <1>5 DEF ToSet
<1>13. \A q \in DOMAIN (s \o t) : (s \o t)[q].op = "Delete" =>
         \E k \in Lost(old, new) : KeyOf((s \o t)[q]) = ResourceKey(old[k])
  BY <1>8, <1>9, <1>10, <1>12
<1>14. ASSUME NEW k \in Lost(old, new)
       PROVE  \E q \in DOMAIN (s \o t) : (s \o t)[q].op = "Delete" /\ KeyOf((s \o t)[q]) = ResourceKey(old[k])
  <2>1. PICK i \in DOMAIN u : u[i] = k
    BY <1>5 DEF ToSet
  <2>2. i \in DOMAIN (s \o t) /\ (s \o t)[i] = s[i]
    BY <1>8, <1>9, <2>1
  <2> QED
    BY <1>8, <2>1, <2>2
<1> QED
  BY <1>1, <1>11, <1>13, <1>14 DEF DeletesFirst

\* Of two resources of which one takes a name from the other, not both lose a
\* name and stay: such resources would have to wait for each other.
NoExchange(old, new) ==
  \A k \in DOMAIN old \cap DOMAIN new, l \in DOMAIN new, m \in Lost(old, new) :
    ResourceKey(old[k]) # ResourceKey(new[k]) =>
      ResourceKey(new[l]) # ResourceKey(old[k]) \/ ResourceKey(old[m]) # ResourceKey(new[k])

\* Whoever loses a name to another resource is deleted or updated before that one.
YieldsFirst(cs, old, new) ==
  \A k \in DOMAIN old \cap DOMAIN new : ResourceKey(old[k]) # ResourceKey(new[k]) =>
    \A i \in DOMAIN cs : cs[i].op = "AddOrUpdate" /\ KeyOf(cs[i]) = ResourceKey(new[k]) =>
      \E j \in DOMAIN cs : j < i /\ KeyOf(cs[j]) = ResourceKey(old[k])

LEMMA SquashedYields ==
  ASSUME NEW R, NEW old, NEW new, OwnerMap(old, R), OwnerMap(new, R), NoExchange(old, new)
  PROVE  YieldsFirst(SquashResourceChanges(CreateResourceChanges(old, new)), old, new)
<1> DEFINE cr == CreateResourceChanges(old, new)
           sq == SquashResourceChanges(cr)
<1>1. sq \in Seq(ChangeSet(R)) /\ Transforms(sq, old, new)
  BY SquashedTransforms
<1>2. cr \in Seq(ChangeSet(R)) /\ DeletesFirst(cr, old, new)
  BY CreateOK, CreateOrder
<1> HIDE DEF cr
<1>3. FirstsFirst(sq, cr)
  BY <1>2, SquashOrder
<1> HIDE DEF sq
<1>4. Len(sq) \in Nat /\ DOMAIN sq = 1..Len(sq)
  BY <1>1, LenProperties
<1> SUFFICES ASSUME NEW k \in DOMAIN old \cap DOMAIN new, ResourceKey(old[k]) # ResourceKey(new[k]),
                    NEW i \in DOMAIN sq, sq[i].op = "AddOrUpdate", KeyOf(sq[i]) = ResourceKey(new[k])
             PROVE  \E j \in DOMAIN sq : j < i /\ KeyOf(sq[j]) = ResourceKey(old[k])
  BY DEF YieldsFirst, sq, cr
<1>5. k \in Lost(old, new)
  BY DEF Lost
<1>6. \A j \in DOMAIN sq : j < i \/ j = i \/ i < j
  BY <1>4
<1>7. CASE \A l \in Gained(old, new) : ResourceKey(new[l]) # ResourceKey(old[k])
  <2>1. PICK j \in DOMAIN sq : sq[j].op = "Delete" /\ KeyOf(sq[j]) = ResourceKey(old[k])
    BY <1>1, <1>5, <1>7 DEF Transforms
  <2>2. ~(i < j)
    BY <1>1, <2>1 DEF Transforms
  <2> QED
    BY <1>6, <2>1, <2>2
<1>8. CASE \E l \in Gained(old, new) : ResourceKey(new[l]) = ResourceKey(old[k])
  <2>1. PICK l \in Gained(old, new) : ResourceKey(new[l]) = ResourceKey(old[k])
    BY <1>8
  <2>2. PICK j \in DOMAIN sq : sq[j].op = "AddOrUpdate" /\ sq[j].resource = new[l]
    BY <1>1 DEF Transforms
  <2>3. KeyOf(sq[j]) = ResourceKey(old[k]) /\ l \in DOMAIN new
    BY <2>1, <2>2 DEF KeyOf, Gained
  <2>4. ASSUME i < j PROVE FALSE
    <3>1. PICK q \in DOMAIN cr : cr[q].op = "Delete" /\ KeyOf(cr[q]) = ResourceKey(old[k])
      BY <1>2, <1>5 DEF DeletesFirst
    <3>2. PICK p \in DOMAIN cr : p < q /\ KeyOf(cr[p]) = ResourceKey(new[k])
      BY <1>3, <2>3, <2>4, <3>1 DEF FirstsFirst
    <3>3. cr[p].op = "Delete"
      BY <1>2, <3>1, <3>2 DEF DeletesFirst
    <3>4. PICK m \in Lost(old, new) : KeyOf(cr[p]) = ResourceKey(old[m])
      BY <1>2, <3>3 DEF DeletesFirst
    <3> QED
      BY <2>1, <2>3, <3>2, <3>4 DEF NoExchange
  <2> QED
    BY <1>6, <2>3, <2>4
<1> QED
  BY <1>7, <1>8

\* That is all about operations and resources: refreshing and errors keep it.
LEMMA YieldsSame ==
  ASSUME NEW s, NEW t, NEW old, NEW new, DOMAIN s = DOMAIN t,
         \A i \in DOMAIN t : s[i].op = t[i].op /\ KeyOf(s[i]) = KeyOf(t[i]),
         YieldsFirst(t, old, new)
  PROVE  YieldsFirst(s, old, new)
BY DEF YieldsFirst

LEMMA HostYields ==
  ASSUME HostMap(hosts), HostMap(hosts'), NoExchange(hosts, hosts'), NEW R, Owners(hosts) \subseteq R,
         NewResources' \subseteq R, Owners(hosts') \subseteq NewResources'
  PROVE  YieldsFirst(HostChanges, hosts, hosts')
<1>1. OwnerMap(hosts, R) /\ OwnerMap(hosts', R)
  BY DEF HostMap, OwnerMap, Owners
<1> DEFINE sq == SquashResourceChanges(CreateResourceChanges(hosts, hosts'))
<1>2. sq \in Seq(ChangeSet(R)) /\ YieldsFirst(sq, hosts, hosts')
  BY <1>1, SquashedTransforms, SquashedYields
<1>3. HostChanges = RefreshResources(sq, NewResources')
  BY DEF HostChanges
<1> HIDE DEF sq
<1>4. /\ DOMAIN HostChanges = DOMAIN sq
      /\ \A i \in DOMAIN sq : HostChanges[i].op = sq[i].op /\ KeyOf(HostChanges[i]) = KeyOf(sq[i])
  BY <1>2, <1>3, RefreshOK
<1> QED
  BY <1>2, <1>4, YieldsSame

LEMMA ListenerYields ==
  ASSUME ListenerMap(listeners), ListenerMap(listeners'), NoExchange(listeners, listeners')
  PROVE  YieldsFirst(ListenerChanges, listeners, listeners')
<1> DEFINE R == Owners(listeners) \cup Owners(listeners')
<1>1. OwnerMap(listeners, R) /\ OwnerMap(listeners', R)
  BY DEF ListenerMap, OwnerMap, Owners
<1> QED
  BY <1>1, SquashedYields DEF ListenerChanges

-----------------------------------------------------------------------------
(* No collision between the changes *)

\* Every Ingress asks for one host, as the other kinds do.
OneHostEach ==
  \A ing \in Ingresses : Accepted(ing) => \E h : ing.hosts = {h}

\* An operation stores at most one version that was not stored before.
OneStored == \A o, p \in Stored' : o \notin Stored /\ p \notin Stored => o = p

LEMMA OneStoredStep == Next => OneStored
<1> SUFFICES ASSUME Next PROVE OneStored
  OBVIOUS
<1> USE DEF OneStored, Stored, Put, Without, NothingToDelete, objects
<1>1. ASSUME NEW o \in Ingresses, AddOrUpdateIngress(o) \/ DeleteIngress(Key(o)) PROVE OneStored
  BY <1>1 DEF AddOrUpdateIngress, DeleteIngress
<1>2. ASSUME NEW o \in VirtualServers, AddOrUpdateVirtualServer(o) \/ DeleteVirtualServer(Key(o))
      PROVE  OneStored
  BY <1>2 DEF AddOrUpdateVirtualServer, DeleteVirtualServer
<1>3. ASSUME NEW o \in VirtualServerRoutes,
             AddOrUpdateVirtualServerRoute(o) \/ DeleteVirtualServerRoute(Key(o))
      PROVE  OneStored
  BY <1>3 DEF AddOrUpdateVirtualServerRoute, DeleteVirtualServerRoute
<1>4. ASSUME NEW o \in TransportServers,
             AddOrUpdateTransportServer(o) \/ DeleteTransportServer(Key(o))
      PROVE  OneStored
  BY <1>4 DEF AddOrUpdateTransportServer, DeleteTransportServer
<1>5. ASSUME NEW gc, AddOrUpdateGlobalConfiguration(gc) PROVE OneStored
  BY <1>5 DEF AddOrUpdateGlobalConfiguration
<1>6. CASE DeleteGlobalConfiguration
  BY <1>6 DEF DeleteGlobalConfiguration
<1> QED
  BY <1>1, <1>2, <1>3, <1>4, <1>5, <1>6 DEF Next

\* When an object has one name, two resources cannot exchange names in one
\* operation: both objects would have to be new versions.
LEMMA NoExchangeOfOne ==
  ASSUME NEW old, NEW new, NEW S, NEW T,
         \A k \in DOMAIN old : old[k].obj \in S, \A k \in DOMAIN new : new[k].obj \in T,
         \A o, p \in S : Key(o) = Key(p) => o = p,
         \A o, p \in T : o \notin S /\ p \notin S => o = p,
         \A k \in DOMAIN old, l \in DOMAIN new : old[k].obj = new[l].obj => k = l
  PROVE  NoExchange(old, new)
<1> SUFFICES ASSUME NEW k \in DOMAIN old \cap DOMAIN new, NEW l \in DOMAIN new, NEW m \in Lost(old, new),
                    ResourceKey(old[k]) # ResourceKey(new[k]),
                    ResourceKey(new[l]) = ResourceKey(old[k]), ResourceKey(old[m]) = ResourceKey(new[k])
             PROVE  FALSE
  BY DEF NoExchange
<1>1. m \in DOMAIN old
  BY DEF Lost
<1>2. k # l /\ k # m
  OBVIOUS
<1>3. /\ Key(new[l].obj) = Key(old[k].obj) /\ Key(old[m].obj) = Key(new[k].obj)
      /\ Key(old[k].obj) # Key(new[k].obj)
  BY DEF ResourceKey
<1>4. new[l].obj \notin S /\ new[k].obj \notin S
  BY <1>1, <1>2, <1>3
<1>5. new[l].obj = new[k].obj
  BY <1>4
<1> QED
  BY <1>3, <1>5

\* Stored objects have one version for each key.
StoredOnce == \A o, p \in Stored : Key(o) = Key(p) => o = p

LEMMA NoExchangeStep ==
  ASSUME OneHostEach, Maps, Maps', ServedStored, ServedStored', StoredOnce, Next
  PROVE  NoExchange(hosts, hosts') /\ NoExchange(listeners, listeners')
<1>1. OneStored
  BY OneStoredStep
<1>2. ASSUME NEW f, HostMap(f), NEW h \in DOMAIN f PROVE f[h].obj.hosts = {h}
  <2>1. Shaped(f[h]) /\ h \in f[h].obj.hosts /\ (f[h].obj.kind # "Ingress" => f[h].obj.hosts = {h})
    BY <1>2 DEF HostMap
  <2>2. f[h].obj.kind = "Ingress" => f[h].obj \in Ingresses /\ Accepted(f[h].obj)
    BY <2>1, ObjectsAssumption DEF Shaped, AcceptedObjects, Objects
  <2>3. f[h].obj.kind = "Ingress" => \E g : f[h].obj.hosts = {g}
    BY <2>2 DEF OneHostEach
  <2> QED
    BY <2>1, <2>3
<1>3. ASSUME NEW h \in DOMAIN hosts, NEW g \in DOMAIN hosts', hosts[h].obj = hosts'[g].obj PROVE h = g
  <2>1. hosts[h].obj.hosts = {h} /\ hosts'[g].obj.hosts = {g}
    BY <1>2 DEF Maps
  <2> QED
    BY <1>3, <2>1
<1>4. ASSUME NEW k \in DOMAIN listeners, NEW l \in DOMAIN listeners', listeners[k].obj = listeners'[l].obj
      PROVE  k = l
  <2>1. listeners[k].obj.listener.name = k /\ listeners'[l].obj.listener.name = l
    BY DEF Maps, ListenerMap
  <2> QED
    BY <1>4, <2>1
<1>5. /\ \A h \in DOMAIN hosts : hosts[h].obj \in Stored
      /\ \A l \in DOMAIN listeners : listeners[l].obj \in Stored
  BY DEF ServedStored, InService
<1>6. /\ \A h \in DOMAIN hosts' : hosts'[h].obj \in Stored'
      /\ \A l \in DOMAIN listeners' : listeners'[l].obj \in Stored'
  BY DEF ServedStored, InService
<1> DEFINE S == Stored
           T == Stored'
<1>7. /\ \A o, p \in S : Key(o) = Key(p) => o = p
      /\ \A o, p \in T : o \notin S /\ p \notin S => o = p
  BY <1>1 DEF StoredOnce, OneStored
<1> HIDE DEF S, T
<1>8. NoExchange(hosts, hosts')
  <2>1. /\ \A h \in DOMAIN hosts : hosts[h].obj \in S
        /\ \A h \in DOMAIN hosts' : hosts'[h].obj \in T
    BY <1>5, <1>6 DEF S, T
  <2> QED
    BY <1>3, <1>7, <2>1, NoExchangeOfOne
<1>9. NoExchange(listeners, listeners')
  <2>1. /\ \A h \in DOMAIN listeners : listeners[h].obj \in S
        /\ \A h \in DOMAIN listeners' : listeners'[h].obj \in T
    BY <1>5, <1>6 DEF S, T
  <2> QED
    BY <1>4, <1>7, <2>1, NoExchangeOfOne
<1> QED
  BY <1>8, <1>9

\* The updates are for resources that own a host or a listener from now on.
UpdatesOwners(cs) ==
  \A i \in DOMAIN cs : cs[i].op = "AddOrUpdate" =>
    \/ \E h \in DOMAIN hosts' : cs[i].resource = hosts'[h]
    \/ \E l \in DOMAIN listeners' : cs[i].resource = listeners'[l]

InGoodOrder(cs) ==
  /\ UpdatesOwners(cs)
  /\ YieldsFirst(cs, hosts, hosts') /\ YieldsFirst(cs, listeners, listeners')

LEMMA GoodOrder ==
  ASSUME Maps, Maps', Next, NoExchange(hosts, hosts'), NoExchange(listeners, listeners')
  PROVE  InGoodOrder(changes')
<1> DEFINE R == ResourcesAbout
           a == ListenerChanges
           b == HostChanges
<1>1. /\ Owners(hosts) \subseteq R /\ NewResources' \subseteq R
      /\ Owners(listeners) \subseteq R /\ Owners(listeners') \subseteq R
  BY DEF ResourcesAbout
<1> HIDE DEF R
<1>2. /\ b \in Seq(ChangeSet(R)) /\ Transforms(b, hosts, hosts')
      /\ a \in Seq(ChangeSet(R)) /\ Transforms(a, listeners, listeners')
  BY <1>1, HostChangesOK, ListenerChangesOK DEF Maps
<1>3. YieldsFirst(b, hosts, hosts') /\ YieldsFirst(a, listeners, listeners')
  BY <1>1, HostYields, ListenerYields DEF Maps
<1> HIDE DEF a, b
<1>4. /\ \A i \in DOMAIN a : a[i].op = "AddOrUpdate" => \E l \in DOMAIN listeners' : a[i].resource = listeners'[l]
      /\ \A i \in DOMAIN b : b[i].op = "AddOrUpdate" => \E h \in DOMAIN hosts' : b[i].resource = hosts'[h]
  BY <1>2 DEF Transforms, Gained
<1>5. /\ \A i \in DOMAIN a : a[i].op = "AddOrUpdate" =>
           \A h \in DOMAIN hosts' : KeyOf(a[i]) # ResourceKey(hosts'[h])
      /\ \A i \in DOMAIN b : b[i].op = "AddOrUpdate" =>
           \A l \in DOMAIN listeners' : KeyOf(b[i]) # ResourceKey(listeners'[l])
  BY <1>4 DEF KeyOf, Maps
<1>6. ASSUME NEW cs, NEW f, NEW g, f = g PROVE YieldsFirst(cs, f, g)
  BY <1>6 DEF YieldsFirst
<1>7. /\ a \o b \in Seq(ChangeSet(R)) /\ Len(a) \in Nat /\ Len(b) \in Nat
      /\ DOMAIN a = 1..Len(a) /\ DOMAIN b = 1..Len(b)
      /\ DOMAIN (a \o b) = 1..(Len(a) + Len(b)) /\ a \o <<>> = a
      /\ \A i \in 1..(Len(a) + Len(b)) : (a \o b)[i] = IF i <= Len(a) THEN a[i] ELSE b[i - Len(a)]
  BY <1>2, LenProperties, ConcatProperties, ConcatEmptySeq
<1> DEFINE ab == a \o b
<1>8. /\ \A i \in DOMAIN ab :
           \/ i \in DOMAIN a /\ ab[i] = a[i]
           \/ i - Len(a) \in DOMAIN b /\ ab[i] = b[i - Len(a)]
      /\ \A i \in DOMAIN a : i \in DOMAIN ab /\ ab[i] = a[i]
      /\ \A i \in DOMAIN b : i + Len(a) \in DOMAIN ab /\ ab[i + Len(a)] = b[i]
      /\ \A i \in DOMAIN ab, j \in DOMAIN b : j < i - Len(a) => j + Len(a) < i
  BY <1>7
<1> HIDE DEF ab
<1>9. InGoodOrder(ab)
  <2>1. UpdatesOwners(ab)
    BY <1>4, <1>8 DEF UpdatesOwners
  <2>2. YieldsFirst(ab, hosts, hosts')
    <3> SUFFICES ASSUME NEW k \in DOMAIN hosts \cap DOMAIN hosts', ResourceKey(hosts[k]) # ResourceKey(hosts'[k]),
                        NEW i \in DOMAIN ab, ab[i].op = "AddOrUpdate", KeyOf(ab[i]) = ResourceKey(hosts'[k])
                 PROVE  \E j \in DOMAIN ab : j < i /\ KeyOf(ab[j]) = ResourceKey(hosts[k])
      BY DEF YieldsFirst
    <3>1. i - Len(a) \in DOMAIN b /\ ab[i] = b[i - Len(a)]
      BY <1>5, <1>8
    <3>2. PICK j \in DOMAIN b : j < i - Len(a) /\ KeyOf(b[j]) = ResourceKey(hosts[k])
      BY <1>3, <3>1 DEF YieldsFirst
    <3> QED
      BY <1>8, <3>2
  <2>3. YieldsFirst(ab, listeners, listeners')
    <3> SUFFICES ASSUME NEW k \in DOMAIN listeners \cap DOMAIN listeners',
                        ResourceKey(listeners[k]) # ResourceKey(listeners'[k]),
                        NEW i \in DOMAIN ab, ab[i].op = "AddOrUpdate", KeyOf(ab[i]) = ResourceKey(listeners'[k])
                 PROVE  \E j \in DOMAIN ab : j < i /\ KeyOf(ab[j]) = ResourceKey(listeners[k])
      BY DEF YieldsFirst
    <3>1. i \in DOMAIN a /\ ab[i] = a[i]
      BY <1>5, <1>8
    <3>2. PICK j \in DOMAIN a : j < i /\ KeyOf(a[j]) = ResourceKey(listeners[k])
      BY <1>3, <3>1 DEF YieldsFirst
    <3> QED
      BY <1>8, <3>2
  <2> QED
    BY <2>1, <2>2, <2>3 DEF InGoodOrder
<1>10. UpdatesOwners(a) /\ UpdatesOwners(b)
  BY <1>4 DEF UpdatesOwners
<1>11. ASSUME NEW cs \in Seq(ChangeSet(R)), InGoodOrder(cs), NEW ps, Answers(cs, ps) PROVE InGoodOrder(changes')
  <2>1. SameChanges(changes', cs)
    BY <1>11, AnswersOK
  <2>2. DOMAIN changes' = DOMAIN cs
        /\ \A i \in DOMAIN cs : changes'[i].op = cs[i].op /\ KeyOf(changes'[i]) = KeyOf(cs[i])
                                /\ changes'[i].resource = cs[i].resource
    BY <2>1 DEF SameChanges, KeyOf
  <2>3. YieldsFirst(changes', hosts, hosts') /\ YieldsFirst(changes', listeners, listeners')
    BY <1>11, <2>2, YieldsSame DEF InGoodOrder
  <2>4. UpdatesOwners(changes')
    BY <1>11, <2>2 DEF InGoodOrder, UpdatesOwners
  <2> QED
    BY <2>3, <2>4 DEF InGoodOrder
<1>12. CASE NoRebuild
  <2>1. changes' = <<>>
    BY <1>12 DEF NoRebuild, Respond
  <2> QED
    BY <2>1 DEF InGoodOrder, UpdatesOwners, YieldsFirst
<1>13. CASE HostRebuild
  <2>1. listeners' = listeners /\ \E ps : Answers(b, ps)
    BY <1>13 DEF HostRebuild, b
  <2>2. InGoodOrder(b)
    BY <1>3, <1>6, <1>10, <2>1 DEF InGoodOrder
  <2> QED
    BY <1>2, <1>11, <2>1, <2>2
<1>14. CASE ListenerRebuild
  <2>1. hosts' = hosts /\ \E ps : Answers(a, ps)
    BY <1>7, <1>14 DEF ListenerRebuild, a
  <2>2. InGoodOrder(a)
    BY <1>3, <1>6, <1>10, <2>1 DEF InGoodOrder
  <2> QED
    BY <1>2, <1>11, <2>1, <2>2
<1>15. CASE FullRebuild
  <2>1. ab \in Seq(ChangeSet(R)) /\ \E ps : Answers(ab, ps)
    BY <1>7, <1>15 DEF FullRebuild, ab, a, b
  <2> QED
    BY <1>9, <1>11, <2>1
<1> QED
  BY <1>12, <1>13, <1>14, <1>15, StepKinds

LEMMA ContentFields ==
  ASSUME NEW r
  PROVE  /\ Content(r).key = Key(r.obj) /\ Content(r).key[1] = r.obj.kind
         /\ Content(r).spec = ConfigSpec(r.obj) /\ Content(r).spec.hosts = r.obj.hosts
<1>1. Content(r).key = Key(r.obj)
  BY DEF Content, ResourceKey
<1>2. Content(r).spec = ConfigSpec(r.obj)
  BY DEF Content
<1>3. ConfigSpec(r.obj).hosts = r.obj.hosts /\ Key(r.obj)[1] = r.obj.kind
  BY DEF ConfigSpec, Key
<1> QED
  BY <1>1, <1>2, <1>3

\* The file of the owner of a host binds the hosts that it owns.
LEMMA HostBinds ==
  ASSUME Maps, NEW h \in DOMAIN hosts
  PROVE  /\ \A g : <<"host", g>> \in Binds(Content(hosts[h])) <=>
                     g \in hosts[h].obj.hosts /\ ResourceKey(hosts[g]) = ResourceKey(hosts[h])
         /\ \A b \in Binds(Content(hosts[h])) : \E g : b = <<"host", g>>
<1> DEFINE r == hosts[h]
           f == Content(r)
<1>1. /\ Shaped(r) /\ h \in r.obj.hosts
      /\ r.obj.kind = "Ingress" =>
           r.validHosts = [g \in r.obj.hosts |-> ResourceKey(hosts[g]) = ResourceKey(r)]
      /\ r.obj.kind # "Ingress" => r.obj.hosts = {h}
  BY DEF Maps, HostMap
<1>2. r.obj \in Objects /\ Accepted(r.obj) /\ r.obj \notin VirtualServerRoutes
  BY <1>1 DEF Shaped, AcceptedObjects
<1>3. f.key[1] = r.obj.kind /\ f.spec.hosts = r.obj.hosts /\ f.spec = ConfigSpec(r.obj)
  BY ContentFields
<1>4. f.validHosts = r.validHosts /\ f.spec.listener = r.obj.listener
  BY <1>3 DEF Content, ConfigSpec
<1> HIDE DEF f, r
<1>5. CASE r.obj.kind = "Ingress"
  <2>1. Binds(f) = {<<"host", g>> : g \in {k \in f.spec.hosts : f.validHosts[k]}}
    BY <1>3, <1>5 DEF Binds
  <2>2. \A g : g \in {k \in f.spec.hosts : f.validHosts[k]} <=>
                 g \in r.obj.hosts /\ ResourceKey(hosts[g]) = ResourceKey(r)
    BY <1>1, <1>3, <1>4, <1>5
  <2> QED
    BY <2>1, <2>2 DEF f, r
<1>6. CASE r.obj.kind # "Ingress"
  <2>1. r.obj.kind = "TransportServer" => f.spec.listener.protocol = TLSPassthrough
    <3>1. r.obj.kind = "TransportServer" => r.obj \in TransportServers
      BY <1>2, ObjectsAssumption DEF Objects
    <3> QED
      BY <1>1, <1>2, <1>4, <3>1, ValidationAssumption DEF Accepted
  <2>2. Binds(f) = {<<"host", g>> : g \in f.spec.hosts}
    BY <1>3, <1>6, <2>1 DEF Binds
  <2>3. \A g : g \in f.spec.hosts <=> g \in r.obj.hosts /\ ResourceKey(hosts[g]) = ResourceKey(r)
    BY <1>1, <1>3, <1>6 DEF r
  <2> QED
    BY <2>2, <2>3 DEF f, r
<1> QED
  BY <1>5, <1>6

LEMMA ListenerBinds ==
  ASSUME Maps, NEW l \in DOMAIN listeners
  PROVE  /\ Binds(Content(listeners[l])) = {<<"listener", l>>}
         /\ Content(listeners[l]).port = listeners[l].port
<1> DEFINE r == listeners[l]
           f == Content(r)
<1>1. r.obj \in TransportServers /\ r.obj.listener.name = l /\ r.obj.listener.protocol # TLSPassthrough
  BY DEF Maps, ListenerMap
<1>2. r.obj.kind = "TransportServer"
  BY <1>1, ObjectsAssumption
<1>3. f.key[1] = r.obj.kind /\ f.spec = ConfigSpec(r.obj)
  BY ContentFields
<1>4. f.spec.listener = r.obj.listener /\ f.port = r.port
  BY <1>3 DEF ConfigSpec, Content
<1> QED
  BY <1>1, <1>2, <1>3, <1>4 DEF Binds

\* The owner of a name is the one whose config file binds it.
OwnersBind ==
  /\ \A h \in DOMAIN hosts : \A b \in Binds(Content(hosts[h])) :
       \E g \in DOMAIN hosts : b = <<"host", g>> /\ hosts[g] = hosts[h]
  /\ \A l \in DOMAIN listeners : Binds(Content(listeners[l])) = {<<"listener", l>>}

LEMMA OwnersBindNow == Maps => OwnersBind
<1> SUFFICES ASSUME Maps PROVE OwnersBind
  OBVIOUS
<1>1. ASSUME NEW h \in DOMAIN hosts, NEW b \in Binds(Content(hosts[h]))
      PROVE  \E g \in DOMAIN hosts : b = <<"host", g>> /\ hosts[g] = hosts[h]
  <2>1. PICK g : b = <<"host", g>> /\ g \in hosts[h].obj.hosts /\ ResourceKey(hosts[g]) = ResourceKey(hosts[h])
    BY HostBinds
  <2>2. g \in DOMAIN hosts
    BY <2>1 DEF Maps, HostMap
  <2> QED
    BY <2>1, <2>2 DEF Maps, HostMap, OneResourcePerKey
<1> QED
  BY <1>1, ListenerBinds DEF OwnersBind

LEMMA OwnersBindNext == Maps' => OwnersBind'
BY OwnersBindNow, PTL

\* The file f is the file of an owner.
Owned(f, hs, ls) ==
  (\E h \in DOMAIN hs : f = Content(hs[h])) \/ (\E l \in DOMAIN ls : f = Content(ls[l]))

\* The name b is bound by the file f of its owner.
BoundByOwner(f, b, hs, ls) ==
  \/ \E h \in DOMAIN hs : b = <<"host", h>> /\ f = Content(hs[h])
  \/ \E l \in DOMAIN ls : b = <<"listener", l>> /\ f = Content(ls[l])

LEMMA OwnedBinds ==
  ASSUME OwnersBind, NEW f, Owned(f, hosts, listeners), NEW b \in Binds(f)
  PROVE  BoundByOwner(f, b, hosts, listeners)
<1>1. CASE \E h \in DOMAIN hosts : f = Content(hosts[h])
  BY <1>1 DEF OwnersBind, BoundByOwner
<1>2. CASE \E l \in DOMAIN listeners : f = Content(listeners[l])
  BY <1>2 DEF OwnersBind, BoundByOwner
<1> QED
  BY <1>1, <1>2 DEF Owned

LEMMA OwnedBindsNext ==
  ASSUME OwnersBind', NEW f, Owned(f, hosts', listeners'), NEW b \in Binds(f)
  PROVE  BoundByOwner(f, b, hosts', listeners')
<1>1. CASE \E h \in DOMAIN hosts' : f = Content(hosts'[h])
  BY <1>1 DEF OwnersBind, BoundByOwner
<1>2. CASE \E l \in DOMAIN listeners' : f = Content(listeners'[l])
  BY <1>2 DEF OwnersBind, BoundByOwner
<1> QED
  BY <1>1, <1>2 DEF Owned

LEMMA BoundOnce ==
  ASSUME NEW f, NEW g, NEW b, NEW hs, NEW ls, BoundByOwner(f, b, hs, ls), BoundByOwner(g, b, hs, ls)
  PROVE  f = g
BY DEF BoundByOwner

\* Whichever of the changes have been applied, each name is bound once: a file of
\* an old owner is gone when the new owner's file is written.
LEMMA NoCollisionStep ==
  ASSUME Maps, Maps', Next, InGoodOrder(changes'), NEW n \in 0..Len(changes'),
         NEW f \in FilesAfter(n), NEW g \in FilesAfter(n), NEW b \in Binds(f), b \in Binds(g)
  PROVE  f = g
<1> DEFINE cs == changes'
           pre == SubSeq(cs, 1, n)
<1>1. cs \in Seq(ChangeSet(ResourcesAbout))
  BY ChangesAbout
<1>2. Len(cs) \in Nat /\ DOMAIN cs = 1..Len(cs) /\ n \in Nat
  BY <1>1, LenProperties
<1>3. /\ pre \in Seq(ChangeSet(ResourcesAbout)) /\ DOMAIN pre = 1..n
      /\ \A i \in 1..n : pre[i] = cs[i] /\ i \in DOMAIN cs
  <2>1. 1 \in 1..(Len(cs) + 1) /\ n \in 0..Len(cs)
    BY <1>2
  <2> HIDE DEF cs
  <2>2. pre = [i \in 1..n |-> cs[i]]
    BY <1>1, <1>2, <2>1
  <2>3. \A i \in 1..n : i \in DOMAIN cs /\ cs[i] \in ChangeSet(ResourcesAbout)
    BY <1>1, <1>2, <2>1, ElementOfSeq
  <2> HIDE DEF pre
  <2>4. pre \in [1..n -> ChangeSet(ResourcesAbout)]
    BY <2>2, <2>3
  <2> QED
    BY <1>2, <2>2, <2>3, <2>4
<1> HIDE DEF cs
<1>4. InGoodOrder(cs)
  BY DEF cs
<1> HIDE DEF pre
<1> DEFINE F == Files(hosts, listeners)
           Untouched(x) == x \in F /\ \A i \in 1..n : KeyOf(cs[i]) # x.key
           Written(x) == \E i \in 1..n : cs[i].op = "AddOrUpdate" /\ x = Content(cs[i].resource)
<1>5. ASSUME NEW x \in FilesAfter(n) PROVE Untouched(x) \/ Written(x)
  <2>1. x \in Applied(F, pre)
    BY DEF FilesAfter, pre, cs
  <2>2. CASE x \in F /\ \A c \in Finals(pre) : KeyOf(c) # x.key
    <3>1. ASSUME NEW i \in 1..n PROVE KeyOf(cs[i]) # x.key
      <4>1. LastChanges(pre)[i] \in Finals(pre) /\ KeyOf(LastChanges(pre)[i]) = KeyOf(pre[i])
        BY <1>3, LastChangesOK
      <4> QED
        BY <1>3, <2>2, <4>1
    <3> QED
      BY <2>2, <3>1
  <2>3. CASE \E c \in Finals(pre) : c.op = "AddOrUpdate" /\ x = Content(c.resource)
    <3>1. PICK c \in Finals(pre) : c.op = "AddOrUpdate" /\ x = Content(c.resource)
      BY <2>3
    <3>2. PICK i \in DOMAIN pre : pre[i] = c
      BY FinalPosition
    <3> QED
      BY <1>3, <3>1, <3>2
  <2> HIDE DEF F
  <2> QED
    BY <2>1, <2>2, <2>3, AppliedElement
<1>6. ASSUME NEW x, Untouched(x) PROVE Owned(x, hosts, listeners)
  BY <1>6 DEF Files, Owned
<1>7. ASSUME NEW x, Written(x) PROVE Owned(x, hosts', listeners')
  <2>1. PICK i \in 1..n : cs[i].op = "AddOrUpdate" /\ x = Content(cs[i].resource)
    BY <1>7
  <2> QED
    BY <1>3, <1>4, <2>1 DEF InGoodOrder, UpdatesOwners, Owned
<1>8. OwnersBind /\ OwnersBind'
  BY OwnersBindNow, OwnersBindNext
<1>9. ASSUME NEW x, NEW y, b \in Binds(x), b \in Binds(y), Untouched(x), Written(y)
      PROVE  FALSE
  <2>1. BoundByOwner(x, b, hosts, listeners)
    BY <1>6, <1>8, <1>9, OwnedBinds
  <2>2. BoundByOwner(y, b, hosts', listeners')
    BY <1>7, <1>8, <1>9, OwnedBindsNext
  <2>3. PICK i \in 1..n : cs[i].op = "AddOrUpdate" /\ y = Content(cs[i].resource)
    BY <1>9
  <2>4. KeyOf(cs[i]) = y.key /\ i \in DOMAIN cs
    BY <1>3, <2>3, ContentKey DEF KeyOf
  <2>5. x.key # y.key
    BY <1>9, <2>4
  <2>6. ASSUME NEW old, NEW new, YieldsFirst(cs, old, new), NEW k \in DOMAIN old \cap DOMAIN new,
               x = Content(old[k]), y = Content(new[k])
        PROVE  FALSE
    <3>1. x.key = ResourceKey(old[k]) /\ y.key = ResourceKey(new[k])
      BY <2>6, ContentKey
    <3>2. PICK j \in DOMAIN cs : j < i /\ KeyOf(cs[j]) = x.key
      BY <2>3, <2>4, <2>5, <2>6, <3>1 DEF YieldsFirst
    <3>3. j \in 1..n
      BY <1>2, <3>2
    <3> QED
      BY <1>9, <3>2, <3>3
  <2>7. YieldsFirst(cs, hosts, hosts') /\ YieldsFirst(cs, listeners, listeners')
    BY <1>4 DEF InGoodOrder
  <2>8. CASE \E h \in DOMAIN hosts : b = <<"host", h>> /\ x = Content(hosts[h])
    BY <2>2, <2>6, <2>7, <2>8 DEF BoundByOwner
  <2>9. CASE \E l \in DOMAIN listeners : b = <<"listener", l>> /\ x = Content(listeners[l])
    BY <2>2, <2>6, <2>7, <2>9 DEF BoundByOwner
  <2> QED
    BY <2>1, <2>8, <2>9 DEF BoundByOwner
<1>10. CASE Untouched(f) /\ Untouched(g)
  <2>1. BoundByOwner(f, b, hosts, listeners) /\ BoundByOwner(g, b, hosts, listeners)
    BY <1>6, <1>8, <1>10, OwnedBinds
  <2> QED
    BY <2>1, BoundOnce
<1>11. CASE Written(f) /\ Written(g)
  <2>1. BoundByOwner(f, b, hosts', listeners') /\ BoundByOwner(g, b, hosts', listeners')
    BY <1>7, <1>8, <1>11, OwnedBindsNext
  <2> QED
    BY <2>1, BoundOnce
<1> HIDE DEF Untouched, Written
<1> QED
  BY <1>5, <1>9, <1>10, <1>11

\* NoTransientCollision holds whenever no accepted Ingress asks for two hosts: at
\* no point between the changes that an operation returns do two config files bind
\* the same host or listener.  (squashResourceChanges orders the updates by the first
\* change of each resource; that is enough because one operation brings in one
\* new version, so that no two resources can exchange names.)
THEOREM NoTransientCollisionTheorem ==
  ASSUME OneHostEach
  PROVE  Spec => NoTransientCollision
<1> DEFINE Inv == StoresOK /\ StoresFinite /\ InStep
           Disjoint == \A n \in 0..Len(changes') : \A f, g \in FilesAfter(n) :
                       f # g /\ OneHost(f.spec) /\ OneHost(g.spec) =>
                         Binds(f) \cap Binds(g) = {}
<1>1. ASSUME Maps, Maps', ServedStored, ServedStored', StoredOnce, Next
      PROVE  Disjoint
  <2>1. InGoodOrder(changes')
    BY <1>1, NoExchangeStep, GoodOrder
  <2>2. \A n \in 0..Len(changes') : \A f, g \in FilesAfter(n) :
          f # g => Binds(f) \cap Binds(g) = {}
    BY <1>1, <2>1, NoCollisionStep
  <2> QED
    BY <2>2
<1>2. Maps /\ Maps' /\ ServedStored /\ ServedStored' /\ StoredOnce /\ [Next]_vars => [Disjoint]_vars
  BY <1>1
<1>3. Inv => Maps /\ ServedStored /\ StoredOnce
  BY MapsNow, ServedStoredNow, StoredKinds DEF StoredOnce
<1>4. Spec => []Inv
  BY InStepInvariant
<1> HIDE DEF Inv
<1> QED
  BY <1>2, <1>3, <1>4, PTL DEF Spec, NoTransientCollision
=============================================================================
