--------------------------- MODULE OperatorProofs ---------------------------
(***************************************************************************)
(* Lemmas about the operators that the components are built from: the      *)
(* order of seniority, sorting and filtering, and the work queue.          *)
(***************************************************************************)
EXTENDS Seniority, Sorting, WorkQueue, FiniteSetTheorems, WellFoundedInduction, TLAPS

-----------------------------------------------------------------------------
(* Seniority *)

\* A non-empty set of natural numbers has a least element.
LEMMA LeastNat ==
  ASSUME NEW T, T \subseteq Nat, T # {}
  PROVE  \E x \in T : \A y \in T : x <= y
<1>1. \E x \in T : \A y \in T : ~ (<<y, x>> \in OpToRel(<, Nat))
  BY WFMin, NatLessThanWellFounded
<1>2. \A x, y \in Nat : y < x => <<y, x>> \in OpToRel(<, Nat)
  BY Zenon DEF OpToRel
<1>3. PICK x \in T : \A y \in T : ~ (y < x)
  BY <1>1, <1>2, Zenon
<1> QED
  BY <1>3

\* Objects as far as seniority goes: distinct UIDs, below some last one.
Ranked(C, N) ==
  /\ N \in Nat
  /\ \A o \in C : o.created \in Nat /\ o.uid \in 0..N
  /\ \A o, p \in C : o # p => o.uid # p.uid

\* Wins never ties and never goes in circles (chooseObjectMetaWinner).
LEMMA WinsIsTotalOrder ==
  ASSUME NEW C, NEW N, Ranked(C, N)
  PROVE  /\ \A o \in C : ~Wins(o, o)
         /\ \A o, p \in C : o # p => (Wins(o, p) <=> ~Wins(p, o))
         /\ \A o, p, q \in C : Wins(o, p) /\ Wins(p, q) => Wins(o, q)
         /\ \A o, p \in C : Wins(o, p) <=> Senior(o, p)
BY DEF Ranked, Wins, Senior

\* The Holder that the loops of Configuration end with exists, and is senior
\* to every other claimant.
THEOREM SeniorExists ==
  ASSUME NEW C, NEW N, Ranked(C, N), C # {}
  PROVE  /\ Holder(C) \in C
         /\ \A p \in C \ {Holder(C)} : Senior(Holder(C), p)
<1> DEFINE Oldest == {o \in C : \A p \in C : o.created <= p.created}
           Rest(o) == N - o.uid
<1>1. \A o \in C : o.created \in Nat /\ o.uid \in Nat /\ Rest(o) \in Nat
  BY DEF Ranked
<1>2. PICK t \in {o.created : o \in C} : \A u \in {o.created : o \in C} : t <= u
  BY <1>1, LeastNat
<1>3. Oldest # {}
  BY <1>2
<1>4. PICK u \in {Rest(o) : o \in Oldest} : \A v \in {Rest(o) : o \in Oldest} : u <= v
  <2>1. {Rest(o) : o \in Oldest} \subseteq Nat
    BY <1>1
  <2>2. {Rest(o) : o \in Oldest} # {}
    BY <1>3
  <2> HIDE DEF Oldest, Rest
  <2> QED
    BY <2>1, <2>2, LeastNat
<1>5. PICK o \in Oldest : Rest(o) = u
  BY <1>4
<1>6. \A p \in C \ {o} : Wins(o, p)
  <2> SUFFICES ASSUME NEW p \in C, p # o PROVE Wins(o, p)
    OBVIOUS
  <2>1. CASE p.created = o.created
    <3>1. p \in Oldest
      BY <2>1, <1>5
    <3>2. Rest(o) <= Rest(p)
      BY <3>1, <1>4, <1>5
    <3> QED
      BY <3>2, <2>1, <1>1, <1>5 DEF Wins, Ranked
  <2>2. CASE p.created # o.created
    BY <2>2, <1>1, <1>5 DEF Wins
  <2> QED
    BY <2>1, <2>2
<1>7. Holder(C) \in C /\ \A p \in C \ {Holder(C)} : Wins(Holder(C), p)
  BY <1>5, <1>6 DEF Holder
<1> QED
  BY <1>7, WinsIsTotalOrder

\* Nobody else could be the Holder.
LEMMA HolderUnique ==
  ASSUME NEW C, NEW N, Ranked(C, N), NEW o \in C, \A p \in C \ {o} : Senior(o, p)
  PROVE  Holder(C) = o
<1>1. Holder(C) \in C /\ \A p \in C \ {Holder(C)} : Senior(Holder(C), p)
  BY SeniorExists
<1> QED
  BY <1>1 DEF Ranked, Senior

-----------------------------------------------------------------------------
(* Sorting *)

\* Sorting a finite set of names lists each of them once, in increasing order.
LEMMA SortedOK ==
  ASSUME NEW S, S \subseteq Nat, IsFiniteSet(S)
  PROVE  /\ Cardinality(S) \in Nat
         /\ Sorted(S) \in [1..Cardinality(S) -> S]
         /\ \A x \in S : \E i \in 1..Cardinality(S) : Sorted(S)[i] = x
         /\ \A i, j \in 1..Cardinality(S) : i < j => Sorted(S)[i] < Sorted(S)[j]
<1> DEFINE n == Cardinality(S)
           Below(x) == {y \in S : y < x}
           rank == [x \in S |-> Cardinality(Below(x)) + 1]
<1>1. n \in Nat
  BY FS_CardinalityType
<1>2. \A x \in S : IsFiniteSet(Below(x)) /\ Cardinality(Below(x)) \in Nat
                   /\ Cardinality(Below(x)) + 1 <= n
  <2> SUFFICES ASSUME NEW x \in S
               PROVE  IsFiniteSet(Below(x)) /\ Cardinality(Below(x)) \in Nat
                      /\ Cardinality(Below(x)) + 1 <= n
    OBVIOUS
  <2>1. IsFiniteSet(S \ {x}) /\ Cardinality(S \ {x}) = n - 1
    BY FS_RemoveElement
  <2>2. Below(x) \in SUBSET (S \ {x})
    OBVIOUS
  <2>3. IsFiniteSet(Below(x)) /\ Cardinality(Below(x)) <= n - 1
    BY <2>1, <2>2, FS_Subset
  <2>4. Cardinality(Below(x)) \in Nat
    BY <2>3, FS_CardinalityType
  <2> QED
    BY <1>1, <2>3, <2>4
<1>3. \A x, y \in S : x < y => Cardinality(Below(x)) < Cardinality(Below(y))
  <2> SUFFICES ASSUME NEW x \in S, NEW y \in S, x < y
               PROVE  Cardinality(Below(x)) < Cardinality(Below(y))
    OBVIOUS
  <2>1. Below(x) \cup {x} \in SUBSET Below(y) /\ x \notin Below(x)
    <3>1. x \in Nat /\ y \in Nat /\ \A z \in S : z \in Nat
      OBVIOUS
    <3>2. ~(x < x) /\ \A z \in S : z < x => z < y
      BY <3>1
    <3> QED
      BY <3>2
  <2>2. Cardinality(Below(x) \cup {x}) <= Cardinality(Below(y))
    BY <1>2, <2>1, FS_Subset
  <2>3. Cardinality(Below(x) \cup {x}) = Cardinality(Below(x)) + 1
    BY <1>2, <2>1, FS_AddElement
  <2> QED
    BY <1>2, <2>2, <2>3
<1> HIDE DEF n, Below
<1>4. \A i \in 1..n : \E x \in S : Cardinality(Below(x)) = i - 1
  <2>1. rank \in [S -> 1..n]
    BY <1>1, <1>2
  <2>2. \A x, y \in S : rank[x] = rank[y] => x = y
    <3> SUFFICES ASSUME NEW x \in S, NEW y \in S, rank[x] = rank[y] PROVE x = y
      OBVIOUS
    <3>1. Cardinality(Below(x)) = Cardinality(Below(y))
      BY <1>2
    <3>2. x \in Nat /\ y \in Nat
      OBVIOUS
    <3> QED
      BY <1>2, <1>3, <3>1, <3>2
  <2>3. rank \in Injection(S, 1..n)
    BY <2>1, <2>2 DEF Injection, IsInjective
  <2>4. IsFiniteSet(1..n) /\ Cardinality(1..n) = n
    BY <1>1, FS_Interval
  <2>5. rank \in Surjection(S, 1..n)
    <3> HIDE DEF rank
    <3> QED
      BY <2>3, <2>4, FS_Injection DEF n
  <2>6. \A i \in 1..n : \E x \in S : rank[x] = i
    BY <2>5 DEF Surjection
  <2> QED
    BY <1>2, <2>6
<1>5. /\ DOMAIN Sorted(S) = 1..n
      /\ \A i \in 1..n : /\ Sorted(S)[i] \in S
                         /\ Cardinality(Below(Sorted(S)[i])) = i - 1
  BY <1>4 DEF Sorted, n, Below
<1>6. Sorted(S) \in [1..n -> S]
  BY <1>5 DEF Sorted, n
<1>7. ASSUME NEW i \in 1..n, NEW j \in 1..n, i < j PROVE Sorted(S)[i] < Sorted(S)[j]
  <2> DEFINE x == Sorted(S)[i]
             y == Sorted(S)[j]
  <2>1. x \in S /\ y \in S /\ x \in Nat /\ y \in Nat
    BY <1>5
  <2>2. Cardinality(Below(x)) = i - 1 /\ Cardinality(Below(y)) = j - 1
    BY <1>5
  <2> HIDE DEF x, y
  <2>3. ~(y < x) /\ y # x
    BY <1>1, <1>3, <1>7, <2>1, <2>2
  <2> QED
    BY <2>1, <2>3 DEF x, y
<1>8. ASSUME NEW x \in S PROVE \E i \in 1..n : Sorted(S)[i] = x
  <2> DEFINE i == Cardinality(Below(x)) + 1
             y == Sorted(S)[i]
  <2>1. i \in 1..n
    BY <1>1, <1>2
  <2>2. y \in S /\ Cardinality(Below(y)) = Cardinality(Below(x))
    BY <1>2, <1>5, <2>1
  <2>3. x \in Nat /\ y \in Nat
    BY <2>2
  <2> HIDE DEF y
  <2>4. y = x
    BY <1>2, <1>3, <2>2, <2>3
  <2> QED
    BY <2>1, <2>4 DEF y
<1> QED
  BY <1>1, <1>6, <1>7, <1>8 DEF n

\* Filtering a sequence keeps exactly the chosen elements, in their order.
LEMMA SubsequenceOK ==
  ASSUME NEW s, NEW at, at \subseteq Nat, IsFiniteSet(at)
  PROVE  /\ Cardinality(at) \in Nat
         /\ Subsequence(s, at) = [k \in 1..Cardinality(at) |-> s[Sorted(at)[k]]]
         /\ \A k \in 1..Cardinality(at) : Sorted(at)[k] \in at
         /\ \A i \in at : \E k \in 1..Cardinality(at) : Sorted(at)[k] = i
         /\ \A j, k \in 1..Cardinality(at) : j < k => Sorted(at)[j] < Sorted(at)[k]
BY SortedOK DEF Subsequence

-----------------------------------------------------------------------------
(* The work queue *)

\* Appending a task that was not queued, and is now dirty and not being
\* processed, keeps the queue well formed.
LEMMA AppendOK ==
  ASSUME NEW T, NEW q \in Queues(T), NEW t \in T, WellFormed(q),
         NEW r \in Queues(T), r.items = Append(q.items, t), r.dirty = q.dirty \cup {t},
         r.processing = q.processing \ {t}, t \notin q.dirty \ q.processing
  PROVE  WellFormed(r)
<1> DEFINE n == Len(q.items)
<1>1. n \in Nat /\ DOMAIN q.items = 1..n /\ DOMAIN r.items = 1..(n + 1)
  BY DEF Queues
<1>2. r.items[n + 1] = t /\ \A i \in 1..n : r.items[i] = q.items[i]
  BY <1>1 DEF Queues
<1>3. \A i \in 1..n : q.items[i] \in q.dirty \ q.processing /\ q.items[i] # t
  BY <1>1 DEF WellFormed
<1>4. \A i, j \in 1..n : q.items[i] = q.items[j] => i = j
  BY <1>1 DEF WellFormed
<1>5. \A i, j \in DOMAIN r.items : r.items[i] = r.items[j] => i = j
  BY <1>1, <1>2, <1>3, <1>4
<1>6. \A i \in DOMAIN r.items : r.items[i] \in r.dirty \ r.processing
  BY <1>1, <1>2, <1>3
<1>7. \A u \in r.dirty \ r.processing : \E i \in DOMAIN r.items : r.items[i] = u
  BY <1>1, <1>2 DEF WellFormed
<1> QED BY <1>5, <1>6, <1>7 DEF WellFormed

\* Add keeps the queue well formed and marks the task unless shutting down.
LEMMA AddOK ==
  ASSUME NEW T, NEW q \in Queues(T), NEW t \in T, WellFormed(q)
  PROVE  /\ Add(q, t) \in Queues(T) /\ WellFormed(Add(q, t))
         /\ Add(q, t).processing = q.processing
         /\ Add(q, t).shuttingDown = q.shuttingDown
         /\ q.dirty \subseteq Add(q, t).dirty
         /\ q.shuttingDown \/ t \in Add(q, t).dirty
         /\ q.shuttingDown => Add(q, t) = q
<1>1. CASE q.shuttingDown \/ t \in q.dirty
  BY <1>1 DEF Add, Queues
<1>2. CASE ~(q.shuttingDown \/ t \in q.dirty) /\ t \in q.processing
  BY <1>2 DEF Add, Queues, WellFormed
<1>3. CASE ~(q.shuttingDown \/ t \in q.dirty) /\ t \notin q.processing
  <2>1. Add(q, t) = [q EXCEPT !.dirty = q.dirty \cup {t}, !.items = Append(q.items, t)]
    BY <1>3 DEF Add
  <2>2. Append(q.items, t) \in Seq(T)
    BY DEF Queues
  <2>3. /\ Add(q, t) \in Queues(T)
        /\ Add(q, t).items = Append(q.items, t) /\ Add(q, t).dirty = q.dirty \cup {t}
        /\ Add(q, t).processing = q.processing /\ Add(q, t).shuttingDown = q.shuttingDown
    BY <2>1, <2>2 DEF Queues
  <2>4. WellFormed(Add(q, t))
    BY <1>3, <2>3, AppendOK
  <2> QED BY <1>3, <2>3, <2>4
<1> QED BY <1>1, <1>2, <1>3

\* Get moves its task from dirty to processing.
LEMMA GetOK ==
  ASSUME NEW T, NEW q \in Queues(T), WellFormed(q), CanGet(q), q.processing = {}
  PROVE  /\ Head(q.items) \in T
         /\ Get(q) \in Queues(T) /\ WellFormed(Get(q))
         /\ Get(q).processing = {Head(q.items)}
         /\ Get(q).dirty = q.dirty \ {Head(q.items)}
         /\ Get(q).shuttingDown = q.shuttingDown
<1> DEFINE t == Head(q.items)
<1>1. t \in T /\ t = q.items[1] /\ Tail(q.items) \in Seq(T) /\ Len(q.items) \in Nat
      /\ Len(q.items) >= 1
  BY DEF Queues, CanGet
<1>2. /\ Get(q).items = Tail(q.items) /\ Get(q).processing = q.processing \cup {t}
      /\ Get(q).dirty = q.dirty \ {t} /\ Get(q).shuttingDown = q.shuttingDown
      /\ Get(q) \in Queues(T)
  BY <1>1 DEF Get, Queues
<1>3. \A i \in DOMAIN Tail(q.items) : Tail(q.items)[i] = q.items[i + 1] /\ i + 1 \in DOMAIN q.items
  BY <1>1 DEF Queues
<1>4. \A i \in DOMAIN q.items : i # 1 => i - 1 \in DOMAIN Tail(q.items)
                                         /\ Tail(q.items)[i - 1] = q.items[i]
  BY <1>1 DEF Queues
<1>5. 1 \in DOMAIN q.items
  BY <1>1 DEF Queues
<1>6. \A i, j \in DOMAIN Tail(q.items) : Tail(q.items)[i] = Tail(q.items)[j] => i = j
  BY <1>1, <1>3 DEF WellFormed, Queues
<1>7. \A i \in DOMAIN Tail(q.items) : Tail(q.items)[i] \in (q.dirty \ {t}) \ {t}
  BY <1>1, <1>3, <1>5 DEF WellFormed, Queues
<1>8. \A u \in (q.dirty \ {t}) \ {t} : \E i \in DOMAIN Tail(q.items) : Tail(q.items)[i] = u
  <2> SUFFICES ASSUME NEW u \in q.dirty \ {t}
               PROVE  \E i \in DOMAIN Tail(q.items) : Tail(q.items)[i] = u
    OBVIOUS
  <2>1. PICK i \in DOMAIN q.items : q.items[i] = u
    BY DEF WellFormed
  <2> QED BY <1>1, <1>4, <2>1
<1>9. WellFormed(Get(q))
  BY <1>2, <1>6, <1>7, <1>8 DEF WellFormed
<1> QED BY <1>1, <1>2, <1>9

\* Done queues its task again if it was marked meanwhile.
LEMMA DoneOK ==
  ASSUME NEW T, NEW q \in Queues(T), NEW t \in T, WellFormed(q), q.processing = {t}
  PROVE  /\ Done(q, t) \in Queues(T) /\ WellFormed(Done(q, t))
         /\ Done(q, t).processing = {}
         /\ Done(q, t).dirty = q.dirty
         /\ Done(q, t).shuttingDown = q.shuttingDown
<1>1. CASE t \in q.dirty
  <2>1. Done(q, t) = [q EXCEPT !.processing = q.processing \ {t}, !.items = Append(q.items, t)]
    BY <1>1 DEF Done
  <2>2. Append(q.items, t) \in Seq(T)
    BY DEF Queues
  <2>3. /\ Done(q, t) \in Queues(T)
        /\ Done(q, t).items = Append(q.items, t) /\ Done(q, t).dirty = q.dirty \cup {t}
        /\ Done(q, t).processing = q.processing \ {t}
        /\ Done(q, t).shuttingDown = q.shuttingDown
    BY <1>1, <2>1, <2>2 DEF Queues
  <2>4. WellFormed(Done(q, t))
    BY <1>1, <2>3, AppendOK
  <2> QED BY <1>1, <2>3, <2>4
<1>2. CASE t \notin q.dirty
  BY <1>2 DEF Done, Queues, WellFormed
<1> QED BY <1>1, <1>2

\* ShutDown forgets no task.
LEMMA ShutDownOK ==
  ASSUME NEW T, NEW q \in Queues(T), WellFormed(q)
  PROVE  /\ ShutDown(q) \in Queues(T) /\ WellFormed(ShutDown(q))
         /\ ShutDown(q).processing = q.processing
         /\ ShutDown(q).dirty = q.dirty
         /\ ShutDown(q).shuttingDown
  BY DEF ShutDown, Queues, WellFormed

\* A queue that must quit has nothing left to do.
LEMMA QuitOK ==
  ASSUME NEW T, NEW q \in Queues(T), WellFormed(q), MustQuit(q), q.processing = {}
  PROVE  q.dirty = {} /\ q.shuttingDown
  BY DEF MustQuit, Queues, WellFormed
=============================================================================
