-------------------------- MODULE ControllerProofs --------------------------
(***************************************************************************)
(* Proofs about Controller, for any objects, any edits, any order in which *)
(* the informers observe them and any reloads that fail.                   *)
(***************************************************************************)
EXTENDS Controller, ChangesProofs, TLAPS

-----------------------------------------------------------------------------
(* The API server, the listers, the queue and the worker *)

ApiObjects == Objects \cup GlobalConfigurationObjects
Unique(set) == \A o, p \in set : Key(o) = Key(p) => o = p

ListersOK ==
  /\ cluster \subseteq ApiObjects /\ Unique(cluster)
  /\ lister \subseteq ApiObjects /\ Unique(lister)

\* While the worker has a task, the queue knows that it is being processed.
WorkerOK ==
  /\ queue \in Queues(Keys) /\ WellFormed(queue) /\ ~queue.shuttingDown
  /\ worker \in {"idle", "sync", "changes"} /\ current \in Keys
  /\ queue.processing = IF worker = "idle" THEN {} ELSE {current}

States == {"none", "Valid", "Warning", "Invalid"}
StatusesOK ==
  /\ status \in [StatusKeys -> States] /\ told \in [StatusKeys -> States]
  /\ skipped \subseteq StatusKeys

\* The API server has the state that was reported last, or the write was skipped.
SkippedOK == \A k \in StatusKeys : status[k] = told[k] \/ k \in skipped

LEMMA KeyOfApiObject ==
  ASSUME NEW o \in ApiObjects
  PROVE  Key(o) \in Keys
<1>1. CASE o \in Objects
  BY <1>1 DEF Keys
<1>2. CASE o \in GlobalConfigurationObjects
  <2>1. Key(o) = GlobalConfigurationKey /\ GlobalConfigurations # {}
    BY <1>2 DEF GlobalConfigurationObjects, Key, GlobalConfigurationKey
  <2> QED
    BY <2>1 DEF Keys
<1> QED
  BY <1>1, <1>2 DEF ApiObjects

\* Replacing or removing what is stored under a key keeps keys unique.
LEMMA ReplaceOK ==
  ASSUME NEW S, S \subseteq ApiObjects, Unique(S), NEW key,
         NEW T, T \subseteq ApiObjects, Unique(T), \A o \in T : Key(o) = key
  PROVE  /\ (S \ At(S, key)) \cup T \subseteq ApiObjects
         /\ Unique((S \ At(S, key)) \cup T)
         /\ S \ At(S, key) \subseteq ApiObjects /\ Unique(S \ At(S, key))
BY DEF At, Unique

LEMMA EditOK == ListersOK /\ Edit => ListersOK'
<1> SUFFICES ASSUME ListersOK, Edit PROVE ListersOK'
  OBVIOUS
<1>1. ASSUME NEW o \in ApiObjects, cluster' = (cluster \ At(cluster, Key(o))) \cup {o}, lister' = lister
      PROVE  ListersOK'
  <2>1. Unique({o}) /\ {o} \subseteq ApiObjects /\ \A p \in {o} : Key(p) = Key(o)
    BY DEF Unique
  <2> QED
    BY <1>1, <2>1, ReplaceOK DEF ListersOK
<1>2. ASSUME NEW o \in Objects, Create(o) PROVE ListersOK'
  <2>1. cluster \ At(cluster, Key(o)) = cluster
    BY <1>2 DEF Create, Exists
  <2> QED
    BY <1>1, <1>2, <2>1 DEF Create, Edited, ApiObjects
<1>3. ASSUME NEW o \in Objects, Update(o) PROVE ListersOK'
  BY <1>1, <1>3 DEF Update, Edited, ApiObjects
<1>4. ASSUME NEW gc \in GlobalConfigurationObjects, EditGlobalConfiguration(gc) PROVE ListersOK'
  BY <1>1, <1>4 DEF EditGlobalConfiguration, Edited, ApiObjects
<1>5. ASSUME NEW key, Delete(key) PROVE ListersOK'
  BY <1>5 DEF Delete, Edited, ListersOK, At, Unique
<1> QED
  BY <1>2, <1>3, <1>4, <1>5 DEF Edit

LEMMA ObserveOK ==
  ASSUME ListersOK, NEW key \in Keys, Observe(key)
  PROVE  ListersOK'
<1>1. At(cluster, key) \subseteq ApiObjects /\ Unique(At(cluster, key))
      /\ \A o \in At(cluster, key) : Key(o) = key
  BY DEF ListersOK, At, Unique
<1>2. cluster' = cluster /\ lister' = (lister \ At(lister, key)) \cup At(cluster, key)
  BY DEF Observe, api
<1> QED
  BY <1>1, <1>2, ReplaceOK DEF ListersOK

LEMMA ListersInvariant == AllSpec => []ListersOK
<1>1. AllInit => ListersOK
  BY DEF AllInit, ListersOK, Unique
<1>2. ListersOK /\ [AllNext]_allVars => ListersOK'
  <2> SUFFICES ASSUME ListersOK, [AllNext]_allVars PROVE ListersOK'
    OBVIOUS
  <2>1. CASE UNCHANGED <<cluster, lister>>
    BY <2>1 DEF ListersOK
  <2>2. CASE Work
    BY <2>1, <2>2 DEF Work, GetTask, SyncIngress, SyncVirtualServer, SyncVirtualServerRoute,
      SyncTransportServer, SyncGlobalConfiguration, Synced, ProcessChange,
      UpdateTransportServers, ReloadTransportServers, FinishSync, api
  <2>3. CASE UNCHANGED allVars
    BY <2>1, <2>3 DEF allVars, api
  <2> QED
    BY <2>2, <2>3, EditOK, ObserveOK DEF AllNext
<1> QED
  BY <1>1, <1>2, PTL DEF AllSpec

LEMMA WorkerInvariant == AllSpec => []WorkerOK
<1>1. AllInit => WorkerOK
  BY DEF AllInit, WorkerOK, NewQueue, Queues, WellFormed
<1>2. WorkerOK /\ [AllNext]_allVars => WorkerOK'
  <2> SUFFICES ASSUME WorkerOK, [AllNext]_allVars PROVE WorkerOK'
    OBVIOUS
  <2>1. CASE UNCHANGED <<queue, worker, current>>
    BY <2>1 DEF WorkerOK
  <2>2. CASE Edit
    BY <2>1, <2>2 DEF Edit, Create, Update, EditGlobalConfiguration, Delete, Edited
  <2>3. ASSUME NEW key \in Keys, Observe(key) PROVE WorkerOK'
    <3>1. CASE queue' = queue
      BY <2>1, <2>3, <3>1 DEF Observe
    <3>2. CASE queue' = Add(queue, key)
      BY <2>3, <3>2, AddOK DEF Observe, WorkerOK
    <3> QED
      BY <2>3, <3>1, <3>2 DEF Observe
  <2>4. CASE GetTask
    <3>1. queue.processing = {} /\ CanGet(queue)
      BY <2>4 DEF GetTask, WorkerOK
    <3> QED
      BY <2>4, <3>1, GetOK DEF GetTask, WorkerOK
  <2>5. CASE Synced
    BY <2>5 DEF Synced, WorkerOK
  <2>6. CASE FinishSync
    <3>1. queue.processing = {current}
      BY <2>6 DEF FinishSync, WorkerOK
    <3> QED
      BY <2>6, <3>1, DoneOK DEF FinishSync, WorkerOK
  <2>7. CASE ProcessChange \/ UpdateTransportServers \/ ReloadTransportServers
    BY <2>1, <2>7 DEF ProcessChange, UpdateTransportServers, ReloadTransportServers
  <2>8. CASE UNCHANGED allVars
    BY <2>1, <2>8 DEF allVars
  <2> QED
    BY <2>2, <2>3, <2>4, <2>5, <2>6, <2>7, <2>8 DEF AllNext, Work, SyncIngress, SyncVirtualServer,
      SyncVirtualServerRoute, SyncTransportServer, SyncGlobalConfiguration
<1> QED
  BY <1>1, <1>2, PTL DEF AllSpec

-----------------------------------------------------------------------------
(* The Configuration inside the controller *)

KindSet(kind) ==
  CASE kind = "Ingress" -> Ingresses
    [] kind = "VirtualServer" -> VirtualServers
    [] kind = "VirtualServerRoute" -> VirtualServerRoutes
    [] kind = "TransportServer" -> TransportServers

\* The kind in the key of a task tells whose objects the lister has under it.
LEMMA TaskOfKind ==
  ASSUME ListersOK, WorkerOK, current[1] # "GlobalConfiguration"
  PROVE  /\ \A o \in At(lister, current) : o \in KindSet(current[1])
         /\ \E o \in KindSet(current[1]) : Key(o) = current
<1>1. ASSUME NEW o \in Objects, Key(o) = current PROVE o \in KindSet(current[1])
  <2>1. current[1] = o.kind
    BY <1>1 DEF Key
  <2> QED
    BY <2>1, ObjectsAssumption DEF Objects, KindSet
<1>2. ASSUME NEW o \in GlobalConfigurationObjects PROVE Key(o) # current
  BY DEF GlobalConfigurationObjects, Key
<1>3. current # GlobalConfigurationKey
  BY DEF GlobalConfigurationKey
<1>4. PICK o \in Objects : Key(o) = current
  BY <1>3 DEF WorkerOK, Keys
<1> QED
  BY <1>1, <1>2, <1>4 DEF ListersOK, ApiObjects, At

LEMMA SyncIsNext ==
  ASSUME ListersOK, WorkerOK,
         SyncIngress \/ SyncVirtualServer \/ SyncVirtualServerRoute
           \/ SyncTransportServer \/ SyncGlobalConfiguration
  PROVE  Next
<1>1. CASE SyncIngress
  BY <1>1, TaskOfKind DEF SyncIngress, KindSet, Next
<1>2. CASE SyncVirtualServer
  BY <1>2, TaskOfKind DEF SyncVirtualServer, KindSet, Next
<1>3. CASE SyncVirtualServerRoute
  BY <1>3, TaskOfKind DEF SyncVirtualServerRoute, KindSet, Next
<1>4. CASE SyncTransportServer
  BY <1>4, TaskOfKind DEF SyncTransportServer, KindSet, Next
<1>5. CASE SyncGlobalConfiguration
  <2>1. ASSUME NEW gc \in At(lister, current) PROVE gc.listeners \in GlobalConfigurations
    <3>1. gc \in ApiObjects /\ gc.kind = "GlobalConfiguration"
      BY <1>5 DEF ListersOK, At, Key, SyncGlobalConfiguration
    <3> QED
      BY <3>1, ObjectsAssumption DEF ApiObjects, Objects, GlobalConfigurationObjects
  <2> QED
    BY <1>5, <2>1 DEF SyncGlobalConfiguration, Next
<1> QED
  BY <1>1, <1>2, <1>3, <1>4, <1>5

LEMMA StepOfConfiguration ==
  ASSUME ListersOK, WorkerOK, [AllNext]_allVars
  PROVE  [Next]_vars
<1>1. CASE SyncIngress \/ SyncVirtualServer \/ SyncVirtualServerRoute
           \/ SyncTransportServer \/ SyncGlobalConfiguration
  BY <1>1, SyncIsNext
<1>2. CASE Edit \/ \E key \in Keys : Observe(key)
  BY <1>2 DEF Edit, Create, Update, EditGlobalConfiguration, Delete, Edited, Observe
<1>3. CASE GetTask \/ ProcessChange \/ UpdateTransportServers \/ ReloadTransportServers \/ FinishSync
  BY <1>3 DEF GetTask, ProcessChange, UpdateTransportServers, ReloadTransportServers, FinishSync
<1>4. CASE UNCHANGED allVars
  BY <1>4 DEF allVars
<1> QED
  BY <1>1, <1>2, <1>3, <1>4 DEF AllNext, Work

\* The sync loop only ever does to its Configuration what the Configuration
\* allows: whatever is proved of Configuration holds inside the controller.
THEOREM ControllerRefinesConfiguration == AllSpec => Spec
<1>1. AllInit => Init
  BY DEF AllInit
<1>2. ListersOK /\ WorkerOK /\ [AllNext]_allVars => [Next]_vars
  BY StepOfConfiguration
<1> QED
  BY <1>1, <1>2, ListersInvariant, WorkerInvariant, PTL DEF AllSpec, Spec

LEMMA WriteStatusOK ==
  ASSUME StatusesOK, NEW states, \A k \in DOMAIN states : states[k] \in States,
         WriteStatus(states)
  PROVE  StatusesOK'
BY DEF WriteStatus, StatusesOK, StatusKeys, States

LEMMA StatesTyped ==
  /\ \A warnings : \A ok \in BOOLEAN : StateAfter(warnings, ok) \in States
  /\ \A k \in DOMAIN ProblemStates : ProblemStates[k] \in States
  /\ \A c : \A ok \in BOOLEAN : \A k \in DOMAIN StatesOnDelete(c, ok) : StatesOnDelete(c, ok)[k] \in States
  /\ \A r : \A ok \in BOOLEAN : \A k \in DOMAIN StatesOnUpdate(r, ok) : StatesOnUpdate(r, ok)[k] \in States
<1>1. \A warnings : \A ok \in BOOLEAN : StateAfter(warnings, ok) \in States
  BY DEF StateAfter, States
<1>2. \A k \in DOMAIN ProblemStates : ProblemStates[k] \in States
  BY DEF ProblemStates, States
<1>3. ASSUME NEW c, NEW ok \in BOOLEAN, NEW k \in DOMAIN StatesOnDelete(c, ok)
      PROVE  StatesOnDelete(c, ok)[k] \in States
  BY DEF StatesOnDelete, NoStates, States
<1>4. ASSUME NEW r, NEW ok \in BOOLEAN, NEW k \in DOMAIN StatesOnUpdate(r, ok)
      PROVE  StatesOnUpdate(r, ok)[k] \in States
  BY <1>1 DEF StatesOnUpdate
<1> QED
  BY <1>1, <1>2, <1>3, <1>4

LEMMA StatusesInvariant == AllSpec => []StatusesOK
<1>1. AllInit => StatusesOK
  BY DEF AllInit, StatusesOK, States
<1>2. StatusesOK /\ [AllNext]_allVars => StatusesOK'
  <2> SUFFICES ASSUME StatusesOK, [AllNext]_allVars PROVE StatusesOK'
    OBVIOUS
  <2>1. CASE UNCHANGED <<status, told, skipped>>
    BY <2>1 DEF StatusesOK
  <2>2. ASSUME NEW key, Delete(key) PROVE StatusesOK'
    BY <2>2 DEF Delete, StatusesOK, States
  <2>3. CASE Edit
    BY <2>1, <2>2, <2>3 DEF Edit, Create, Update, EditGlobalConfiguration
  <2>4. CASE ProcessChange
    BY <2>4, WriteStatusOK, StatesTyped DEF ProcessChange
  <2>5. CASE ReloadTransportServers
    BY <2>5, WriteStatusOK, StatesTyped DEF ReloadTransportServers
  <2>6. CASE FinishSync
    BY <2>6, WriteStatusOK, StatesTyped DEF FinishSync
  <2>7. CASE GetTask \/ Synced \/ UpdateTransportServers \/ \E key \in Keys : Observe(key)
    BY <2>1, <2>7 DEF GetTask, Synced, UpdateTransportServers, Observe
  <2>8. CASE UNCHANGED allVars
    BY <2>1, <2>8 DEF allVars
  <2> QED
    BY <2>3, <2>4, <2>5, <2>6, <2>7, <2>8 DEF AllNext, Work, SyncIngress, SyncVirtualServer,
      SyncVirtualServerRoute, SyncTransportServer, SyncGlobalConfiguration
<1> QED
  BY <1>1, <1>2, PTL DEF AllSpec

LEMMA WriteStatusSkips ==
  ASSUME StatusesOK, SkippedOK, NEW states, WriteStatus(states)
  PROVE  SkippedOK'
<1> DEFINE reported == {k \in StatusKeys \cap DOMAIN states : Exists(lister, k) /\ Exists(cluster, k)}
<1>1. PICK written \in SUBSET reported :
        /\ status' = [k \in StatusKeys |-> IF k \in written THEN states[k] ELSE status[k]]
        /\ told' = [k \in StatusKeys |-> IF k \in reported THEN states[k] ELSE told[k]]
        /\ skipped' = (skipped \ reported) \cup {k \in reported \ written : status[k] # states[k]}
  BY DEF WriteStatus
<1> HIDE DEF reported
<1> QED
  BY <1>1 DEF SkippedOK

LEMMA SkippedInvariant == AllSpec => []SkippedOK
<1>1. AllInit => SkippedOK
  BY DEF AllInit, SkippedOK
<1>2. StatusesOK /\ SkippedOK /\ [AllNext]_allVars => SkippedOK'
  <2> SUFFICES ASSUME StatusesOK, SkippedOK, [AllNext]_allVars PROVE SkippedOK'
    OBVIOUS
  <2>1. CASE UNCHANGED <<status, told, skipped>>
    BY <2>1 DEF SkippedOK
  <2>2. ASSUME NEW key, Delete(key) PROVE SkippedOK'
    BY <2>2 DEF Delete, SkippedOK
  <2>3. CASE Edit
    BY <2>1, <2>2, <2>3 DEF Edit, Create, Update, EditGlobalConfiguration
  <2>4. CASE ProcessChange
    BY <2>4, WriteStatusSkips DEF ProcessChange
  <2>5. CASE ReloadTransportServers
    BY <2>5, WriteStatusSkips DEF ReloadTransportServers
  <2>6. CASE FinishSync
    BY <2>6, WriteStatusSkips DEF FinishSync
  <2>7. CASE GetTask \/ Synced \/ UpdateTransportServers \/ \E key \in Keys : Observe(key)
    BY <2>1, <2>7 DEF GetTask, Synced, UpdateTransportServers, Observe
  <2>8. CASE UNCHANGED allVars
    BY <2>1, <2>8 DEF allVars
  <2> QED
    BY <2>3, <2>4, <2>5, <2>6, <2>7, <2>8 DEF AllNext, Work, SyncIngress, SyncVirtualServer,
      SyncVirtualServerRoute, SyncTransportServer, SyncGlobalConfiguration
<1> QED
  BY <1>1, <1>2, StatusesInvariant, PTL DEF AllSpec

\* AllTypeOK holds for any objects: keys stay unique in the API server and in
\* the listers, the queue stays well formed, and the Configuration inside the
\* controller keeps its types.
THEOREM AllTypeCorrect == AllSpec => []AllTypeOK
<1>1. TypeOK /\ ListersOK /\ WorkerOK /\ StatusesOK => AllTypeOK
  BY DEF ListersOK, WorkerOK, StatusesOK, States, AllTypeOK, ApiObjects, Unique
<1> QED
  BY <1>1, ControllerRefinesConfiguration, TypeCorrect, ListersInvariant, WorkerInvariant,
     StatusesInvariant, PTL

-----------------------------------------------------------------------------
(* The config files *)

\* A list of changes of well-formed resources.
ChangesTyped(cs) ==
  \E R : cs \in Seq(ChangeSet(R)) /\ \A r \in R : Shaped(r)

\* The order in which the worker applies the changes of its task.
Order == IF current = GlobalConfigurationKey THEN UpdatesFirst(changes) ELSE changes

\* Writing the updates before the removals makes no difference in the end,
\* because there is one change for each TransportServer.
LEMMA UpdatesFirstOK ==
  ASSUME NEW R, NEW cs \in Seq(ChangeSet(R)), NEW F,
         \A i, j \in DOMAIN cs : KeyOf(cs[i]) = KeyOf(cs[j]) => i = j
  PROVE  /\ UpdatesFirst(cs) \in Seq(ChangeSet(R))
         /\ Len(UpdatesFirst(cs)) = Len(cs)
         /\ ToSet(UpdatesFirst(cs)) = ToSet(cs)
         /\ Applied(F, UpdatesFirst(cs)) = Applied(F, cs)
<1> DEFINE A == {i \in DOMAIN cs : cs[i].op = "AddOrUpdate"}
           B == {i \in DOMAIN cs : cs[i].op = "Delete"}
           s == Subsequence(cs, A)
           t == Subsequence(cs, B)
<1>1. Len(cs) \in Nat /\ DOMAIN cs = 1..Len(cs) /\ \A i \in DOMAIN cs : cs[i] \in ChangeSet(R)
  BY LenProperties, ElementOfSeq
<1>2. \A i \in DOMAIN cs : cs[i].op \in {"Delete", "AddOrUpdate"}
  BY <1>1 DEF ChangeSet
<1>3. A \cup B = DOMAIN cs /\ A \cap B = {} /\ A \subseteq DOMAIN cs /\ B \subseteq DOMAIN cs
  BY <1>2
<1>4. UpdatesFirst(cs) = s \o t
  BY DEF UpdatesFirst
<1> HIDE DEF A, B
<1>5. /\ s \in Seq(ChangeSet(R)) /\ Len(s) = Cardinality(A) /\ ToSet(s) = {cs[i] : i \in A}
      /\ t \in Seq(ChangeSet(R)) /\ Len(t) = Cardinality(B) /\ ToSet(t) = {cs[i] : i \in B}
  BY <1>3, SubsequenceOfSeq
<1> HIDE DEF s, t
<1>6. UpdatesFirst(cs) \in Seq(ChangeSet(R)) /\ ToSet(UpdatesFirst(cs)) = ToSet(s) \cup ToSet(t)
  BY <1>4, <1>5, ConcatElements
<1>7. ToSet(UpdatesFirst(cs)) = ToSet(cs)
  <2>1. ToSet(cs) = {cs[i] : i \in DOMAIN cs}
    BY DEF ToSet
  <2>2. \A x : x \in ToSet(cs) <=> (\E i \in A : x = cs[i]) \/ (\E i \in B : x = cs[i])
    BY <1>3, <2>1
  <2>3. \A x : x \in ToSet(UpdatesFirst(cs)) <=> (\E i \in A : x = cs[i]) \/ (\E i \in B : x = cs[i])
    BY <1>5, <1>6
  <2> QED
    BY <2>2, <2>3
<1>8. Len(UpdatesFirst(cs)) = Len(cs)
  <2>1. IsFiniteSet(DOMAIN cs) /\ Cardinality(DOMAIN cs) = Len(cs)
    <3>1. /\ 1 \in Int /\ Len(cs) \in Int
          /\ (IF 1 > Len(cs) THEN 0 ELSE Len(cs) - 1 + 1) = Len(cs)
      BY <1>1
    <3> QED
      BY <1>1, <3>1, FS_Interval
  <2>2. IsFiniteSet(A) /\ IsFiniteSet(B)
    BY <1>3, <2>1, FS_Subset
  <2>3. Cardinality(A \cup B) = Cardinality(A) + Cardinality(B) - Cardinality(A \cap B)
    BY <2>2, FS_Union
  <2>4. Cardinality(A \cap B) = 0
    BY <1>3, FS_EmptySet
  <2>5. Cardinality(A) \in Nat /\ Cardinality(B) \in Nat
    BY <2>2, FS_CardinalityType
  <2>6. Len(UpdatesFirst(cs)) = Len(s) + Len(t)
    <3>1. s \in Seq(ChangeSet(R)) /\ t \in Seq(ChangeSet(R))
      BY <1>5
    <3>2. Len(s \o t) = Len(s) + Len(t)
      BY <3>1, ConcatProperties
    <3> QED
      BY <1>4, <3>2
  <2> QED
    BY <1>3, <1>5, <2>1, <2>3, <2>4, <2>5, <2>6
<1>9. Finals(UpdatesFirst(cs)) = Finals(cs)
  <2> DEFINE u == UpdatesFirst(cs)
  <2>1. \A i \in DOMAIN u : \E j \in DOMAIN cs : u[i] = cs[j]
    BY <1>7 DEF ToSet
  <2>2. \A i, j \in DOMAIN u : KeyOf(u[i]) = KeyOf(u[j]) => u[i] = u[j]
    BY <2>1
  <2>3. Finals(u) = ToSet(u)
    BY <1>6, <2>2, FinalsOfUniform
  <2>4. Finals(cs) = ToSet(cs)
    BY FinalsOfUniform
  <2> QED
    BY <1>7, <2>3, <2>4
<1>10. Applied(F, UpdatesFirst(cs)) = Applied(F, cs)
  BY <1>9 DEF Applied
<1> QED
  BY <1>6, <1>7, <1>8, <1>10

\* Applying the next change, then the rest.
LEMMA ApplyNext ==
  ASSUME NEW R, NEW cs \in Seq(ChangeSet(R)), NEW n \in 1..Len(cs), NEW F
  PROVE  /\ cs[n] \in ChangeSet(R)
         /\ Applied(F, SubSeq(cs, n, Len(cs))) =
              Applied(Apply(F, cs[n]), SubSeq(cs, n + 1, Len(cs)))
<1>1. Len(cs) \in Nat /\ DOMAIN cs = 1..Len(cs) /\ cs[n] \in ChangeSet(R)
  BY LenProperties, ElementOfSeq
<1>2. SubSeq(cs, n, Len(cs)) = <<cs[n]>> \o SubSeq(cs, n + 1, Len(cs))
  BY <1>1, SubSeqRecursiveFirst
<1>3. SubSeq(cs, n + 1, Len(cs)) \in Seq(ChangeSet(R))
  BY <1>1, SubSeqProperties
<1>4. <<cs[n]>> \in Seq(ChangeSet(R))
  BY <1>1
<1>5. Applied(F, <<cs[n]>> \o SubSeq(cs, n + 1, Len(cs))) =
        Applied(Applied(F, <<cs[n]>>), SubSeq(cs, n + 1, Len(cs)))
  BY <1>3, <1>4, AppliedConcat
<1>6. Applied(F, <<cs[n]>>) = Apply(F, cs[n])
  BY <1>1, AppliedOne
<1> QED
  BY <1>1, <1>2, <1>5, <1>6

LEMMA NoneLeft ==
  ASSUME NEW R, NEW cs \in Seq(ChangeSet(R)), NEW n \in Nat, n > Len(cs), NEW F
  PROVE  Applied(F, SubSeq(cs, n, Len(cs))) = F
<1>1. Len(cs) \in Nat
  BY LenProperties
<1>2. SubSeq(cs, n, Len(cs)) = <<>>
  BY <1>1
<1> QED
  BY <1>2, AppliedNothing

\* An update is for a resource that owns a host or a listener from now on.
LEMMA UpdatesAbout ==
  ASSUME Maps, Maps', Next, NEW i \in DOMAIN changes', changes'[i].op = "AddOrUpdate"
  PROVE  changes'[i].resource \in Owners(hosts') \cup Owners(listeners')
<1> DEFINE R == ResourcesAbout
<1>1. /\ Owners(hosts) \subseteq R /\ NewResources' \subseteq R
      /\ Owners(listeners) \subseteq R /\ Owners(listeners') \subseteq R
  BY DEF ResourcesAbout
<1> HIDE DEF R
<1>2. /\ HostChanges \in Seq(ChangeSet(R)) /\ Transforms(HostChanges, hosts, hosts')
      /\ ListenerChanges \in Seq(ChangeSet(R))
      /\ Transforms(ListenerChanges, listeners, listeners')
  BY <1>1, HostChangesOK, ListenerChangesOK DEF Maps
<1> DEFINE Good(cs) == \A c \in ToSet(cs) : c.op = "AddOrUpdate" =>
                         c.resource \in Owners(hosts') \cup Owners(listeners')
<1>3. Good(HostChanges)
  BY <1>2 DEF Transforms, Gained, Owners, ToSet
<1>4. Good(ListenerChanges)
  BY <1>2 DEF Transforms, Gained, Owners, ToSet
<1>5. Good(ListenerChanges \o HostChanges)
      /\ ListenerChanges \o HostChanges \in Seq(ChangeSet(R))
  BY <1>2, <1>3, <1>4, ConcatElements
<1>6. ListenerChanges \o <<>> = ListenerChanges
  BY <1>2, ConcatEmptySeq
<1>7. ASSUME NEW cs \in Seq(ChangeSet(R)), Good(cs), NEW ps, Answers(cs, ps) PROVE Good(changes')
  <2>1. SameChanges(changes', cs)
    BY <1>7, AnswersOK
  <2> QED
    BY <1>7, <2>1 DEF SameChanges, ToSet
<1> HIDE DEF Good
<1>8. Good(changes')
  <2>1. CASE NoRebuild
    BY <2>1 DEF NoRebuild, Respond, Good, ToSet
  <2>2. CASE HostRebuild
    BY <1>2, <1>3, <1>7, <2>2 DEF HostRebuild
  <2>3. CASE ListenerRebuild
    BY <1>2, <1>4, <1>6, <1>7, <2>3 DEF ListenerRebuild
  <2>4. CASE FullRebuild
    BY <1>5, <1>7, <2>4 DEF FullRebuild
  <2> QED
    BY <2>1, <2>2, <2>3, <2>4, StepKinds
<1> QED
  BY <1>8 DEF Good, ToSet

\* Only the TransportServers that own hosts have any.
LEMMA OwnersHosts ==
  ASSUME Maps
  PROVE  /\ \A r \in Owners(hosts) : r.obj.hosts # {}
         /\ \A r \in Owners(listeners) : r.obj.hosts = {}
<1>1. \A r \in Owners(hosts) : r.obj.hosts # {}
  BY DEF Maps, HostMap, Owners
<1>2. ASSUME NEW r \in Owners(listeners) PROVE r.obj.hosts = {}
  <2>0. PICK l \in DOMAIN listeners : r = listeners[l]
    BY DEF Owners
  <2>1. r.obj \in TransportServers /\ r.obj.listener.protocol # TLSPassthrough /\ Accepted(r.obj)
    <3>1. Shaped(r) /\ r.obj \in TransportServers /\ r.obj.listener.protocol # TLSPassthrough
      BY <2>0 DEF Maps, ListenerMap
    <3> QED
      BY <3>1 DEF Shaped, AcceptedObjects
  <2> QED
    BY <2>1, ValidationAssumption DEF Accepted
<1> QED
  BY <1>1, <1>2

LEMMA OwnersHostsNext ==
  ASSUME Maps'
  PROVE  /\ \A r \in Owners(hosts') : r.obj.hosts # {}
         /\ \A r \in Owners(listeners') : r.obj.hosts = {}
<1>1. Maps' => (\A r \in Owners(hosts) : r.obj.hosts # {})' /\ (\A r \in Owners(listeners) : r.obj.hosts = {})'
  BY OwnersHosts, PTL
<1> QED
  BY <1>1

-----------------------------------------------------------------------------
(* The TLS passthrough map *)

PassOf(F) ==
  UNION {{[key |-> f.key, host |-> h] : h \in f.spec.hosts} :
           f \in {g \in F : g.key[1] = "TransportServer"}}

\* An update of a TransportServer without a host leaves its pair alone.
Hostless(c) ==
  c.op = "AddOrUpdate" /\ c.resource.obj.kind = "TransportServer" /\ c.resource.obj.hosts = {}

\* No such update is for a TransportServer that has a pair, or will have one
\* when the changes cs have been applied.
NoPairLeft(F, cs) ==
  \A i \in DOMAIN cs : Hostless(cs[i]) =>
    /\ \A f \in F : f.key = KeyOf(cs[i]) => f.spec.hosts = {}
    /\ \A j \in DOMAIN cs :
         cs[j].op = "AddOrUpdate" /\ KeyOf(cs[j]) = KeyOf(cs[i]) => cs[j].resource.obj.hosts = {}

LEMMA PassOfElement ==
  ASSUME NEW F, NEW x
  PROVE  x \in PassOf(F) <=>
           \E f \in F : /\ f.key[1] = "TransportServer"
                        /\ \E h \in f.spec.hosts : x = [key |-> f.key, host |-> h]
<1>1. PassOf(F) = UNION {{[key |-> f.key, host |-> h] : h \in f.spec.hosts} :
                           f \in {g \in F : g.key[1] = "TransportServer"}}
  BY DEF PassOf
<1> QED
  BY <1>1

LEMMA ApplyElement ==
  ASSUME NEW F, NEW c, NEW x
  PROVE  x \in Apply(F, c) <=>
           \/ x \in F /\ x.key # KeyOf(c)
           \/ c.op = "AddOrUpdate" /\ x = Content(c.resource)
BY DEF Apply, KeyOf

LEMMA PassthroughStep ==
  ASSUME NEW R, NEW cs \in Seq(ChangeSet(R)), NEW F, NoPairLeft(F, cs), NEW n \in DOMAIN cs
  PROVE  /\ PassthroughAfter(PassOf(F), cs[n]) = PassOf(Apply(F, cs[n]))
         /\ NoPairLeft(Apply(F, cs[n]), cs)
<1> DEFINE c == cs[n]
           o == c.resource.obj
           G == Apply(F, c)
           others == {p \in PassOf(F) : p.key # Key(o)}
           own == {[key |-> Key(o), host |-> h] : h \in o.hosts}
<1>1. c.op \in {"Delete", "AddOrUpdate"}
  <2>1. c \in ChangeSet(R)
    BY LenProperties, ElementOfSeq
  <2> QED
    BY <2>1 DEF ChangeSet
<1>2. KeyOf(c) = Key(o) /\ Key(o)[1] = o.kind
  BY DEF KeyOf, ResourceKey, Key
<1>3. Content(c.resource).key = Key(o) /\ Content(c.resource).spec.hosts = o.hosts
  BY ContentFields
<1>4. \A x : x \in G <=> (x \in F /\ x.key # Key(o)) \/ (c.op = "AddOrUpdate" /\ x = Content(c.resource))
  BY <1>2, ApplyElement
<1>5. NoPairLeft(G, cs)
  <2> SUFFICES ASSUME NEW i \in DOMAIN cs, Hostless(cs[i]), NEW f \in G, f.key = KeyOf(cs[i])
               PROVE  f.spec.hosts = {}
    BY DEF NoPairLeft
  <2>1. CASE f \in F
    BY <2>1 DEF NoPairLeft
  <2>2. CASE c.op = "AddOrUpdate" /\ f = Content(c.resource)
    <3>1. KeyOf(c) = KeyOf(cs[i])
      BY <1>2, <1>3, <2>2
    <3>2. o.hosts = {}
      BY <2>2, <3>1 DEF NoPairLeft
    <3> QED
      BY <1>3, <2>2, <3>2
  <2> QED
    BY <1>4, <2>1, <2>2
<1>6. PassthroughAfter(PassOf(F), c) =
        CASE o.kind # "TransportServer" -> PassOf(F)
          [] o.kind = "TransportServer" /\ c.op = "Delete" -> others
          [] OTHER -> IF o.hosts = {} THEN PassOf(F) ELSE others \cup own
  BY DEF PassthroughAfter
<1>7. \A x : x \in others <=> \E f \in F : /\ f.key[1] = "TransportServer" /\ f.key # Key(o)
                                           /\ \E h \in f.spec.hosts : x = [key |-> f.key, host |-> h]
  <2>1. \A f, h, x : x = [key |-> f.key, host |-> h] => x.key = f.key
    OBVIOUS
  <2> QED
    BY <2>1, PassOfElement
<1>8. \A x : x \in own <=> \E h \in o.hosts : x = [key |-> Key(o), host |-> h]
  OBVIOUS
<1> HIDE DEF others, own, G, o, c
<1>9. CASE o.kind # "TransportServer"
  <2>1. \A f : f.key[1] = "TransportServer" => (f \in G <=> f \in F)
    BY <1>2, <1>3, <1>4, <1>9
  <2>2. \A x : x \in PassOf(G) <=> x \in PassOf(F)
    BY <2>1, PassOfElement
  <2> QED
    BY <1>5, <1>6, <1>9, <2>2 DEF c, G
<1>10. CASE o.kind = "TransportServer" /\ c.op = "Delete"
  <2>1. \A x : x \in PassOf(G) <=> x \in others
    BY <1>4, <1>7, <1>10, PassOfElement
  <2> QED
    BY <1>5, <1>6, <1>10, <2>1 DEF c, G
<1>11. CASE o.kind = "TransportServer" /\ c.op = "AddOrUpdate"
  <2>1. \A x : x \in PassOf(G) <=> x \in others \/ x \in own
    BY <1>2, <1>3, <1>4, <1>7, <1>8, <1>11, PassOfElement
  <2>2. CASE o.hosts # {}
    BY <1>5, <1>6, <1>11, <2>1, <2>2 DEF c, G
  <2>3. CASE o.hosts = {}
    <3>1. Hostless(c)
      BY <1>11, <2>3 DEF Hostless, o
    <3>2. \A f \in F : f.key = Key(o) => f.spec.hosts = {}
      BY <1>2, <3>1 DEF NoPairLeft, c
    <3>3. \A x : x \in PassOf(F) <=> x \in others
      BY <1>7, <3>2, PassOfElement
    <3> QED
      BY <1>5, <1>6, <1>8, <1>11, <2>1, <2>3, <3>3 DEF c, G
  <2> QED
    BY <2>2, <2>3
<1> QED
  BY <1>1, <1>9, <1>10, <1>11

\* The pairs of the current owners are those of their files.
LEMMA PassOfOwners ==
  ASSUME Maps
  PROVE  PassOf(Files(hosts, listeners)) =
           {[key |-> ResourceKey(hosts[h]), host |-> h] :
              h \in {g \in DOMAIN hosts : hosts[g].obj.kind = "TransportServer"}}
<1> DEFINE D == {g \in DOMAIN hosts : hosts[g].obj.kind = "TransportServer"}
<1>1. \A f : f \in Files(hosts, listeners) <=>
        \/ \E h \in DOMAIN hosts : f = Content(hosts[h])
        \/ \E l \in DOMAIN listeners : f = Content(listeners[l])
  BY FilesSplit, FilesOfElement
<1>2. \A l \in DOMAIN listeners : Content(listeners[l]).spec.hosts = {}
  BY OwnersHosts, ContentFields DEF Owners
<1>3. \A h \in D : Content(hosts[h]).spec.hosts = {h}
  BY ContentFields DEF Maps, HostMap
<1>4. \A h \in DOMAIN hosts : Content(hosts[h]).key[1] = "TransportServer" <=> h \in D
  BY ContentFields
<1>5. \A h : Content(hosts[h]).key = ResourceKey(hosts[h])
  BY ContentKey
<1> HIDE DEF D
<1>6. D \subseteq DOMAIN hosts
  BY DEF D
<1>7. ASSUME NEW h \in D
      PROVE  [key |-> ResourceKey(hosts[h]), host |-> h] \in PassOf(Files(hosts, listeners))
  <2>1. Content(hosts[h]) \in Files(hosts, listeners)
    BY <1>1, <1>6
  <2>2. Content(hosts[h]).key[1] = "TransportServer" /\ h \in Content(hosts[h]).spec.hosts
    BY <1>3, <1>4, <1>6
  <2>3. [key |-> Content(hosts[h]).key, host |-> h] \in PassOf(Files(hosts, listeners))
    BY <2>1, <2>2, PassOfElement
  <2> QED
    BY <1>5, <2>3
<1>9. ASSUME NEW x \in PassOf(Files(hosts, listeners))
      PROVE  \E h \in D : x = [key |-> ResourceKey(hosts[h]), host |-> h]
  <2>1. PICK f \in Files(hosts, listeners) :
          f.key[1] = "TransportServer" /\ \E g \in f.spec.hosts : x = [key |-> f.key, host |-> g]
    BY PassOfElement
  <2>2. PICK g \in f.spec.hosts : x = [key |-> f.key, host |-> g]
    BY <2>1
  <2>3. ~\E l \in DOMAIN listeners : f = Content(listeners[l])
    BY <1>2, <2>2
  <2>4. PICK h \in DOMAIN hosts : f = Content(hosts[h])
    BY <1>1, <2>3
  <2>5. h \in D
    BY <1>4, <2>1, <2>4
  <2>6. g = h
    BY <1>3, <2>2, <2>4, <2>5
  <2> QED
    BY <1>5, <2>2, <2>4, <2>5, <2>6
<1>8. PassOf(Files(hosts, listeners)) = {[key |-> ResourceKey(hosts[h]), host |-> h] : h \in D}
  BY <1>7, <1>9
<1> QED
  BY <1>8 DEF D

LEMMA SyncNoPairLeft ==
  ASSUME Maps, Maps', Next, HostOwnersStay
  PROVE  NoPairLeft(Files(hosts, listeners), changes')
<1> SUFFICES ASSUME NEW i \in DOMAIN changes', Hostless(changes'[i])
             PROVE  /\ \A f \in Files(hosts, listeners) :
                         f.key = KeyOf(changes'[i]) => f.spec.hosts = {}
                    /\ \A j \in DOMAIN changes' :
                         changes'[j].op = "AddOrUpdate" /\ KeyOf(changes'[j]) = KeyOf(changes'[i])
                           => changes'[j].resource.obj.hosts = {}
  BY DEF NoPairLeft
<1>1. changes'[i].resource \in Owners(listeners')
  BY UpdatesAbout, OwnersHostsNext DEF Hostless
<1>2. PICK l \in DOMAIN listeners' : changes'[i].resource = listeners'[l]
  BY <1>1 DEF Owners
<1>3. KeyOf(changes'[i]) = ResourceKey(listeners'[l])
  BY <1>2 DEF KeyOf
<1>4. ASSUME NEW f \in Files(hosts, listeners), f.key = KeyOf(changes'[i]) PROVE f.spec.hosts = {}
  <2>1. ASSUME NEW h \in DOMAIN hosts PROVE f # Content(hosts[h])
    BY <1>3, <1>4, ContentKey DEF HostOwnersStay
  <2>2. PICK m \in DOMAIN listeners : f = Content(listeners[m])
    BY <2>1, FilesSplit, FilesOfElement
  <2> QED
    BY <2>2, OwnersHosts, ContentFields DEF Owners
<1>5. ASSUME NEW j \in DOMAIN changes', changes'[j].op = "AddOrUpdate",
             KeyOf(changes'[j]) = KeyOf(changes'[i])
      PROVE  changes'[j].resource.obj.hosts = {}
  <2>1. ASSUME NEW h \in DOMAIN hosts' PROVE changes'[j].resource # hosts'[h]
    BY <1>3, <1>5 DEF Maps, KeyOf
  <2>2. changes'[j].resource \in Owners(listeners')
    BY <1>5, <2>1, UpdatesAbout DEF Owners
  <2> QED
    BY <2>2, OwnersHostsNext
<1> QED
  BY <1>4, <1>5

\* The keys of the changes of a GlobalConfiguration differ.
LEMMA ListenerKeysDiffer ==
  ASSUME Maps, Maps'
  PROVE  \A i, j \in DOMAIN ListenerChanges :
           KeyOf(ListenerChanges[i]) = KeyOf(ListenerChanges[j]) => i = j
<1>1. Transforms(ListenerChanges, listeners, listeners')
  <2>1. Owners(listeners) \subseteq ResourcesAbout /\ Owners(listeners') \subseteq ResourcesAbout
    BY DEF ResourcesAbout
  <2> QED
    BY <2>1, ListenerChangesOK DEF Maps
<1> QED
  BY <1>1 DEF Transforms

-----------------------------------------------------------------------------
(* The files between and during syncs *)

\* What is left to apply of the changes of the current task.
Rest == SubSeq(Order, cursor, Len(Order))

\* The files are those of the owners, up to the changes that are still to be
\* applied; the passthrough map always has the pairs of the files.
FilesOK ==
  /\ cursor \in Nat \ {0}
  /\ passthrough = PassOf(files)
  /\ worker # "changes" => files = Files(hosts, listeners)
  /\ worker = "changes" =>
       /\ ChangesTyped(Order) /\ Len(Order) = Len(changes)
       /\ NoPairLeft(files, Order)
       /\ Applied(files, Rest) = Files(hosts, listeners)

LEMMA SameOrder ==
  ASSUME NEW cs, NEW ds, NEW F, ToSet(ds) = ToSet(cs), NoPairLeft(F, cs)
  PROVE  NoPairLeft(F, ds)
<1>1. \A i \in DOMAIN ds : \E j \in DOMAIN cs : ds[i] = cs[j]
  BY DEF ToSet
<1> QED
  BY <1>1 DEF NoPairLeft

\* A sync hands the worker changes that lead from the old files to the new.
LEMMA SyncFiles ==
  ASSUME VersionsTold, ListersOK, WorkerOK, Maps, Maps', HostOwnersStay, FilesOK, Synced,
         SyncIngress \/ SyncVirtualServer \/ SyncVirtualServerRoute
           \/ SyncTransportServer \/ SyncGlobalConfiguration
  PROVE  FilesOK'
<1> DEFINE R == ResourcesAbout
           F == Files(hosts, listeners)
           H == Files(hosts', listeners')
<1>1. Next
  BY SyncIsNext
<1>2. /\ changes' \in Seq(ChangeSet(R)) /\ \A r \in R : Shaped(r)
      /\ Applied(F, changes') = H
      /\ NoPairLeft(F, changes')
  BY <1>1, ChangesAbout, ResourcesShaped, ChangesCompleteStep, SyncNoPairLeft
<1>3. /\ files' = files /\ files = F /\ cursor' = 1 /\ worker' = "changes" /\ current' = current
      /\ passthrough' = passthrough /\ passthrough = PassOf(files)
  BY DEF Synced, FilesOK, nginx
<1> HIDE DEF R, F, H
<1>4. CASE current # GlobalConfigurationKey
  <2>1. Order' = changes'
    BY <1>3, <1>4 DEF Order
  <2>2. SubSeq(changes', 1, Len(changes')) = changes'
    BY <1>2, SubSeqFull
  <2>3. Rest' = changes'
    BY <1>3, <2>1, <2>2 DEF Rest
  <2>4. ChangesTyped(changes')
    BY <1>2 DEF ChangesTyped
  <2> QED
    BY <1>2, <1>3, <2>1, <2>3, <2>4 DEF FilesOK, H
<1>5. CASE current = GlobalConfigurationKey
  <2>1. changes' = ListenerChanges
    <3>1. SyncGlobalConfiguration
      BY <1>5 DEF SyncIngress, SyncVirtualServer, SyncVirtualServerRoute, SyncTransportServer,
        GlobalConfigurationKey
    <3> QED
      BY <3>1 DEF SyncGlobalConfiguration, AddOrUpdateGlobalConfiguration,
        DeleteGlobalConfiguration, Respond
  <2>2. \A i, j \in DOMAIN changes' : KeyOf(changes'[i]) = KeyOf(changes'[j]) => i = j
    BY <2>1, ListenerKeysDiffer
  <2> DEFINE u == UpdatesFirst(changes')
  <2>3. /\ u \in Seq(ChangeSet(R)) /\ Len(u) = Len(changes') /\ ToSet(u) = ToSet(changes')
        /\ Applied(F, u) = Applied(F, changes')
    BY <1>2, <2>2, UpdatesFirstOK
  <2>4. Order' = u
    BY <1>3, <1>5 DEF Order
  <2> HIDE DEF u
  <2>5. SubSeq(u, 1, Len(u)) = u
    BY <2>3, SubSeqFull
  <2>6. Rest' = u
    BY <1>3, <2>4, <2>5 DEF Rest
  <2>7. ChangesTyped(u)
    BY <1>2, <2>3 DEF ChangesTyped
  <2>8. NoPairLeft(F, u)
    BY <1>2, <2>3, SameOrder
  <2> QED
    BY <1>2, <1>3, <2>3, <2>4, <2>6, <2>7, <2>8 DEF FilesOK, H
<1> QED
  BY <1>4, <1>5

\* Applying one change leaves one change less to apply.
LEMMA ApplyFiles ==
  ASSUME FilesOK, worker = "changes", cursor <= Len(changes),
         UNCHANGED <<vars, worker, current>>, cursor' = cursor + 1,
         files' = Apply(files, Order[cursor]),
         passthrough' = PassthroughAfter(passthrough, Order[cursor])
  PROVE  FilesOK'
<1>1. PICK R : Order \in Seq(ChangeSet(R)) /\ \A r \in R : Shaped(r)
  BY DEF FilesOK, ChangesTyped
<1>2. Len(Order) \in Nat /\ DOMAIN Order = 1..Len(Order) /\ Len(Order) = Len(changes)
  BY <1>1, LenProperties DEF FilesOK
<1>3. cursor \in 1..Len(Order) /\ cursor \in DOMAIN Order
  BY <1>2 DEF FilesOK
<1>4. Order' = Order /\ hosts' = hosts /\ listeners' = listeners /\ changes' = changes
      /\ worker' = worker
  BY DEF Order, vars
<1>5. Applied(files, Rest) = Applied(files', SubSeq(Order, cursor + 1, Len(Order)))
  BY <1>1, <1>3, ApplyNext DEF Rest
<1>6. Rest' = SubSeq(Order, cursor + 1, Len(Order))
  BY <1>4 DEF Rest
<1>7. passthrough' = PassOf(files') /\ NoPairLeft(files', Order)
  BY <1>1, <1>3, PassthroughStep DEF FilesOK
<1>8. cursor + 1 \in Nat \ {0}
  BY DEF FilesOK
<1> QED
  BY <1>4, <1>5, <1>6, <1>7, <1>8 DEF FilesOK

\* Past the last change, the files are those of the owners.
LEMMA AllApplied ==
  ASSUME FilesOK, worker = "changes", cursor > Len(changes)
  PROVE  files = Files(hosts, listeners)
<1>1. PICK R : Order \in Seq(ChangeSet(R))
  BY DEF FilesOK, ChangesTyped
<1>2. cursor \in Nat /\ cursor > Len(Order)
  BY DEF FilesOK
<1> QED
  BY <1>1, <1>2, NoneLeft DEF FilesOK, Rest

LEMMA FilesStep ==
  ASSUME VersionsTold, ListersOK, WorkerOK, Maps, Maps', HostOwnersStay, FilesOK,
         [AllNext]_allVars
  PROVE  FilesOK'
<1>1. CASE UNCHANGED <<vars, worker, current, cursor, files, passthrough>>
  BY <1>1 DEF FilesOK, Rest, Order, vars
<1>2. CASE SyncIngress \/ SyncVirtualServer \/ SyncVirtualServerRoute
           \/ SyncTransportServer \/ SyncGlobalConfiguration
  <2>1. Synced
    BY <1>2 DEF SyncIngress, SyncVirtualServer, SyncVirtualServerRoute, SyncTransportServer,
      SyncGlobalConfiguration
  <2> QED
    BY <1>2, <2>1, SyncFiles
<1>3. CASE Edit \/ \E key \in Keys : Observe(key)
  BY <1>1, <1>3 DEF Edit, Create, Update, EditGlobalConfiguration, Delete, Edited, Observe, nginx
<1>4. CASE GetTask
  BY <1>4 DEF GetTask, FilesOK, vars, nginx
<1>5. CASE ProcessChange
  <2>1. Order = changes
    BY <1>5 DEF ProcessChange, Order
  <2> QED
    BY <1>5, <2>1, ApplyFiles DEF ProcessChange
<1>6. CASE UpdateTransportServers
  <2>1. Order = UpdatesFirst(changes)
    BY <1>6 DEF UpdateTransportServers, Order
  <2> QED
    BY <1>6, <2>1, ApplyFiles DEF UpdateTransportServers
<1>7. CASE ReloadTransportServers
  <2>1. /\ worker = "changes" /\ cursor = Len(changes) + 1 /\ cursor' = cursor + 1
        /\ UNCHANGED <<vars, worker, current, files, passthrough>>
    BY <1>7 DEF ReloadTransportServers
  <2>2. PICK R : Order \in Seq(ChangeSet(R)) /\ \A r \in R : Shaped(r)
    BY <2>1 DEF FilesOK, ChangesTyped
  <2>3. Len(Order) \in Nat /\ Len(changes) = Len(Order) /\ cursor \in Nat
    BY <2>1, <2>2, LenProperties DEF FilesOK
  <2>4. cursor > Len(changes) /\ cursor + 1 > Len(Order) /\ cursor + 1 \in Nat \ {0}
    BY <2>1, <2>3
  <2>5. files = Files(hosts, listeners)
    BY <2>1, <2>4, AllApplied
  <2>6. Applied(files, SubSeq(Order, cursor + 1, Len(Order))) = files
    BY <2>2, <2>4, NoneLeft
  <2>7. Order' = Order /\ Rest' = SubSeq(Order, cursor + 1, Len(Order))
    BY <2>1 DEF Order, Rest, vars
  <2> QED
    BY <2>1, <2>4, <2>5, <2>6, <2>7 DEF FilesOK, vars
<1>8. CASE FinishSync
  <2>1. /\ worker = "changes" /\ worker' = "idle"
        /\ UNCHANGED <<vars, current, cursor, files, passthrough>>
    BY <1>8 DEF FinishSync, nginx
  <2>2. PICK R : Order \in Seq(ChangeSet(R))
    BY <2>1 DEF FilesOK, ChangesTyped
  <2>3. Len(changes) \in Nat /\ cursor \in Nat
    BY <2>1, <2>2, LenProperties DEF FilesOK
  <2>4. cursor > Len(changes)
    BY <1>8, <2>3 DEF FinishSync
  <2>5. files = Files(hosts, listeners)
    BY <2>1, <2>4, AllApplied
  <2> QED
    BY <2>1, <2>5 DEF FilesOK, vars
<1>9. CASE UNCHANGED allVars
  BY <1>1, <1>9 DEF allVars, nginx
<1> QED
  BY <1>2, <1>3, <1>4, <1>5, <1>6, <1>7, <1>8, <1>9 DEF AllNext, Work

LEMMA OwnersStay ==
  Maps /\ [HostOwnersStay]_vars => HostOwnersStay
BY DEF Maps, HostOwnersStay, vars

LEMMA FilesInvariant ==
  ASSUME VersionsTold
  PROVE  AllSpec /\ [][HostOwnersStay]_vars => [](FilesOK /\ Maps)
<1>1. AllInit => FilesOK
  <2> SUFFICES ASSUME AllInit PROVE FilesOK
    OBVIOUS
  <2>1. hosts = <<>> /\ listeners = <<>> /\ files = {} /\ passthrough = {} /\ worker = "idle" /\ cursor = 1
    BY DEF AllInit, Init
  <2>2. Files(hosts, listeners) = {}
    BY <2>1 DEF Files
  <2>3. PassOf({}) = {}
    BY PassOfElement
  <2> QED
    BY <2>1, <2>2, <2>3 DEF FilesOK
<1>2. ListersOK /\ WorkerOK /\ Maps /\ Maps' /\ [HostOwnersStay]_vars /\ FilesOK /\ [AllNext]_allVars
        => FilesOK'
  BY FilesStep, OwnersStay
<1> QED
  BY <1>1, <1>2, ListersInvariant, WorkerInvariant, ControllerRefinesConfiguration,
     InStepInvariant, MapsNow, PTL DEF AllSpec

\* FilesReflectConfiguration holds for any objects, any edits and any order in
\* which they are observed and coalesce, when metadata tells versions apart and
\* no TransportServer turns from the owner of a host into one of a listener in
\* one sync (the runs recreated and edited_ts show what happens otherwise).
THEOREM FilesReflectConfigurationInvariant ==
  ASSUME VersionsTold
  PROVE  AllSpec /\ [][HostOwnersStay]_vars => []FilesReflectConfiguration
<1>1. FilesOK /\ Maps => FilesReflectConfiguration
  BY PassOfOwners DEF FilesOK, FilesReflectConfiguration
<1> QED
  BY <1>1, FilesInvariant, PTL

-----------------------------------------------------------------------------
(* What NGINX runs *)

\* Without a failed reload NGINX runs the files, except between the first file
\* that a GlobalConfiguration changes and the reload that follows the last.
RunningOK ==
  /\ failures \in Nat
  /\ failures = 0 => \/ running = files
                     \/ /\ worker = "changes" /\ current = GlobalConfigurationKey
                        /\ cursor <= Len(changes) + 1

LEMMA ReloadOK ==
  ASSUME RunningOK, NEW ok \in BOOLEAN, Reload(ok)
  PROVE  failures' \in Nat /\ (failures' = 0 => running' = files')
BY DEF Reload, RunningOK

LEMMA RunningStep ==
  ASSUME FilesOK, RunningOK, [AllNext]_allVars
  PROVE  RunningOK'
<1>1. CASE UNCHANGED <<changes, worker, current, cursor, files, running, failures>>
  BY <1>1 DEF RunningOK
<1>2. CASE Synced
  BY <1>2 DEF Synced, RunningOK, nginx
<1>3. CASE Edit \/ \E key \in Keys : Observe(key)
  BY <1>1, <1>3 DEF Edit, Create, Update, EditGlobalConfiguration, Delete, Edited, Observe, nginx, vars
<1>4. CASE GetTask
  BY <1>4 DEF GetTask, RunningOK, nginx
<1>5. CASE ProcessChange \/ ReloadTransportServers
  <2>1. PICK ok \in BOOLEAN : Reload(ok)
    BY <1>5 DEF ProcessChange, ReloadTransportServers
  <2> QED
    BY <2>1, ReloadOK DEF RunningOK
<1>6. CASE UpdateTransportServers
  <2>1. worker = "changes" /\ cursor <= Len(changes) /\ cursor' = cursor + 1
        /\ current = GlobalConfigurationKey
        /\ UNCHANGED <<changes, worker, current, failures>>
    BY <1>6 DEF UpdateTransportServers, vars
  <2>2. PICK R : Order \in Seq(ChangeSet(R))
    BY <2>1 DEF FilesOK, ChangesTyped
  <2>3. Len(changes) \in Nat /\ cursor \in Nat
    BY <2>1, <2>2, LenProperties DEF FilesOK
  <2> QED
    BY <2>1, <2>3 DEF RunningOK
<1>7. CASE FinishSync
  <2>1. worker = "changes" /\ worker' = "idle" /\ UNCHANGED <<changes, current, cursor, files, running, failures>>
    BY <1>7 DEF FinishSync, nginx, vars
  <2>2. PICK R : Order \in Seq(ChangeSet(R))
    BY <2>1 DEF FilesOK, ChangesTyped
  <2>3. Len(changes) \in Nat /\ cursor \in Nat
    BY <2>1, <2>2, LenProperties DEF FilesOK
  <2>4. current = GlobalConfigurationKey => cursor > Len(changes) + 1
    BY <1>7 DEF FinishSync
  <2> QED
    BY <2>1, <2>3, <2>4 DEF RunningOK
<1>8. CASE UNCHANGED allVars
  BY <1>1, <1>8 DEF allVars, nginx, vars
<1> QED
  BY <1>2, <1>3, <1>4, <1>5, <1>6, <1>7, <1>8 DEF AllNext, Work, SyncIngress, SyncVirtualServer,
    SyncVirtualServerRoute, SyncTransportServer, SyncGlobalConfiguration

LEMMA RunningInvariant ==
  ASSUME VersionsTold
  PROVE  AllSpec /\ [][HostOwnersStay]_vars => []RunningOK
<1>1. AllInit => RunningOK
  BY DEF AllInit, RunningOK
<1>2. FilesOK /\ RunningOK /\ [AllNext]_allVars => RunningOK'
  BY RunningStep
<1> QED
  BY <1>1, <1>2, FilesInvariant, PTL DEF AllSpec

-----------------------------------------------------------------------------
(* What the Configuration knows of the listers *)

\* Two versions of an object that the handlers do not tell apart.
Same(o, p) ==
  Key(o) = Key(p) /\ o.uid = p.uid /\ o.created = p.created /\ SpecOf(o) = SpecOf(p)

Reflects(S, T) ==
  /\ \A o \in S : \E p \in T : Same(o, p)
  /\ \A p \in T : \E o \in S : Same(o, p)

AcceptedAt(key) == {o \in At(lister, key) : Accepted(o)}

\* The listeners of the GlobalConfiguration in a set of objects, if it is valid.
ListenersIn(S) ==
  UNION {ToSet(o.listeners) : o \in
    {p \in S : p.kind = "GlobalConfiguration" /\ ValidateGlobalConfiguration(p.listeners)}}

Loaded(key) ==
  IF key = GlobalConfigurationKey THEN globalConfiguration = ListenersIn(lister)
  ELSE Reflects(AcceptedAt(key), At(Stored, key))

\* A task for the key is in the queue, or has been taken but not yet synced.
Pending(key) == key \in queue.dirty \/ (worker = "sync" /\ current = key)

\* A key that nothing is pending for is loaded.
Watched == Keys \cup {GlobalConfigurationKey}
LoadedOK == \A key \in Watched : Pending(key) \/ Loaded(key)

\* N holds X under the key, and what S holds under the others.
LikeBut(S, N, key, X) ==
  At(N, key) = X /\ \A k : k # key => At(N, k) = At(S, k)

LEMMA PutAt ==
  ASSUME NEW S, NEW T, NEW o, \A p \in T : Key(p) # Key(o)
  PROVE  LikeBut(S \cup T, Put(S, o) \cup T, Key(o), {p \in {o} : Accepted(p)})
BY DEF At, Put, LikeBut

LEMMA WithoutAt ==
  ASSUME NEW S, NEW T, NEW key, \A p \in T : Key(p) # key
  PROVE  LikeBut(S \cup T, Without(S, key) \cup T, key, {})
BY DEF At, Without, LikeBut

\* A sync turns the store S, for the kind of the current task, into N.
StoreSynced(S, N) ==
  \/ \E o \in At(lister, current) : N = Put(S, o)
  \/ ~Exists(lister, current) /\ N = Without(S, current)
  \/ ~Exists(lister, current) /\ N = S /\ \A o \in S : Key(o) # current

OnlyCurrent(S, N) == LikeBut(S, N, current, AcceptedAt(current))

\* It then holds what the lister has, if that is accepted.
LEMMA SyncAt ==
  ASSUME ListersOK, NEW S, NEW N, NEW T, \A p \in T : Key(p) # current, StoreSynced(S, N)
  PROVE  OnlyCurrent(S \cup T, N \cup T)
<1>1. ASSUME NEW o \in At(lister, current), N = Put(S, o)
      PROVE  OnlyCurrent(S \cup T, N \cup T)
  <2>1. Key(o) = current /\ At(lister, current) = {o}
    BY DEF ListersOK, Unique, At
  <2>2. LikeBut(S \cup T, Put(S, o) \cup T, Key(o), {p \in {o} : Accepted(p)})
    BY <2>1, PutAt
  <2> QED
    BY <1>1, <2>1, <2>2 DEF AcceptedAt, OnlyCurrent
<1>2. ~Exists(lister, current) => AcceptedAt(current) = {}
  BY DEF Exists, AcceptedAt
<1>3. CASE ~Exists(lister, current) /\ N = Without(S, current)
  <2>1. LikeBut(S \cup T, Without(S, current) \cup T, current, {})
    BY WithoutAt
  <2> QED
    BY <1>2, <1>3, <2>1 DEF OnlyCurrent
<1>4. CASE ~Exists(lister, current) /\ N = S /\ \A o \in S : Key(o) # current
  BY <1>2, <1>4 DEF At, OnlyCurrent, LikeBut
<1> QED
  BY <1>1, <1>3, <1>4 DEF StoreSynced

LEMMA SyncStored ==
  ASSUME StoresOK, ListersOK,
         SyncIngress \/ SyncVirtualServer \/ SyncVirtualServerRoute \/ SyncTransportServer
  PROVE  /\ OnlyCurrent(Stored, Stored')
         /\ globalConfiguration' = globalConfiguration
         /\ current # GlobalConfigurationKey
<1>1. \A p : Key(p)[1] = p.kind
  BY DEF Key
<1>2. CASE SyncIngress
  <2> DEFINE T == virtualServers \cup virtualServerRoutes \cup transportServers
  <2>1. \A p \in T : Key(p) # current
    BY <1>1, <1>2, StoredKinds DEF SyncIngress
  <2>2. T' = T /\ globalConfiguration' = globalConfiguration
    BY <1>2 DEF SyncIngress, AddOrUpdateIngress, DeleteIngress, NothingToDelete, objects
  <2>3. StoreSynced(ingresses, ingresses')
    BY <1>2 DEF SyncIngress, AddOrUpdateIngress, DeleteIngress, NothingToDelete, objects, StoreSynced
  <2>4. Stored = ingresses \cup T /\ Stored' = ingresses' \cup T'
    BY DEF Stored
  <2> HIDE DEF T
  <2>5. OnlyCurrent(ingresses \cup T, ingresses' \cup T)
    BY <2>1, <2>3, SyncAt
  <2>6. current # GlobalConfigurationKey
    BY <1>2 DEF SyncIngress, GlobalConfigurationKey
  <2> QED
    BY <2>2, <2>4, <2>5, <2>6
<1>3. CASE SyncVirtualServer
  <2> DEFINE T == ingresses \cup virtualServerRoutes \cup transportServers
  <2>1. \A p \in T : Key(p) # current
    BY <1>1, <1>3, StoredKinds DEF SyncVirtualServer
  <2>2. T' = T /\ globalConfiguration' = globalConfiguration
    BY <1>3 DEF SyncVirtualServer, AddOrUpdateVirtualServer, DeleteVirtualServer, NothingToDelete, objects
  <2>3. StoreSynced(virtualServers, virtualServers')
    BY <1>3 DEF SyncVirtualServer, AddOrUpdateVirtualServer, DeleteVirtualServer, NothingToDelete, objects, StoreSynced
  <2>4. Stored = virtualServers \cup T /\ Stored' = virtualServers' \cup T'
    BY DEF Stored
  <2> HIDE DEF T
  <2>5. OnlyCurrent(virtualServers \cup T, virtualServers' \cup T)
    BY <2>1, <2>3, SyncAt
  <2>6. current # GlobalConfigurationKey
    BY <1>3 DEF SyncVirtualServer, GlobalConfigurationKey
  <2> QED
    BY <2>2, <2>4, <2>5, <2>6
<1>4. CASE SyncVirtualServerRoute
  <2> DEFINE T == ingresses \cup virtualServers \cup transportServers
  <2>1. \A p \in T : Key(p) # current
    BY <1>1, <1>4, StoredKinds DEF SyncVirtualServerRoute
  <2>2. T' = T /\ globalConfiguration' = globalConfiguration
    BY <1>4 DEF SyncVirtualServerRoute, AddOrUpdateVirtualServerRoute, DeleteVirtualServerRoute,
      NothingToDelete, objects
  <2>3. StoreSynced(virtualServerRoutes, virtualServerRoutes')
    BY <1>4 DEF SyncVirtualServerRoute, AddOrUpdateVirtualServerRoute, DeleteVirtualServerRoute,
      NothingToDelete, objects, StoreSynced
  <2>4. Stored = virtualServerRoutes \cup T /\ Stored' = virtualServerRoutes' \cup T'
    BY DEF Stored
  <2> HIDE DEF T
  <2>5. OnlyCurrent(virtualServerRoutes \cup T, virtualServerRoutes' \cup T)
    BY <2>1, <2>3, SyncAt
  <2>6. current # GlobalConfigurationKey
    BY <1>4 DEF SyncVirtualServerRoute, GlobalConfigurationKey
  <2> QED
    BY <2>2, <2>4, <2>5, <2>6
<1>5. CASE SyncTransportServer
  <2> DEFINE T == ingresses \cup virtualServers \cup virtualServerRoutes
  <2>1. \A p \in T : Key(p) # current
    BY <1>1, <1>5, StoredKinds DEF SyncTransportServer
  <2>2. T' = T /\ globalConfiguration' = globalConfiguration
    BY <1>5 DEF SyncTransportServer, AddOrUpdateTransportServer, DeleteTransportServer,
      NothingToDelete, objects
  <2>3. StoreSynced(transportServers, transportServers')
    BY <1>5 DEF SyncTransportServer, AddOrUpdateTransportServer, DeleteTransportServer,
      NothingToDelete, objects, StoreSynced
  <2>4. Stored = transportServers \cup T /\ Stored' = transportServers' \cup T'
    BY DEF Stored
  <2> HIDE DEF T
  <2>5. OnlyCurrent(transportServers \cup T, transportServers' \cup T)
    BY <2>1, <2>3, SyncAt
  <2>6. current # GlobalConfigurationKey
    BY <1>5 DEF SyncTransportServer, GlobalConfigurationKey
  <2> QED
    BY <2>2, <2>4, <2>5, <2>6
<1> QED
  BY <1>2, <1>3, <1>4, <1>5

\* The only GlobalConfiguration the controller watches is the one it is given.
OneGlobalConfiguration ==
  \A o \in lister : o.kind = "GlobalConfiguration" <=> o \in At(lister, GlobalConfigurationKey)

LEMMA ListenersInLister == ListersOK => OneGlobalConfiguration
<1> SUFFICES ASSUME ListersOK, NEW o \in lister
             PROVE  o.kind = "GlobalConfiguration" <=> o \in At(lister, GlobalConfigurationKey)
  BY DEF OneGlobalConfiguration
<1>1. CASE o \in Objects
  <2>1. o.kind # "GlobalConfiguration"
    BY <1>1, ObjectsAssumption DEF Objects
  <2> QED
    BY <2>1 DEF At, Key, GlobalConfigurationKey
<1>2. CASE o \in GlobalConfigurationObjects
  BY <1>2 DEF GlobalConfigurationObjects, At, Key, GlobalConfigurationKey
<1> QED
  BY <1>1, <1>2 DEF ListersOK, ApiObjects

LEMMA SyncListeners ==
  ASSUME ListersOK, WorkerOK, SyncGlobalConfiguration
  PROVE  /\ globalConfiguration' = ListenersIn(lister) /\ Stored' = Stored
         /\ current = GlobalConfigurationKey
<1>1. current = GlobalConfigurationKey
  BY ObjectsAssumption DEF WorkerOK, Keys, SyncGlobalConfiguration, Key, Objects
<1>2. Stored' = Stored
  BY DEF SyncGlobalConfiguration, AddOrUpdateGlobalConfiguration, DeleteGlobalConfiguration, Stored
<1> DEFINE V == {p \in lister : p.kind = "GlobalConfiguration" /\ ValidateGlobalConfiguration(p.listeners)}
<1>3. V = {p \in At(lister, current) : ValidateGlobalConfiguration(p.listeners)}
  BY <1>1, ListenersInLister DEF At, OneGlobalConfiguration
<1>4. ListenersIn(lister) = UNION {ToSet(o.listeners) : o \in V}
  BY DEF ListenersIn
<1> HIDE DEF V
<1>5. ASSUME NEW gc \in At(lister, current), AddOrUpdateGlobalConfiguration(gc.listeners)
      PROVE  globalConfiguration' = ListenersIn(lister)
  <2>1. At(lister, current) = {gc}
    BY DEF At, ListersOK, Unique
  <2>2. V = IF ValidateGlobalConfiguration(gc.listeners) THEN {gc} ELSE {}
    BY <1>3, <2>1
  <2> QED
    BY <1>4, <1>5, <2>2 DEF AddOrUpdateGlobalConfiguration
<1>6. CASE ~Exists(lister, current) /\ DeleteGlobalConfiguration
  <2>1. V = {}
    BY <1>3, <1>6 DEF Exists
  <2>2. ListenersIn(lister) = {}
    BY <1>4, <2>1
  <2> QED
    BY <1>1, <1>2, <1>6, <2>2 DEF DeleteGlobalConfiguration
<1> QED
  BY <1>1, <1>2, <1>5, <1>6 DEF SyncGlobalConfiguration

LEMMA SameFields ==
  ASSUME NEW o, NEW p, Same(o, p)
  PROVE  /\ Key(o) = Key(p) /\ o.uid = p.uid /\ o.created = p.created
         /\ o.class = p.class /\ o.valid = p.valid /\ o.routes = p.routes
         /\ ConfigSpec(o) = ConfigSpec(p)
         /\ o.hosts = p.hosts /\ o.mergeable = p.mergeable /\ o.listener = p.listener
         /\ o.kind = p.kind /\ o.name = p.name
         /\ (Accepted(o) <=> Accepted(p))
<1>1. /\ Key(o) = Key(p) /\ o.uid = p.uid /\ o.created = p.created
      /\ o.class = p.class /\ o.valid = p.valid /\ o.routes = p.routes
      /\ ConfigSpec(o) = ConfigSpec(p)
  BY DEF Same, SpecOf
<1>2. o.hosts = p.hosts /\ o.mergeable = p.mergeable /\ o.listener = p.listener
  BY <1>1 DEF ConfigSpec
<1>3. o.kind = p.kind /\ o.name = p.name
  BY <1>1 DEF Key
<1>4. Accepted(o) <=> Accepted(p)
  BY <1>1 DEF Accepted
<1> QED
  BY <1>1, <1>2, <1>3, <1>4

LEMMA SameIsEquivalence ==
  /\ \A o : Same(o, o)
  /\ \A o, p : Same(o, p) => Same(p, o)
  /\ \A o, p, q : Same(o, p) /\ Same(p, q) => Same(o, q)
BY DEF Same

LEMMA ReflectsOK ==
  ASSUME NEW S, NEW T, NEW U
  PROVE  Reflects(S, S) /\ (Reflects(S, T) /\ Reflects(T, U) => Reflects(S, U))
BY SameIsEquivalence DEF Reflects

\* An event that a handler ignores changes nothing the Configuration uses.
LEMMA Unnoticed ==
  ASSUME NamesKept, ListersOK, NEW key \in Keys, key # GlobalConfigurationKey, ~MustEnqueue(key)
  PROVE  Reflects(At(cluster, key), At(lister, key))
<1>1. ASSUME NEW old \in At(lister, key), NEW cur \in At(cluster, key) PROVE Same(cur, old)
  <2>1. Key(old) = key /\ Key(cur) = key /\ ~HasChanges(old, cur)
    BY DEF At, MustEnqueue
  <2>2. old \in Objects /\ cur \in Objects
    BY <2>1 DEF At, ListersOK, ApiObjects, GlobalConfigurationObjects, Key, GlobalConfigurationKey
  <2>3. old.uid = cur.uid /\ old.created = cur.created
    BY <2>1, <2>2 DEF NamesKept
  <2>4. SpecOf(old) = SpecOf(cur)
    <3>1. CASE cur.kind \in {"VirtualServer", "VirtualServerRoute"}
      BY <2>1, <3>1 DEF HasChanges
    <3>2. CASE cur.kind \notin {"VirtualServer", "VirtualServerRoute"}
      BY <2>1, <3>2 DEF HasChanges
    <3> QED
      BY <3>1, <3>2
  <2> QED
    BY <2>1, <2>3, <2>4 DEF Same
<1>2. At(lister, key) # {} <=> At(cluster, key) # {}
  BY DEF MustEnqueue, Exists
<1> QED
  BY <1>1, <1>2 DEF Reflects

LEMMA UnnoticedListeners ==
  ASSUME ListersOK, ~MustEnqueue(GlobalConfigurationKey)
  PROVE  At(cluster, GlobalConfigurationKey) = At(lister, GlobalConfigurationKey)
<1> DEFINE key == GlobalConfigurationKey
<1>1. ASSUME NEW old \in At(lister, key), NEW cur \in At(cluster, key) PROVE old = cur
  <2>1. cur.kind = "GlobalConfiguration"
    BY DEF At, Key, GlobalConfigurationKey
  <2>2. ~HasChanges(old, cur)
    BY DEF MustEnqueue
  <2> QED
    BY <2>1, <2>2 DEF HasChanges
<1>2. At(lister, key) # {} <=> At(cluster, key) # {}
  BY DEF MustEnqueue, Exists
<1> QED
  BY <1>1, <1>2

LEMMA AcceptedReflects ==
  ASSUME NEW S, NEW T, Reflects(S, T)
  PROVE  Reflects({o \in S : Accepted(o)}, {o \in T : Accepted(o)})
BY SameFields DEF Reflects

LEMMA LoadedSame ==
  ASSUME NEW key, At(lister', key) = At(lister, key), At(Stored', key) = At(Stored, key),
         key = GlobalConfigurationKey =>
           ListenersIn(lister') = ListenersIn(lister) /\ globalConfiguration' = globalConfiguration
  PROVE  Loaded(key) => Loaded(key)'
BY DEF Loaded, AcceptedAt

LEMMA ListenersInAt ==
  ASSUME ListersOK, ListersOK', At(lister', GlobalConfigurationKey) = At(lister, GlobalConfigurationKey)
  PROVE  ListenersIn(lister') = ListenersIn(lister)
<1> DEFINE V(S) == {p \in S : p.kind = "GlobalConfiguration" /\ ValidateGlobalConfiguration(p.listeners)}
<1>1. V(lister) = {p \in At(lister, GlobalConfigurationKey) : ValidateGlobalConfiguration(p.listeners)}
  BY ListenersInLister DEF At, OneGlobalConfiguration
<1>2. \A o \in lister' : o.kind = "GlobalConfiguration" <=> o \in At(lister', GlobalConfigurationKey)
  <2>1. ListersOK' => OneGlobalConfiguration'
    BY ListenersInLister, PTL
  <2> QED
    BY <2>1 DEF OneGlobalConfiguration
<1>3. V(lister') = {p \in At(lister', GlobalConfigurationKey) : ValidateGlobalConfiguration(p.listeners)}
  BY <1>2 DEF At
<1>4. V(lister') = V(lister)
  BY <1>1, <1>3
<1>5. \A S : ListenersIn(S) = UNION {ToSet(o.listeners) : o \in V(S)}
  BY DEF ListenersIn
<1> HIDE DEF V
<1> QED
  BY <1>4, <1>5

LEMMA ObserveLoaded ==
  ASSUME NamesKept, ListersOK, ListersOK', WorkerOK, LoadedOK, NEW key \in Keys, Observe(key)
  PROVE  LoadedOK'
<1>1. /\ lister' = (lister \ At(lister, key)) \cup At(cluster, key)
      /\ UNCHANGED <<vars, cluster, worker, current>>
      /\ queue' = IF MustEnqueue(key) THEN Add(queue, key) ELSE queue
  BY DEF Observe, api
<1>2. \A k : k # key => At(lister', k) = At(lister, k)
  BY <1>1 DEF At
<1>3. At(lister', key) = At(cluster, key)
  BY <1>1 DEF At
<1>4. queue.dirty \subseteq queue'.dirty /\ (MustEnqueue(key) => key \in queue'.dirty)
  BY <1>1, AddOK DEF WorkerOK
<1>5. Stored' = Stored /\ globalConfiguration' = globalConfiguration
  BY <1>1 DEF vars, objects, Stored
<1> SUFFICES ASSUME NEW k \in Watched, ~Pending(k)' PROVE Loaded(k)'
  BY DEF LoadedOK
<1>6. Loaded(k) /\ (k = key => ~MustEnqueue(key))
  BY <1>1, <1>4 DEF Pending, LoadedOK
<1>7. CASE k # key
  <2>1. k = GlobalConfigurationKey => ListenersIn(lister') = ListenersIn(lister)
    BY <1>2, <1>7, ListenersInAt
  <2> QED
    BY <1>2, <1>5, <1>6, <1>7, <2>1, LoadedSame
<1>8. CASE k = key /\ key = GlobalConfigurationKey
  <2>1. At(lister', key) = At(lister, key)
    BY <1>3, <1>6, <1>8, UnnoticedListeners
  <2> QED
    BY <1>5, <1>6, <1>8, <2>1, ListenersInAt, LoadedSame
<1>9. CASE k = key /\ key # GlobalConfigurationKey
  <2>1. Reflects(At(lister', key), At(lister, key))
    BY <1>3, <1>6, <1>9, Unnoticed
  <2>2. Reflects(AcceptedAt(key)', AcceptedAt(key))
    BY <2>1, AcceptedReflects DEF AcceptedAt
  <2>3. Reflects(AcceptedAt(key), At(Stored, key))
    BY <1>6, <1>9 DEF Loaded
  <2>4. Reflects(AcceptedAt(key)', At(Stored, key))
    BY <2>2, <2>3, ReflectsOK
  <2> QED
    BY <1>5, <1>9, <2>4 DEF Loaded
<1> QED
  BY <1>7, <1>8, <1>9

LEMMA SyncLoaded ==
  ASSUME StoresOK, ListersOK, WorkerOK, LoadedOK, Synced,
         SyncIngress \/ SyncVirtualServer \/ SyncVirtualServerRoute
           \/ SyncTransportServer \/ SyncGlobalConfiguration
  PROVE  LoadedOK'
<1>1. worker = "sync" /\ worker' = "changes" /\ UNCHANGED <<lister, queue, current>>
  BY DEF Synced
<1> SUFFICES ASSUME NEW k \in Watched, ~Pending(k)' PROVE Loaded(k)'
  BY DEF LoadedOK
<1>2. k \notin queue.dirty
  BY <1>1 DEF Pending
<1>3. k # current => Loaded(k)
  BY <1>1, <1>2 DEF Pending, LoadedOK
<1>4. CASE SyncGlobalConfiguration
  <2>1. /\ globalConfiguration' = ListenersIn(lister) /\ Stored' = Stored
        /\ current = GlobalConfigurationKey
    BY <1>4, SyncListeners
  <2>2. CASE k = current
    BY <1>1, <2>1, <2>2 DEF Loaded
  <2>3. CASE k # current
    BY <1>1, <1>3, <2>1, <2>3, LoadedSame
  <2> QED
    BY <2>2, <2>3
<1>5. CASE SyncIngress \/ SyncVirtualServer \/ SyncVirtualServerRoute \/ SyncTransportServer
  <2>1. /\ OnlyCurrent(Stored, Stored') /\ globalConfiguration' = globalConfiguration
        /\ current # GlobalConfigurationKey
    BY <1>5, SyncStored
  <2>2. CASE k = current
    <3>1. At(Stored', k) = AcceptedAt(k) /\ AcceptedAt(k)' = AcceptedAt(k)
      BY <1>1, <2>1, <2>2 DEF OnlyCurrent, LikeBut, AcceptedAt
    <3>2. Reflects(AcceptedAt(k), AcceptedAt(k))
      BY ReflectsOK
    <3> QED
      BY <2>1, <2>2, <3>1, <3>2 DEF Loaded
  <2>3. CASE k # current
    <3>1. At(Stored', k) = At(Stored, k)
      BY <2>1, <2>3 DEF OnlyCurrent, LikeBut
    <3> QED
      BY <1>1, <1>3, <2>1, <2>3, <3>1, LoadedSame
  <2> QED
    BY <2>2, <2>3
<1> QED
  BY <1>4, <1>5

LEMMA LoadedUnchanged ==
  ASSUME LoadedOK, UNCHANGED <<vars, lister>>,
         \A k \in Watched : Pending(k) => Pending(k)'
  PROVE  LoadedOK'
<1>1. Stored' = Stored /\ globalConfiguration' = globalConfiguration
  BY DEF vars, objects, Stored
<1> QED
  BY <1>1, LoadedSame DEF LoadedOK

LEMMA LoadedStep ==
  ASSUME NamesKept, StoresOK, ListersOK, ListersOK', WorkerOK, LoadedOK, [AllNext]_allVars
  PROVE  LoadedOK'
<1>1. CASE UNCHANGED <<vars, lister, queue, worker, current>>
  BY <1>1, LoadedUnchanged DEF Pending
<1>2. CASE SyncIngress \/ SyncVirtualServer \/ SyncVirtualServerRoute
           \/ SyncTransportServer \/ SyncGlobalConfiguration
  <2>1. Synced
    BY <1>2 DEF SyncIngress, SyncVirtualServer, SyncVirtualServerRoute, SyncTransportServer,
      SyncGlobalConfiguration
  <2> QED
    BY <1>2, <2>1, SyncLoaded
<1>3. CASE Edit
  BY <1>1, <1>3 DEF Edit, Create, Update, EditGlobalConfiguration, Delete, Edited
<1>4. CASE \E key \in Keys : Observe(key)
  BY <1>4, ObserveLoaded
<1>5. CASE GetTask
  <2>1. /\ worker = "idle" /\ worker' = "sync" /\ current' = Head(queue.items)
        /\ UNCHANGED <<vars, lister>> /\ queue' = Get(queue) /\ CanGet(queue)
    BY <1>5 DEF GetTask
  <2>2. queue'.dirty = queue.dirty \ {Head(queue.items)}
    BY <2>1, GetOK DEF WorkerOK
  <2>3. \A k \in Watched : Pending(k) => Pending(k)'
    BY <2>1, <2>2 DEF Pending
  <2> QED
    BY <2>1, <2>3, LoadedUnchanged
<1>6. CASE ProcessChange \/ UpdateTransportServers \/ ReloadTransportServers
  BY <1>1, <1>6 DEF ProcessChange, UpdateTransportServers, ReloadTransportServers
<1>7. CASE FinishSync
  <2>1. worker = "changes" /\ UNCHANGED <<vars, lister>> /\ queue' = Done(queue, current)
    BY <1>7 DEF FinishSync
  <2>2. queue'.dirty = queue.dirty
    BY <2>1 DEF Done, WorkerOK, Queues
  <2> QED
    BY <2>1, <2>2, LoadedUnchanged DEF Pending
<1>8. CASE UNCHANGED allVars
  BY <1>1, <1>8 DEF allVars
<1> QED
  BY <1>2, <1>3, <1>4, <1>5, <1>6, <1>7, <1>8 DEF AllNext, Work

\* The Configuration lags behind the listers only where a task is pending.
LEMMA LoadedInvariant ==
  ASSUME NamesKept
  PROVE  AllSpec => []LoadedOK
<1>1. AllInit => LoadedOK
  <2> SUFFICES ASSUME AllInit, NEW key \in Watched PROVE Loaded(key)
    BY DEF LoadedOK
  <2>1. lister = {} /\ Stored = {} /\ globalConfiguration = {}
    BY DEF AllInit, Init, Stored
  <2>2. ListenersIn({}) = {}
    BY DEF ListenersIn
  <2>3. At({}, key) = {} /\ AcceptedAt(key) = {}
    BY <2>1 DEF At, AcceptedAt
  <2> QED
    BY <2>1, <2>2, <2>3, ReflectsOK DEF Loaded
<1>2. StoresOK /\ ListersOK /\ ListersOK' /\ WorkerOK /\ LoadedOK /\ [AllNext]_allVars => LoadedOK'
  BY LoadedStep
<1> QED
  BY <1>1, <1>2, ListersInvariant, WorkerInvariant, ControllerRefinesConfiguration,
     StoresInvariant, PTL DEF AllSpec

\* Once everything is synced, the Configuration has what the API server has.
SyncedUp ==
  /\ \A o \in cluster \cap Objects : Accepted(o) => \E p \in Stored : Same(o, p)
  /\ \A p \in Stored : \E o \in cluster \cap Objects : Accepted(o) /\ Same(o, p)
  /\ globalConfiguration = ListenersIn(cluster)

LEMMA QuiescentSynced ==
  ASSUME StoresOK, ListersOK, WorkerOK, LoadedOK, Quiescent
  PROVE  SyncedUp
<1>1. lister = cluster /\ worker = "idle" /\ queue.items = <<>>
  BY DEF Quiescent
<1>2. queue.dirty = {}
  BY <1>1 DEF WorkerOK, WellFormed, Queues
<1>3. \A key \in Watched : Loaded(key)
  BY <1>1, <1>2 DEF LoadedOK, Pending
<1>4. \A o \in Objects : Key(o) \in Watched /\ Key(o) # GlobalConfigurationKey
  BY ObjectsAssumption DEF Watched, Keys, Objects, Key, GlobalConfigurationKey
<1>5. Stored \subseteq Objects
  BY DEF StoresOK, Stored, Objects
<1>6. \A o \in Objects : Reflects(AcceptedAt(Key(o)), At(Stored, Key(o)))
  BY <1>3, <1>4 DEF Loaded
<1>7. ASSUME NEW o \in cluster \cap Objects, Accepted(o) PROVE \E p \in Stored : Same(o, p)
  <2>1. o \in AcceptedAt(Key(o))
    BY <1>1, <1>7 DEF AcceptedAt, At
  <2> QED
    BY <1>6, <2>1 DEF Reflects, At
<1>8. ASSUME NEW p \in Stored PROVE \E o \in cluster \cap Objects : Accepted(o) /\ Same(o, p)
  <2>1. p \in At(Stored, Key(p)) /\ p \in Objects
    BY <1>5 DEF At
  <2>2. PICK o \in AcceptedAt(Key(p)) : Same(o, p)
    BY <1>6, <2>1 DEF Reflects
  <2>3. o \in cluster /\ Accepted(o) /\ Key(o) = Key(p)
    BY <1>1, <2>2 DEF AcceptedAt, At
  <2>4. o \in Objects
    BY <1>4, <2>1, <2>3 DEF ListersOK, ApiObjects, GlobalConfigurationObjects, Key, GlobalConfigurationKey
  <2> QED
    BY <2>2, <2>3, <2>4
<1>9. globalConfiguration = ListenersIn(cluster)
  BY <1>1, <1>3 DEF Loaded, Watched
<1> QED
  BY <1>7, <1>8, <1>9 DEF SyncedUp

-----------------------------------------------------------------------------
(* Versions only move forward *)

Generations(S, T) == \A o \in S, p \in T : Key(o) = Key(p) => o.generation <= p.generation

\* No name is used again, so what the API server has under a key is never older
\* than what a lister has, nor that older than what the Configuration has.
ForwardOK ==
  /\ \A o \in Stored \cup (lister \cap Objects) \cup (cluster \cap Objects) : o.uid \in used
  /\ Generations(Stored, lister \cap Objects)
  /\ Generations(Stored, cluster \cap Objects)
  /\ Generations(lister \cap Objects, cluster \cap Objects)

LEMMA GenerationsRefl ==
  ASSUME NEW S, S \subseteq Objects, \A o, p \in S : Key(o) = Key(p) => o = p
  PROVE  Generations(S, S)
<1>1. \A o \in S : o.generation \in Nat
  BY ObjectsAssumption DEF ObjectType
<1> QED
  BY <1>1 DEF Generations

LEMMA StoredObjects == StoresOK => Stored \subseteq Objects
BY DEF StoresOK, Stored, Objects

\* An edit replaces an object by a later version of it.
LEMMA EditForward ==
  ASSUME NamesKept, StoresOK, ListersOK, ForwardOK, Edit
  PROVE  ForwardOK'
<1>1. Stored' = Stored /\ lister' = lister
  BY DEF Edit, Create, Update, EditGlobalConfiguration, Delete, Edited, vars, objects, Stored
<1>2. Stored \subseteq Objects
  BY StoredObjects
<1>3. \A o \in Objects : o.generation \in Nat /\ o.kind # "GlobalConfiguration"
  BY ObjectsAssumption DEF ObjectType, Objects
<1> DEFINE Older(S) == S \subseteq Objects /\ (\A p \in S : p.uid \in used)
                       /\ Generations(S, cluster \cap Objects)
<1>4. Older(Stored) /\ Older(lister \cap Objects)
  BY <1>2 DEF ForwardOK
<1>5. ASSUME used \subseteq used', \A S : Older(S) => Generations(S, cluster' \cap Objects),
             \A o \in cluster' \cap Objects : o.uid \in used'
      PROVE  ForwardOK'
  BY <1>1, <1>4, <1>5 DEF ForwardOK
<1>6. ASSUME NEW o \in Objects, Create(o) PROVE ForwardOK'
  <2>1. cluster' = cluster \cup {o} /\ used' = used \cup {o.uid} /\ o.uid \notin used
    BY <1>6 DEF Create, Edited
  <2>2. ASSUME NEW S, Older(S) PROVE Generations(S, cluster' \cap Objects)
    <3>1. \A p \in S : Key(p) # Key(o)
      BY <2>1, <2>2 DEF NamesKept
    <3> QED
      BY <2>1, <2>2, <3>1 DEF Generations
  <2>3. \A p \in cluster' \cap Objects : p.uid \in used'
    BY <2>1 DEF ForwardOK
  <2> QED
    BY <1>5, <2>1, <2>2, <2>3
<1>7. ASSUME NEW o \in Objects, Update(o) PROVE ForwardOK'
  <2>1. PICK p \in At(cluster, Key(o)) : p.uid = o.uid /\ p.generation < o.generation
    BY <1>7 DEF Update
  <2>2. used' = used /\ cluster' = (cluster \ At(cluster, Key(o))) \cup {o}
    BY <1>7 DEF Update, Edited
  <2>3. p \in cluster /\ Key(p) = Key(o) /\ p \in Objects
    <3>1. p \in cluster /\ Key(p) = Key(o)
      BY DEF At
    <3>2. p.kind = o.kind
      BY <3>1 DEF Key
    <3> QED
      BY <1>3, <3>1, <3>2 DEF ListersOK, ApiObjects, GlobalConfigurationObjects
  <2>4. ASSUME NEW S, Older(S) PROVE Generations(S, cluster' \cap Objects)
    <3>1. \A q \in S : Key(q) = Key(o) => q.generation <= o.generation
      <4>1. \A q \in S : Key(q) = Key(o) => q.generation <= p.generation
        BY <2>3, <2>4 DEF Generations
      <4> QED
        BY <1>3, <2>1, <2>3, <2>4, <4>1
    <3> QED
      BY <2>2, <2>4, <3>1 DEF Generations
  <2>5. \A q \in cluster' \cap Objects : q.uid \in used'
    BY <2>1, <2>2, <2>3 DEF ForwardOK
  <2> QED
    BY <1>5, <2>2, <2>4, <2>5
<1>8. ASSUME cluster' \cap Objects \subseteq cluster \cap Objects, used' = used PROVE ForwardOK'
  BY <1>5, <1>8 DEF Generations, ForwardOK
<1>9. ASSUME NEW gc \in GlobalConfigurationObjects, EditGlobalConfiguration(gc) PROVE ForwardOK'
  <2>1. gc \notin Objects
    BY <1>3 DEF GlobalConfigurationObjects
  <2> QED
    BY <1>8, <1>9, <2>1 DEF EditGlobalConfiguration, Edited
<1>10. ASSUME NEW key, Delete(key) PROVE ForwardOK'
  BY <1>8, <1>10 DEF Delete, Edited
<1> QED
  BY <1>6, <1>7, <1>9, <1>10 DEF Edit

\* The listers take over what the API server has, the Configuration what a
\* lister has.
LEMMA ForwardStep ==
  ASSUME NamesKept, StoresOK, ListersOK, WorkerOK, ForwardOK, [AllNext]_allVars
  PROVE  ForwardOK'
<1> DEFINE L == lister \cap Objects
           C == cluster \cap Objects
<1>1. Generations(L, L) /\ Generations(C, C)
  BY GenerationsRefl DEF ListersOK, Unique
<1>2. /\ Generations(Stored, L) /\ Generations(Stored, C) /\ Generations(L, C)
      /\ \A o \in Stored \cup L \cup C : o.uid \in used
  BY DEF ForwardOK
<1>3. ASSUME UNCHANGED <<cluster, used>>, lister' \cap Objects \subseteq L \cup C, Stored' = Stored
      PROVE  ForwardOK'
  <2> DEFINE M == lister' \cap Objects
  <2>1. Generations(Stored, M) /\ Generations(M, C)
    BY <1>1, <1>2, <1>3 DEF Generations
  <2>2. \A o \in M : o.uid \in used
    BY <1>2, <1>3
  <2> QED
    BY <1>2, <1>3, <2>1, <2>2 DEF ForwardOK
<1>4. ASSUME UNCHANGED <<cluster, used, lister>>, Stored' \subseteq Stored \cup L
      PROVE  ForwardOK'
  <2>1. Generations(Stored', L) /\ Generations(Stored', C)
    BY <1>1, <1>2, <1>4 DEF Generations
  <2>2. \A o \in Stored' : o.uid \in used
    BY <1>2, <1>4
  <2> QED
    BY <1>2, <1>4, <2>1, <2>2 DEF ForwardOK
<1> HIDE DEF L, C
<1>5. CASE UNCHANGED <<vars, api, lister>>
  <2>1. Stored' = Stored
    BY <1>5 DEF vars, objects, Stored
  <2> QED
    BY <1>4, <1>5, <2>1 DEF api
<1>6. ASSUME NEW key \in Keys, Observe(key) PROVE ForwardOK'
  <2>1. lister' = (lister \ At(lister, key)) \cup At(cluster, key) /\ UNCHANGED <<vars, cluster, used>>
    BY <1>6 DEF Observe, api
  <2>2. lister' \cap Objects \subseteq L \cup C
    BY <2>1 DEF At, L, C
  <2>3. Stored' = Stored
    BY <2>1 DEF vars, objects, Stored
  <2> QED
    BY <1>3, <2>1, <2>2, <2>3
<1>7. CASE SyncGlobalConfiguration
  BY <1>4, <1>7, SyncListeners DEF SyncGlobalConfiguration, Synced, api
<1>8. CASE SyncIngress \/ SyncVirtualServer \/ SyncVirtualServerRoute \/ SyncTransportServer
  <2>1. OnlyCurrent(Stored, Stored') /\ current # GlobalConfigurationKey
    BY <1>8, SyncStored
  <2>2. UNCHANGED <<cluster, used, lister>>
    BY <1>8 DEF SyncIngress, SyncVirtualServer, SyncVirtualServerRoute, SyncTransportServer, Synced, api
  <2>3. AcceptedAt(current) \subseteq L
    BY <2>1 DEF AcceptedAt, At, L, ListersOK, ApiObjects, GlobalConfigurationObjects, Key,
      GlobalConfigurationKey
  <2>4. Stored' \subseteq Stored \cup L
    BY <2>1, <2>3 DEF OnlyCurrent, LikeBut, At
  <2> QED
    BY <1>4, <2>2, <2>4
<1>9. CASE GetTask \/ ProcessChange \/ UpdateTransportServers \/ ReloadTransportServers \/ FinishSync
  BY <1>5, <1>9 DEF GetTask, ProcessChange, UpdateTransportServers, ReloadTransportServers, FinishSync
<1>10. CASE UNCHANGED allVars
  BY <1>5, <1>10 DEF allVars
<1> QED
  BY <1>6, <1>7, <1>8, <1>9, <1>10, EditForward DEF AllNext, Work

LEMMA ForwardInvariant ==
  ASSUME NamesKept
  PROVE  AllSpec => []ForwardOK
<1>1. AllInit => ForwardOK
  BY DEF AllInit, Init, Stored, ForwardOK, Generations
<1>2. StoresOK /\ ListersOK /\ WorkerOK /\ ForwardOK /\ [AllNext]_allVars => ForwardOK'
  BY ForwardStep
<1> QED
  BY <1>1, <1>2, ListersInvariant, WorkerInvariant, ControllerRefinesConfiguration,
     StoresInvariant, PTL DEF AllSpec

\* The owner of a listener is stored, and was in a lister if it was not stored.
LEMMA NewlyStored ==
  ASSUME StoresOK, ListersOK, WorkerOK, [AllNext]_allVars, NEW o \in Stored', o \notin Stored
  PROVE  o \in lister
<1>1. Stored' # Stored
  OBVIOUS
<1>2. CASE SyncIngress \/ SyncVirtualServer \/ SyncVirtualServerRoute \/ SyncTransportServer
  <2>1. OnlyCurrent(Stored, Stored')
    BY <1>2, SyncStored
  <2> QED
    BY <2>1 DEF OnlyCurrent, LikeBut, At, AcceptedAt
<1>3. CASE SyncGlobalConfiguration
  BY <1>1, <1>3, SyncListeners
<1>4. CASE UNCHANGED vars
  BY <1>1, <1>4 DEF vars, objects, Stored
<1> QED
  BY <1>2, <1>3, <1>4 DEF AllNext, Work, allVars, Edit, Create, Update, EditGlobalConfiguration, Delete,
    Edited, Observe, GetTask, ProcessChange, UpdateTransportServers, ReloadTransportServers, FinishSync

LEMMA OwnersStayStep ==
  ASSUME PassthroughKept, StoresOK, StoresOK', ListersOK, WorkerOK, ForwardOK, Maps, Maps',
         ServedStored, ServedStored', [AllNext]_allVars
  PROVE  HostOwnersStay
<1> SUFFICES ASSUME NEW h \in DOMAIN hosts, NEW l \in DOMAIN listeners',
                    ResourceKey(hosts[h]) = ResourceKey(listeners'[l])
             PROVE  FALSE
  BY DEF HostOwnersStay
<1> DEFINE a == hosts[h].obj
           b == listeners'[l].obj
<1>1. Key(a) = Key(b)
  BY DEF ResourceKey
<1>2. /\ b \in TransportServers /\ Accepted(b) /\ b.listener.protocol # TLSPassthrough
      /\ b.kind = "TransportServer"
  <2>1. Shaped(listeners'[l]) /\ b \in TransportServers /\ b.listener.protocol # TLSPassthrough
    BY DEF Maps, ListenerMap
  <2> QED
    BY <2>1, ObjectsAssumption DEF Shaped, AcceptedObjects
<1>3. /\ a \in TransportServers /\ Accepted(a) /\ a.listener.protocol = TLSPassthrough
  <2>1. Shaped(hosts[h]) /\ h \in a.hosts
    BY DEF Maps, HostMap
  <2>2. a.kind = "TransportServer"
    BY <1>1, <1>2 DEF Key
  <2>3. a \in TransportServers /\ Accepted(a)
    BY <2>1, <2>2, ObjectsAssumption DEF Shaped, AcceptedObjects, Objects
  <2> QED
    BY <2>1, <2>3, ValidationAssumption DEF Accepted
<1>4. a \in Stored
  BY InServiceElement DEF ServedStored
<1>5. b \in Stored'
  BY DEF ServedStored, InService
<1>6. b \notin Stored
  BY <1>1, <1>2, <1>3, <1>4, StoredKinds
<1>7. b \in lister \cap Objects
  BY <1>2, <1>5, <1>6, NewlyStored DEF Objects
<1>8. a.generation <= b.generation
  BY <1>1, <1>4, <1>7 DEF ForwardOK, Generations
<1> QED
  BY <1>1, <1>2, <1>3, <1>8 DEF PassthroughKept

\* Where no name is used again and TLS passthrough is not given up, the
\* informers, the queue and the worker never present the Configuration with a
\* TransportServer that turns from the owner of a host into one of a listener.
THEOREM HostOwnersStayInvariant ==
  ASSUME NamesKept, PassthroughKept
  PROVE  AllSpec => [][HostOwnersStay]_vars
<1>1. StoresOK /\ StoresOK' /\ ListersOK /\ WorkerOK /\ ForwardOK /\ Maps /\ Maps'
        /\ ServedStored /\ ServedStored' /\ [AllNext]_allVars => [HostOwnersStay]_vars
  BY OwnersStayStep
<1> QED
  BY <1>1, ListersInvariant, WorkerInvariant, ForwardInvariant, ControllerRefinesConfiguration,
     InStepInvariant, MapsNow, ServedStoredNow, PTL DEF AllSpec

-----------------------------------------------------------------------------
(* End to end *)

\* The objects in the API server that ask for a host.
ClaimantsInCluster(h) ==
  {o \in cluster : /\ o.kind # "GlobalConfiguration" /\ o.kind # "VirtualServerRoute"
                   /\ Accepted(o) /\ ~IsMinion(o) /\ h \in o.hosts}

LEMMA ClaimantsSynced ==
  ASSUME StoresOK, ListersOK, SyncedUp, NEW h
  PROVE  /\ \A o \in ClaimantsInCluster(h) : o \in Objects /\ \E p \in HostClaimants(h) : Same(o, p)
         /\ \A p \in HostClaimants(h) : \E o \in ClaimantsInCluster(h) : Same(o, p)
<1>1. ASSUME NEW o \in ClaimantsInCluster(h) PROVE o \in Objects /\ \E p \in HostClaimants(h) : Same(o, p)
  <2>1. o \in Objects /\ Accepted(o) /\ o.kind # "VirtualServerRoute" /\ ~IsMinion(o) /\ h \in o.hosts
    BY DEF ClaimantsInCluster, ListersOK, ApiObjects, GlobalConfigurationObjects
  <2>2. PICK p \in Stored : Same(o, p)
    BY <2>1 DEF SyncedUp, ClaimantsInCluster
  <2>3. Accepted(p) /\ p.kind # "VirtualServerRoute" /\ ~IsMinion(p) /\ h \in p.hosts
    BY <2>1, <2>2, SameFields DEF IsMinion
  <2>4. p \in transportServers => IsTLSPassthroughEnabled /\ p.listener.protocol = TLSPassthrough
    BY <2>3, ValidationAssumption DEF StoresOK, Accepted
  <2>5. p \in HostObjects
    BY <2>3, <2>4, StoredKinds DEF HostObjects, Stored
  <2> QED
    BY <2>1, <2>2, <2>3, <2>5 DEF HostClaimants
<1>2. ASSUME NEW p \in HostClaimants(h) PROVE \E o \in ClaimantsInCluster(h) : Same(o, p)
  <2>1. p \in HostObjects /\ h \in p.hosts /\ p \in Stored
    BY StoredKinds DEF HostClaimants
  <2>2. PICK o \in cluster \cap Objects : Accepted(o) /\ Same(o, p)
    BY <2>1 DEF SyncedUp
  <2>3. p.kind # "GlobalConfiguration" /\ p.kind # "VirtualServerRoute" /\ ~IsMinion(p)
    BY <2>1, StoredKinds, ObjectsAssumption DEF HostObjects, IsMinion, StoresOK, Objects
  <2>4. o.kind = p.kind /\ (IsMinion(o) <=> IsMinion(p)) /\ o.hosts = p.hosts
    BY <2>2, SameFields DEF IsMinion
  <2> QED
    BY <2>1, <2>2, <2>3, <2>4 DEF ClaimantsInCluster
<1> QED
  BY <1>1, <1>2

LEMMA SameSenior ==
  ASSUME NEW o, NEW p, NEW q, NEW r, Same(o, p), Same(q, r), Senior(p, r)
  PROVE  Senior(o, q)
BY SameFields DEF Senior

LEMMA OwnedHosts ==
  ASSUME StoresOK, ListersOK, SyncedUp, HostOwnership, NEW h
  PROVE  h \in DOMAIN hosts <=> ClaimantsInCluster(h) # {}
<1>1. h \in DOMAIN hosts <=> HostClaimants(h) # {}
  BY DEF HostOwnership, HostClaimants
<1> QED
  BY <1>1, ClaimantsSynced

LEMMA ServesSenior ==
  ASSUME StoresOK, ListersOK, Maps, HostOwnership, SyncedUp, running = Files(hosts, listeners)
  PROVE  NginxServesSenior
<1> DEFINE Hosts == UNION {o.hosts : o \in cluster \cap Objects}
           Bound == {b \in UNION {Binds(f) : f \in running} : b[1] = "host"}
<1>1. \A f : f \in running <=> \/ \E h \in DOMAIN hosts : f = Content(hosts[h])
                               \/ \E l \in DOMAIN listeners : f = Content(listeners[l])
  BY FilesSplit, FilesOfElement
<1>2. \A f \in running : \A g : <<"host", g>> \in Binds(f) =>
        \E h \in DOMAIN hosts : f = Content(hosts[h]) /\ g \in hosts[h].obj.hosts
                                /\ ResourceKey(hosts[g]) = ResourceKey(hosts[h])
  <2> SUFFICES ASSUME NEW f \in running, NEW g, <<"host", g>> \in Binds(f)
               PROVE  \E h \in DOMAIN hosts : f = Content(hosts[h]) /\ g \in hosts[h].obj.hosts
                                /\ ResourceKey(hosts[g]) = ResourceKey(hosts[h])
    OBVIOUS
  <2>1. ASSUME NEW l \in DOMAIN listeners PROVE f # Content(listeners[l])
    BY ListenerBinds
  <2>2. PICK h \in DOMAIN hosts : f = Content(hosts[h])
    BY <1>1, <2>1
  <2> QED
    BY <2>2, HostBinds
<1>3. \A b : b \in Bound <=> \E h \in DOMAIN hosts : b = <<"host", h>>
  <2>1. ASSUME NEW b \in Bound PROVE \E h \in DOMAIN hosts : b = <<"host", h>>
    <3>1. PICK f \in running : b \in Binds(f)
      OBVIOUS
    <3>2. \E g : b = <<"host", g>>
      <4>1. ASSUME NEW l \in DOMAIN listeners PROVE f # Content(listeners[l])
        <5>1. b[1] = "host"
          OBVIOUS
        <5> QED
          BY <3>1, <5>1, ListenerBinds
      <4> QED
        BY <1>1, <3>1, <4>1, HostBinds
    <3>3. PICK g : b = <<"host", g>>
      BY <3>2
    <3>4. PICK h \in DOMAIN hosts : g \in hosts[h].obj.hosts
      BY <1>2, <3>1, <3>3
    <3>5. g \in DOMAIN hosts
      BY <3>4 DEF Maps, HostMap
    <3> QED
      BY <3>3, <3>5
  <2>2. ASSUME NEW h \in DOMAIN hosts PROVE <<"host", h>> \in Bound
    <3>1. <<"host", h>> \in Binds(Content(hosts[h]))
      BY HostBinds DEF Maps, HostMap
    <3>2. Content(hosts[h]) \in running
      BY <1>1
    <3> QED
      BY <3>1, <3>2
  <2> QED
    BY <2>1, <2>2
<1>4. \A h : h \in DOMAIN hosts <=> h \in {g \in Hosts : ClaimantsInCluster(g) # {}}
  <2>1. \A h : h \in DOMAIN hosts <=> ClaimantsInCluster(h) # {}
    BY OwnedHosts
  <2>2. \A h : ClaimantsInCluster(h) # {} => h \in Hosts
    BY ClaimantsSynced DEF ClaimantsInCluster
  <2> QED
    BY <2>1, <2>2
<1>5. Bound = {<<"host", h>> : h \in {g \in Hosts : ClaimantsInCluster(g) # {}}}
  <2> DEFINE D == {g \in Hosts : ClaimantsInCluster(g) # {}}
  <2>1. D = DOMAIN hosts
    BY <1>4
  <2> HIDE DEF D, Bound
  <2>2. Bound = {<<"host", h>> : h \in D}
    BY <1>3, <2>1
  <2> QED
    BY <2>2 DEF D
<1>6. ASSUME NEW h, NEW f \in running, <<"host", h>> \in Binds(f)
      PROVE  \E o \in ClaimantsInCluster(h) :
               f.key = Key(o) /\ \A p \in ClaimantsInCluster(h) \ {o} : Senior(o, p)
  <2>1. PICK k \in DOMAIN hosts : f = Content(hosts[k]) /\ h \in hosts[k].obj.hosts
                                  /\ ResourceKey(hosts[h]) = ResourceKey(hosts[k])
    BY <1>2, <1>6
  <2>2. h \in DOMAIN hosts
    BY <2>1 DEF Maps, HostMap
  <2> DEFINE w == hosts[h].obj
  <2>3. w \in HostClaimants(h) /\ \A p \in HostClaimants(h) \ {w} : Senior(w, p)
    BY <2>2 DEF HostOwnership
  <2>4. PICK o \in ClaimantsInCluster(h) : Same(o, w)
    BY <2>3, ClaimantsSynced
  <2>5. f.key = Key(o)
    BY <2>1, <2>4, ContentKey, SameFields DEF ResourceKey
  <2>6. ASSUME NEW p \in ClaimantsInCluster(h) \ {o} PROVE Senior(o, p)
    <3>1. PICK q \in HostClaimants(h) : Same(p, q)
      BY ClaimantsSynced
    <3>2. q # w
      <4>1. Key(p) # Key(o)
        BY DEF ListersOK, Unique, ClaimantsInCluster
      <4> QED
        BY <2>4, <3>1, <4>1, SameFields
    <3> QED
      BY <2>3, <2>4, <3>1, <3>2, SameSenior
  <2> QED
    BY <2>5, <2>6
<1> HIDE DEF Hosts, Bound
<1> QED
  BY <1>5, <1>6 DEF NginxServesSenior, ClaimantsInCluster, Hosts, Bound

\* The TransportServers in the API server, and those stored, that ask for a
\* listener with its protocol.
FitsInCluster(l) ==
  {o \in cluster \cap TransportServers :
     Accepted(o) /\ o.listener = [name |-> l.name, protocol |-> l.protocol]}
FitsStored(l) ==
  {ts \in transportServers : ts.listener = [name |-> l.name, protocol |-> l.protocol]}

LEMMA FitsSynced ==
  ASSUME StoresOK, SyncedUp, NEW l
  PROVE  /\ \A o \in FitsInCluster(l) : \E p \in FitsStored(l) : Same(o, p)
         /\ \A p \in FitsStored(l) : \E o \in FitsInCluster(l) : Same(o, p)
<1>1. ASSUME NEW o \in FitsInCluster(l) PROVE \E p \in FitsStored(l) : Same(o, p)
  <2>1. o \in cluster \cap Objects /\ Accepted(o) /\ o.kind = "TransportServer"
    BY ObjectsAssumption DEF FitsInCluster, Objects
  <2>2. PICK p \in Stored : Same(o, p)
    BY <2>1 DEF SyncedUp
  <2>3. p.kind = "TransportServer" /\ p.listener = o.listener
    BY <2>1, <2>2, SameFields
  <2>4. p \in transportServers
    BY <2>3, StoredKinds DEF Stored
  <2> QED
    BY <2>2, <2>3, <2>4 DEF FitsInCluster, FitsStored
<1>2. ASSUME NEW p \in FitsStored(l) PROVE \E o \in FitsInCluster(l) : Same(o, p)
  <2>1. p \in Stored /\ p.kind = "TransportServer"
    BY StoredKinds DEF FitsStored, Stored
  <2>2. PICK o \in cluster \cap Objects : Accepted(o) /\ Same(o, p)
    BY <2>1 DEF SyncedUp
  <2>3. o.kind = "TransportServer" /\ o.listener = p.listener
    BY <2>1, <2>2, SameFields
  <2>4. o \in TransportServers
    BY <2>3, ObjectsAssumption DEF Objects
  <2> QED
    BY <2>2, <2>3, <2>4 DEF FitsInCluster, FitsStored
<1> QED
  BY <1>1, <1>2

\* ListenerOwnership, without its local definitions.
LEMMA OwnedListeners ==
  ASSUME ListenerOwnership
  PROVE  /\ \A k : k \in DOMAIN listeners <=>
              \E l \in globalConfiguration : k = l.name /\ FitsStored(l) # {}
         /\ \A l \in globalConfiguration : l.name \in DOMAIN listeners =>
              LET owner == listeners[l.name].obj
              IN /\ owner \in FitsStored(l) /\ listeners[l.name].port = l.port
                 /\ \A ts \in FitsStored(l) \ {owner} : Senior(owner, ts)
<1>1. \A k : k \in DOMAIN listeners <=>
        \E l \in globalConfiguration : k = l.name /\ FitsStored(l) # {}
  BY DEF ListenerOwnership, FitsStored
<1>2. ASSUME NEW l \in globalConfiguration, l.name \in DOMAIN listeners
      PROVE  LET owner == listeners[l.name].obj
             IN /\ owner \in FitsStored(l) /\ listeners[l.name].port = l.port
                /\ \A ts \in FitsStored(l) \ {owner} : Senior(owner, ts)
  BY <1>2 DEF ListenerOwnership, FitsStored
<1> QED
  BY <1>1, <1>2

LEMMA ServesListeners ==
  ASSUME StoresOK, ListersOK, Maps, ListenerOwnership, SyncedUp, running = Files(hosts, listeners)
  PROVE  NginxServesListeners
<1> DEFINE gc == ListenersIn(cluster)
<1>1. \A f : f \in running <=> \/ \E h \in DOMAIN hosts : f = Content(hosts[h])
                               \/ \E l \in DOMAIN listeners : f = Content(listeners[l])
  BY FilesSplit, FilesOfElement
<1>2. gc = globalConfiguration
  BY DEF SyncedUp
<1> HIDE DEF gc
<1>3. ASSUME NEW l \in gc, FitsInCluster(l) # {}
      PROVE  \E f \in running : /\ <<"listener", l.name>> \in Binds(f) /\ f.port = l.port
                                /\ \E o \in FitsInCluster(l) :
                                     /\ f.key = Key(o)
                                     /\ \A p \in FitsInCluster(l) \ {o} : Senior(o, p)
  <2>1. l.name \in DOMAIN listeners
    BY <1>2, <1>3, FitsSynced, OwnedListeners
  <2> DEFINE w == listeners[l.name].obj
             f == Content(listeners[l.name])
  <2>2. /\ w \in FitsStored(l) /\ listeners[l.name].port = l.port
        /\ \A ts \in FitsStored(l) \ {w} : Senior(w, ts)
    BY <1>2, <2>1, OwnedListeners
  <2>3. f \in running /\ <<"listener", l.name>> \in Binds(f) /\ f.port = l.port /\ f.key = Key(w)
    BY <1>1, <2>1, <2>2, ListenerBinds, ContentFields
  <2>4. PICK o \in FitsInCluster(l) : Same(o, w)
    BY <2>2, FitsSynced
  <2>5. Key(o) = Key(w)
    BY <2>4, SameFields
  <2>6. ASSUME NEW p \in FitsInCluster(l) \ {o} PROVE Senior(o, p)
    <3>1. PICK q \in FitsStored(l) : Same(p, q)
      BY FitsSynced
    <3>2. q # w
      <4>1. Key(p) # Key(o)
        BY DEF ListersOK, Unique, FitsInCluster
      <4> QED
        BY <2>5, <3>1, <4>1, SameFields
    <3> QED
      BY <2>2, <2>4, <3>1, <3>2, SameSenior
  <2> QED
    BY <2>3, <2>5, <2>6
<1>4. ASSUME NEW f \in running, NEW b \in Binds(f), b[1] = "listener"
      PROVE  \E l \in gc : b[2] = l.name /\ FitsInCluster(l) # {}
  <2>1. ASSUME NEW h \in DOMAIN hosts PROVE f # Content(hosts[h])
    BY <1>4, HostBinds
  <2>2. PICK k \in DOMAIN listeners : f = Content(listeners[k])
    BY <1>1, <2>1
  <2>3. b = <<"listener", k>>
    BY <2>2, ListenerBinds
  <2>4. PICK l \in globalConfiguration : k = l.name /\ FitsStored(l) # {}
    BY OwnedListeners
  <2> QED
    BY <1>2, <2>3, <2>4, FitsSynced
<1> QED
  BY <1>3, <1>4 DEF NginxServesListeners, FitsInCluster, gc, ListenersIn

LEMMA EndToEnd ==
  ASSUME StoresOK, ListersOK, WorkerOK, LoadedOK, FilesOK, Maps, RunningOK,
         HostOwnership, ListenerOwnership
  PROVE  NginxServesSenior /\ NginxServesListeners
<1>1. CASE Quiescent /\ failures = 0
  <2>1. SyncedUp
    BY <1>1, QuiescentSynced
  <2>2. running = Files(hosts, listeners)
    BY <1>1 DEF Quiescent, RunningOK, FilesOK
  <2> QED
    BY <2>1, <2>2, ServesSenior, ServesListeners
<1>2. CASE ~(Quiescent /\ failures = 0)
  BY <1>2 DEF NginxServesSenior, NginxServesListeners
<1> QED
  BY <1>1, <1>2

\* NginxServesSenior holds for any objects and edits: once everything is synced,
\* NGINX serves each host from the senior object in the API server that asks for
\* it and binds no other host, although syncs coalesce edits, and the handlers
\* ignore the updates that they take for irrelevant.
THEOREM NginxServesSeniorInvariant ==
  ASSUME VersionsTold, NamesKept, PassthroughKept
  PROVE  AllSpec => []NginxServesSenior
BY EndToEnd, HostOwnersStayInvariant, ListersInvariant, WorkerInvariant, LoadedInvariant, FilesInvariant, RunningInvariant,
   ControllerRefinesConfiguration, StoresInvariant, HostOwnershipInvariant,
   ListenerOwnershipInvariant, PTL

\* NginxServesListeners, likewise: each listener of the GlobalConfiguration in the
\* API server is bound on its port by the senior TransportServer that fits it.
THEOREM NginxServesListenersInvariant ==
  ASSUME VersionsTold, NamesKept, PassthroughKept
  PROVE  AllSpec => []NginxServesListeners
BY EndToEnd, HostOwnersStayInvariant, ListersInvariant, WorkerInvariant, LoadedInvariant, FilesInvariant, RunningInvariant,
   ControllerRefinesConfiguration, StoresInvariant, HostOwnershipInvariant,
   ListenerOwnershipInvariant, PTL

-----------------------------------------------------------------------------
(* The state that an object should be shown in *)

HostWarnings(o) == UNION {hosts[h].warnings : h \in {g \in DOMAIN hosts : hosts[g].obj = o}}

State(o) == IF o \in InService /\ HostWarnings(o) = {} THEN "Valid" ELSE "Warning"

\* It is the one reported with the resource that it owns a host or a listener
\* with or is attached to.
StatesShown ==
  /\ \A r \in AllOwners : r.obj \in InService /\ State(r.obj) = StateAfter(r.warnings, TRUE)
  /\ \A r \in AllOwners : \A o \in ToSet(r.attached) :
       o \in InService /\ (o.kind # "Ingress" => o.kind = "VirtualServerRoute" /\ State(o) = "Valid")
  /\ \A o \in InService : \E r \in AllOwners : o = r.obj \/ o \in ToSet(r.attached)
  /\ ServedStored

LEMMA StatesShownNow == StoresOK /\ StoresFinite /\ InStep => StatesShown
<1> SUFFICES ASSUME StoresOK, StoresFinite, InStep PROVE StatesShown
  OBVIOUS
<1>1. Maps /\ WarningsOK /\ ServedStored
  BY MapsNow, WarningsNow, ServedStoredNow
<1>2. \A r \in AllOwners : (\E h \in DOMAIN hosts : r = hosts[h]) \/ (\E l \in DOMAIN listeners : r = listeners[l])
  BY DEF AllOwners, Owners
<1>3. \A r \in AllOwners : r.obj \in InService
  BY <1>2, InServiceElement
<1>4. ASSUME NEW o, HostWarnings(o) = {}, o \in InService PROVE State(o) = StateAfter({}, TRUE)
  BY <1>4 DEF State, StateAfter
<1>5. ASSUME NEW h \in DOMAIN hosts PROVE State(hosts[h].obj) = StateAfter(hosts[h].warnings, TRUE)
  <2> DEFINE o == hosts[h].obj
             G == {g \in DOMAIN hosts : hosts[g].obj = o}
  <2>1. \A g \in G : hosts[g] = hosts[h]
    BY <1>1 DEF Maps, HostMap, OneResourcePerKey, ResourceKey
  <2>2. h \in G
    OBVIOUS
  <2>3. HostWarnings(o) = UNION {hosts[g].warnings : g \in G}
    BY DEF HostWarnings
  <2> HIDE DEF G
  <2>4. HostWarnings(o) = hosts[h].warnings
    BY <2>1, <2>2, <2>3
  <2>5. o \in InService
    BY InServiceElement
  <2> QED
    BY <2>4, <2>5 DEF State, StateAfter
<1>6. ASSUME NEW l \in DOMAIN listeners PROVE State(listeners[l].obj) = StateAfter(listeners[l].warnings, TRUE)
  <2>1. \A g \in DOMAIN hosts : hosts[g].obj # listeners[l].obj
    BY <1>1 DEF Maps, ResourceKey
  <2>2. HostWarnings(listeners[l].obj) = {}
    BY <2>1 DEF HostWarnings
  <2>3. listeners[l].obj \in InService /\ listeners[l].warnings = {}
    BY <1>1, InServiceElement DEF WarningsOK
  <2> QED
    BY <1>4, <2>2, <2>3
<1>7. ASSUME NEW r \in AllOwners, NEW o \in ToSet(r.attached)
      PROVE  o \in InService /\ (o.kind # "Ingress" => o.kind = "VirtualServerRoute" /\ State(o) = "Valid")
  <2>1. PICK h \in DOMAIN hosts : r = hosts[h]
    BY <1>1, <1>2 DEF WarningsOK
  <2>2. o \in InService
    BY <2>1, InServiceElement
  <2>3. o \in ingresses \/ o \in virtualServerRoutes
    <3> DEFINE p == hosts[h].obj
    <3>1. p.kind \in {"Ingress", "VirtualServer", "TransportServer"}
      BY AttachedOK
    <3>2. CASE p.kind = "Ingress"
      <4>1. ToSet(hosts[h].attached) = MinionsFor(p)
        BY <3>2, AttachedOK
      <4> QED
        BY <2>1, <4>1, MinionsOK
    <3>3. CASE p.kind = "VirtualServer"
      <4>1. ToSet(hosts[h].attached) = Targets(p)
        BY <3>3, AttachedOK
      <4>2. Targets(p) \subseteq virtualServerRoutes
        BY DEF Targets, RouteTarget
      <4> QED
        BY <2>1, <4>1, <4>2
    <3>4. CASE p.kind = "TransportServer"
      <4>1. ToSet(hosts[h].attached) = {}
        BY <3>4, AttachedOK
      <4> QED
        BY <2>1, <4>1
    <3> QED
      BY <3>1, <3>2, <3>3, <3>4
  <2>4. CASE o.kind # "Ingress"
    <3>1. o \in VirtualServerRoutes /\ o.kind = "VirtualServerRoute"
      BY <2>3, <2>4, StoredKinds DEF StoresOK
    <3>2. ASSUME NEW g \in DOMAIN hosts
          PROVE  hosts[g].obj # o
      <4>1. HostMap(hosts)
        BY <1>1 DEF Maps
      <4>2. Shaped(hosts[g])
        BY <4>1 DEF HostMap
      <4>3. hosts[g].obj \notin VirtualServerRoutes
        BY <4>2 DEF Shaped
      <4> QED
        BY <3>1, <4>3
    <3>3. HostWarnings(o) = {}
      BY <3>2 DEF HostWarnings
    <3> QED
      BY <2>2, <3>1, <3>3 DEF State
  <2> QED
    BY <2>2, <2>4
<1>8. \A o \in InService : \E r \in AllOwners : o = r.obj \/ o \in ToSet(r.attached)
  BY InServiceElement DEF AllOwners, Owners
<1> QED
  BY <1>1, <1>2, <1>3, <1>5, <1>6, <1>7, <1>8 DEF StatesShown

\* What is proved of a Configuration in step holds before and after a step.
InOrder ==
  /\ StoresOK /\ StoresFinite /\ InStep
  /\ Maps /\ WarningsOK /\ ProblemsStored /\ NothingDropped /\ StatesShown

LEMMA InOrderNow == StoresOK /\ StoresFinite /\ InStep => InOrder
BY MapsNow, WarningsNow, ProblemsStoredNow, NothingDroppedNow, StatesShownNow DEF InOrder

LEMMA InOrderInvariant == AllSpec => []InOrder
BY InOrderNow, InStepInvariant, ControllerRefinesConfiguration, PTL

-----------------------------------------------------------------------------
(* What is still to be reported *)

Reported(r) == {ResourceKey(r)} \cup {Key(o) : o \in ToSet(r.attached)}

\* The worker has yet to report the state of the change at i.  The states of the
\* changes of a GlobalConfiguration are reported after its reload.
Ahead(i) ==
  i >= cursor \/ (current = GlobalConfigurationKey /\ cursor <= Len(changes) + 1)

DueUpdate(k) ==
  /\ worker = "changes"
  /\ \E i \in DOMAIN Order : Order[i].op = "AddOrUpdate" /\ k \in Reported(Order[i].resource) /\ Ahead(i)
DueProblem(k) == worker = "changes" /\ \E p \in problems : p.key = k

\* What the changes and the problems of the current task are about.
PlanOK ==
  worker = "changes" =>
    /\ ToSet(Order) = ToSet(changes)
    /\ \A c \in ToSet(changes) :
         /\ c.op = "AddOrUpdate" => c.resource \in AllOwners
         /\ c.op = "AddOrUpdate" /\ current = GlobalConfigurationKey => ToSet(c.resource.attached) = {}
         /\ c.op = "Delete" => \A o \in Stored \ InService : Key(o) = KeyOf(c) => DueProblem(Key(o))
    /\ \A p \in problems : \/ p.isError /\ \A o \in Stored : Key(o) # p.key
                           \/ ~p.isError /\ \E o \in Stored \ InService : p.key = Key(o)

\* The two answers a sync may get.
LEMMA SyncAnswer ==
  ASSUME ListersOK, WorkerOK, Maps, Maps',
         SyncIngress \/ SyncVirtualServer \/ SyncVirtualServerRoute
           \/ SyncTransportServer \/ SyncGlobalConfiguration
  PROVE  \E cs \in Seq(ChangeSet(ResourcesAbout)) : \E ps \in SUBSET (hostProblems' \cup listenerProblems') :
           /\ Respond(cs, ps) \/ \E o \in At(lister, current) : RespondTo(o, cs, ps)
           /\ current # GlobalConfigurationKey =>
                \A o \in At(lister, current) : RespondTo(o, cs, ps)
           /\ current = GlobalConfigurationKey => Respond(cs, ps)
<1> DEFINE R == ResourcesAbout
           P == hostProblems' \cup listenerProblems'
           Good(cs, ps) == cs \in Seq(ChangeSet(R)) /\ ps \in SUBSET P
           Answer(cs, ps) == /\ Respond(cs, ps) \/ \E o \in At(lister, current) : RespondTo(o, cs, ps)
                             /\ current # GlobalConfigurationKey => \A o \in At(lister, current) : RespondTo(o, cs, ps)
                             /\ current = GlobalConfigurationKey => Respond(cs, ps)
<1>1. /\ Owners(hosts) \subseteq R /\ NewResources' \subseteq R
      /\ Owners(listeners) \subseteq R /\ Owners(listeners') \subseteq R
  BY DEF ResourcesAbout
<1> HIDE DEF R
<1>2. HostChanges \in Seq(ChangeSet(R)) /\ ListenerChanges \in Seq(ChangeSet(R))
  BY <1>1, HostChangesOK, ListenerChangesOK DEF Maps
<1>3. ListenerChanges \o HostChanges \in Seq(ChangeSet(R)) /\ ListenerChanges \o <<>> \in Seq(ChangeSet(R))
  BY <1>2, ConcatElements, ConcatEmptySeq
<1>4. NewProblemsOfHosts \subseteq P /\ NewProblemsOfListeners \subseteq P
  BY DEF NewProblemsOfHosts, NewProblemsOfListeners
<1>5. /\ Good(<<>>, {}) /\ Good(HostChanges, NewProblemsOfHosts)
      /\ Good(ListenerChanges, NewProblemsOfListeners)
      /\ Good(TransportServerChanges, TransportServerProblems)
  BY <1>2, <1>3, <1>4 DEF TransportServerChanges, TransportServerProblems
<1> HIDE DEF Good
<1>6. ASSUME NEW o \in At(lister, current), NEW cs, NEW ps, RespondTo(o, cs, ps), current # GlobalConfigurationKey
      PROVE  Answer(cs, ps)
  <2>1. \A p \in At(lister, current) : p = o
    BY DEF ListersOK, Unique, At
  <2> QED
    BY <1>6, <2>1
<1>7. ASSUME NEW cs, NEW ps, Respond(cs, ps), ~Exists(lister, current) \/ current = GlobalConfigurationKey
      PROVE  Answer(cs, ps)
  BY <1>7 DEF Exists
<1>8. ASSUME NEW k, NEW S, NothingToDelete(k, S) PROVE Respond(<<>>, {})
  BY <1>8 DEF NothingToDelete
<1> HIDE DEF Answer
<1>9. \E cs, ps : Good(cs, ps) /\ Answer(cs, ps)
  <2>1. CASE SyncIngress
    <3>1. current # GlobalConfigurationKey
      BY <2>1 DEF SyncIngress, GlobalConfigurationKey
    <3> QED
      BY <1>5, <1>6, <1>7, <1>8, <2>1, <3>1 DEF SyncIngress, AddOrUpdateIngress, DeleteIngress
  <2>2. CASE SyncVirtualServer
    <3>1. current # GlobalConfigurationKey
      BY <2>2 DEF SyncVirtualServer, GlobalConfigurationKey
    <3> QED
      BY <1>5, <1>6, <1>7, <1>8, <2>2, <3>1 DEF SyncVirtualServer, AddOrUpdateVirtualServer, DeleteVirtualServer
  <2>3. CASE SyncVirtualServerRoute
    <3>1. current # GlobalConfigurationKey
      BY <2>3 DEF SyncVirtualServerRoute, GlobalConfigurationKey
    <3> QED
      BY <1>5, <1>6, <1>7, <1>8, <2>3, <3>1 DEF SyncVirtualServerRoute, AddOrUpdateVirtualServerRoute,
        DeleteVirtualServerRoute
  <2>4. CASE SyncTransportServer
    <3>1. current # GlobalConfigurationKey
      BY <2>4 DEF SyncTransportServer, GlobalConfigurationKey
    <3> QED
      BY <1>5, <1>6, <1>7, <1>8, <2>4, <3>1 DEF SyncTransportServer, AddOrUpdateTransportServer,
        DeleteTransportServer
  <2>5. CASE SyncGlobalConfiguration
    <3>1. current = GlobalConfigurationKey
      BY <2>5, SyncListeners
    <3> QED
      BY <1>5, <1>7, <2>5, <3>1 DEF SyncGlobalConfiguration, AddOrUpdateGlobalConfiguration,
        DeleteGlobalConfiguration
  <2> QED
    BY <2>1, <2>2, <2>3, <2>4, <2>5
<1> QED
  BY <1>9 DEF Good, Answer, R, P

Syncing ==
  \/ SyncIngress \/ SyncVirtualServer \/ SyncVirtualServerRoute
  \/ SyncTransportServer \/ SyncGlobalConfiguration

\* The keys of two owners, or of two stored objects, tell them apart.
LEMMA OwnerStored ==
  ASSUME InOrder, NEW r \in AllOwners, NEW o \in Stored
  PROVE  /\ r.obj \in Stored /\ r.obj \in InService
         /\ ResourceKey(r) = Key(o) => o = r.obj
         /\ Key(o) \in Reported(r) => o = r.obj \/ o \in ToSet(r.attached)
<1>1. /\ r.obj \in Stored /\ r.obj \in InService
      /\ \A p \in ToSet(r.attached) : p \in Stored
      /\ \A p \in Stored : Key(p) = Key(o) => p = o
  BY StoredKinds DEF InOrder, StatesShown, ServedStored
<1> QED
  BY <1>1 DEF ResourceKey, Reported

LEMMA OwnersStored == InOrder => \A r \in AllOwners : r.obj \in Stored
BY DEF InOrder, StatesShown, ServedStored

LEMMA ListenerAnswer ==
  ASSUME ListersOK, WorkerOK, Syncing, current = GlobalConfigurationKey
  PROVE  changes' = ListenerChanges
<1>1. SyncGlobalConfiguration
  BY DEF Syncing, SyncIngress, SyncVirtualServer, SyncVirtualServerRoute, SyncTransportServer,
    GlobalConfigurationKey
<1> QED
  BY <1>1 DEF SyncGlobalConfiguration, AddOrUpdateGlobalConfiguration,
    DeleteGlobalConfiguration, Respond

\* What a sync leaves in the Configuration under the key of its task.
LEMMA SyncedAt ==
  ASSUME StoresOK, ListersOK, WorkerOK, Syncing, NEW k
  PROVE  /\ k # current => At(Stored', k) = At(Stored, k)
         /\ k = current /\ k # GlobalConfigurationKey => At(Stored', k) = AcceptedAt(k)
<1>1. CASE SyncGlobalConfiguration
  BY <1>1, SyncListeners
<1>2. CASE SyncIngress \/ SyncVirtualServer \/ SyncVirtualServerRoute \/ SyncTransportServer
  BY <1>2, SyncStored DEF OnlyCurrent, LikeBut
<1> QED
  BY <1>1, <1>2 DEF Syncing

\* Nothing is stored under the key of a rejected object that has been synced.
LEMMA RejectedAt ==
  ASSUME ListersOK, NEW o \in lister, Rejected(o)
  PROVE  AcceptedAt(Key(o)) = {}
<1>1. \A p \in At(lister, Key(o)) : p = o
  BY DEF ListersOK, Unique, At
<1> QED
  BY <1>1 DEF AcceptedAt, Rejected, Accepted

LEMMA SyncPlan ==
  ASSUME ListersOK, WorkerOK, InOrder, InOrder', Synced, Syncing
  PROVE  PlanOK'
<1> DEFINE R == ResourcesAbout
<1>1. Next
  BY SyncIsNext DEF Syncing
<1>2. Maps /\ Maps' /\ WarningsOK' /\ ProblemsStored /\ ProblemsStored' /\ NothingDropped'
  BY DEF InOrder
<1>3. /\ changes' \in Seq(ChangeSet(R)) /\ DeletesOwners(changes')
  BY <1>1, <1>2, ChangesAbout, DeletesAbout
<1>4. worker' = "changes" /\ current' = current /\ lister' = lister
  BY DEF Synced
<1>5. \A cs : \A c \in ToSet(cs) : \E i \in DOMAIN cs : c = cs[i]
  BY DEF ToSet
<1> HIDE DEF R
<1>6. ToSet(Order)' = ToSet(changes)'
  <2>1. CASE current # GlobalConfigurationKey
    BY <1>4, <2>1 DEF Order
  <2>2. CASE current = GlobalConfigurationKey
    <3>1. \A i, j \in DOMAIN changes' : KeyOf(changes'[i]) = KeyOf(changes'[j]) => i = j
      BY <1>2, <2>2, ListenerAnswer, ListenerKeysDiffer
    <3>2. ToSet(UpdatesFirst(changes')) = ToSet(changes')
      BY <1>3, <3>1, UpdatesFirstOK
    <3> QED
      BY <1>4, <2>2, <3>2 DEF Order
  <2> QED
    BY <2>1, <2>2
<1>7. ASSUME NEW c \in ToSet(changes'), c.op = "AddOrUpdate"
      PROVE  c.resource \in AllOwners'
  BY <1>1, <1>2, <1>5, <1>7, UpdatesAbout DEF AllOwners
<1>8. ASSUME NEW c \in ToSet(changes'), c.op = "AddOrUpdate", current = GlobalConfigurationKey
      PROVE  ToSet(c.resource.attached) = {}
  <2>1. /\ Owners(listeners) \subseteq R /\ Owners(listeners') \subseteq R
    BY DEF ResourcesAbout, R
  <2>2. Transforms(ListenerChanges, listeners, listeners')
    BY <1>2, <2>1, ListenerChangesOK DEF Maps
  <2>3. PICK i \in DOMAIN ListenerChanges : c = ListenerChanges[i]
    BY <1>5, <1>8, ListenerAnswer
  <2>4. \E l \in DOMAIN listeners' : c.resource = listeners'[l]
    BY <1>8, <2>2, <2>3 DEF Transforms, Gained
  <2> QED
    BY <1>2, <2>4 DEF WarningsOK
<1>9. ASSUME NEW c \in ToSet(changes'), c.op = "Delete",
             NEW o \in (Stored \ InService)', Key(o) = KeyOf(c)
      PROVE  DueProblem(Key(o))'
  <2>1. PICK r \in AllOwners : KeyOf(c) = ResourceKey(r)
    BY <1>3, <1>5, <1>9 DEF DeletesOwners
  <2>2. \A s \in Stored : Key(s) = Key(o) => s \in InService
    BY <1>9, <2>1, OwnerStored
  <2>3. \E q \in problems' : q.key = Key(o)
    BY <1>1, <1>2, <2>2, NewProblemTold
  <2> QED
    BY <1>4, <2>3 DEF DueProblem
<1>10. ASSUME NEW p \in problems'
       PROVE  \/ p.isError /\ \A o \in Stored' : Key(o) # p.key
              \/ ~p.isError /\ \E o \in (Stored \ InService)' : p.key = Key(o)
  <2>1. PICK cs \in Seq(ChangeSet(R)), ps \in SUBSET (hostProblems' \cup listenerProblems') :
          /\ Respond(cs, ps) \/ \E o \in At(lister, current) : RespondTo(o, cs, ps)
          /\ current = GlobalConfigurationKey => Respond(cs, ps)
    BY <1>2, SyncAnswer DEF Syncing, R
  <2>2. CASE p \in ps
    BY <1>2, <2>1, <2>2 DEF ProblemsStored
  <2>3. CASE p \notin ps
    <3>1. ~Respond(cs, ps)
      BY <2>3 DEF Respond
    <3>2. PICK o \in At(lister, current) : RespondTo(o, cs, ps)
      BY <2>1, <3>1
    <3>3. Rejected(o) /\ p = Problem(o, TRUE, "Rejected", <<"invalid", 0>>)
      BY <2>3, <3>1, <3>2 DEF RespondTo, Respond
    <3>4. p.isError /\ p.key = Key(o) /\ Key(o) = current /\ o \in lister
      BY <3>2, <3>3 DEF Problem, At
    <3>5. At(Stored', current) = {}
      BY <2>1, <3>1, <3>3, <3>4, SyncedAt, RejectedAt DEF InOrder
    <3> QED
      BY <3>4, <3>5 DEF At
  <2> QED
    BY <2>2, <2>3
<1> QED
  BY <1>4, <1>6, <1>7, <1>8, <1>9, <1>10 DEF PlanOK

LEMMA PlanUnchanged ==
  ASSUME PlanOK, UNCHANGED <<vars, worker, current>>
  PROVE  PlanOK'
<1>1. /\ changes' = changes /\ problems' = problems /\ worker' = worker /\ current' = current
      /\ hosts' = hosts /\ listeners' = listeners
      /\ Stored' = Stored /\ InService' = InService
  BY DEF vars, objects, Stored, InService
<1>2. Order' = Order /\ AllOwners' = AllOwners
  BY <1>1 DEF Order, AllOwners
<1>3. \A k : DueProblem(k)' <=> DueProblem(k)
  BY <1>1 DEF DueProblem
<1> QED
  BY <1>1, <1>2, <1>3 DEF PlanOK

\* The kinds of steps that leave the Configuration alone.
LEMMA StepCases ==
  ASSUME [AllNext]_allVars
  PROVE  \/ Edit \/ (\E key \in Keys : Observe(key)) \/ GetTask \/ (Syncing /\ Synced)
         \/ ProcessChange \/ UpdateTransportServers \/ ReloadTransportServers \/ FinishSync
         \/ UNCHANGED allVars
<1>1. Syncing => Synced
  BY DEF Syncing, SyncIngress, SyncVirtualServer, SyncVirtualServerRoute, SyncTransportServer,
    SyncGlobalConfiguration
<1> QED
  BY <1>1 DEF AllNext, Work, Syncing

LEMMA EditFrame ==
  Edit => UNCHANGED <<vars, lister, seen, queue, worker, current, cursor, nginx>>
BY DEF Edit, Create, Update, EditGlobalConfiguration, Delete, Edited

LEMMA PlanStep ==
  ASSUME ListersOK, WorkerOK, InOrder, InOrder', PlanOK, [AllNext]_allVars
  PROVE  PlanOK'
<1>1. CASE Syncing /\ Synced
  BY <1>1, SyncPlan
<1>2. CASE GetTask \/ FinishSync
  BY <1>2 DEF GetTask, FinishSync, PlanOK
<1>3. CASE Edit
  BY <1>3, EditFrame, PlanUnchanged
<1>4. CASE \E key \in Keys : Observe(key)
  BY <1>4, PlanUnchanged DEF Observe
<1>5. CASE ProcessChange \/ UpdateTransportServers \/ ReloadTransportServers
  BY <1>5, PlanUnchanged DEF ProcessChange, UpdateTransportServers, ReloadTransportServers
<1>6. CASE UNCHANGED allVars
  BY <1>6, PlanUnchanged DEF allVars
<1> QED
  BY <1>1, <1>2, <1>3, <1>4, <1>5, <1>6, StepCases

-----------------------------------------------------------------------------
(* Objects that exist *)

\* What is stored and still exists is in the lister too: no name is used again.
AliveOK == \A o \in Stored : Exists(cluster, Key(o)) => Exists(lister, Key(o))

\* A user's edit neither brings back an object that was there once, nor touches
\* the status of one that stays.
LEMMA EditSpares ==
  ASSUME NamesKept, StatusesOK, ListersOK, Edit,
         NEW o \in Objects, o.uid \in used, Exists(cluster', Key(o))
  PROVE  /\ Exists(cluster, Key(o))
         /\ o.kind # "Ingress" => told'[Key(o)] = told[Key(o)]
<1> DEFINE k == Key(o)
<1>0. k # GlobalConfigurationKey
  BY ObjectsAssumption DEF Objects, Key, GlobalConfigurationKey
<1>1. CASE \E p \in Objects : Create(p)
  <2>1. PICK p \in Objects : Create(p)
    BY <1>1
  <2>2. p.uid \notin used /\ cluster' = cluster \cup {p} /\ told' = told
    BY <2>1 DEF Create, Edited
  <2>3. Key(p) # k
    BY <2>2 DEF NamesKept
  <2> QED
    BY <2>2, <2>3 DEF Exists, At
<1>2. CASE \E p \in Objects : Update(p)
  <2>1. PICK p \in Objects : Update(p)
    BY <1>2
  <2>2. Exists(cluster, Key(p)) /\ cluster' = (cluster \ At(cluster, Key(p))) \cup {p} /\ told' = told
    BY <2>1 DEF Update, Edited, Exists
  <2> QED
    BY <2>2 DEF Exists, At
<1>3. CASE \E gc \in GlobalConfigurationObjects : EditGlobalConfiguration(gc)
  <2>1. PICK gc \in GlobalConfigurationObjects : EditGlobalConfiguration(gc)
    BY <1>3
  <2>2. Key(gc) = GlobalConfigurationKey
    BY DEF GlobalConfigurationObjects, Key, GlobalConfigurationKey
  <2>3. cluster' = (cluster \ At(cluster, Key(gc))) \cup {gc} /\ told' = told
    BY <2>1 DEF EditGlobalConfiguration, Edited
  <2> QED
    BY <1>0, <2>2, <2>3 DEF Exists, At
<1>4. CASE \E key \in Keys : Delete(key)
  <2>1. PICK key \in Keys : Delete(key)
    BY <1>4
  <2>2. cluster' = cluster \ At(cluster, key)
        /\ told' = [j \in StatusKeys |-> IF j = key THEN "none" ELSE told[j]]
    BY <2>1 DEF Delete, Edited
  <2>3. k # key /\ Exists(cluster, k)
    BY <2>2 DEF Exists, At
  <2>4. o.kind # "Ingress" => k \in StatusKeys
    BY ObjectsAssumption DEF StatusKeys
  <2> QED
    BY <2>2, <2>3, <2>4
<1> QED
  BY <1>1, <1>2, <1>3, <1>4 DEF Edit

LEMMA AliveStep ==
  ASSUME NamesKept, StatusesOK, ListersOK, WorkerOK, InOrder, ForwardOK, AliveOK, [AllNext]_allVars
  PROVE  AliveOK'
<1>1. Stored \subseteq Objects /\ StoresOK
  BY StoredObjects DEF InOrder
<1>2. UNCHANGED <<vars, cluster, lister>> => AliveOK'
  BY DEF vars, objects, Stored, AliveOK
<1>3. CASE Syncing /\ Synced
  <2>1. cluster' = cluster /\ lister' = lister
    BY <1>3 DEF Synced, api
  <2>2. \A o \in Stored' : o \in Stored \/ o \in lister
    BY <1>1, NewlyStored
  <2> QED
    BY <2>1, <2>2 DEF AliveOK, Exists, At
<1>4. CASE Edit
  <2>1. lister' = lister /\ Stored' = Stored
    BY <1>4, EditFrame DEF vars, objects, Stored
  <2>2. \A o \in Stored : Exists(cluster', Key(o)) => Exists(cluster, Key(o))
    BY <1>1, <1>4, EditSpares DEF ForwardOK
  <2> QED
    BY <2>1, <2>2 DEF AliveOK
<1>5. CASE \E key \in Keys : Observe(key)
  <2>1. PICK key \in Keys : Observe(key)
    BY <1>5
  <2>2. /\ Stored' = Stored /\ cluster' = cluster
        /\ lister' = (lister \ At(lister, key)) \cup At(cluster, key)
    BY <2>1 DEF Observe, vars, objects, Stored, api
  <2>3. \A k : Exists(cluster, k) /\ (k = key \/ Exists(lister, k)) => Exists(lister', k)
    BY <2>2 DEF Exists, At
  <2> QED
    BY <2>2, <2>3 DEF AliveOK
<1>6. CASE GetTask \/ ProcessChange \/ UpdateTransportServers \/ ReloadTransportServers
             \/ FinishSync \/ UNCHANGED allVars
  BY <1>2, <1>6 DEF GetTask, ProcessChange, UpdateTransportServers, ReloadTransportServers,
    FinishSync, allVars, api
<1> QED
  BY <1>3, <1>4, <1>5, <1>6, StepCases

-----------------------------------------------------------------------------
(* The states of stored objects *)

\* NGINX runs the config of the object, as it is stored.
InRunning(o) == \E f \in running : f.key = Key(o) /\ f.spec = ConfigSpec(o)

\* The state that is shown is the one that should be; Valid is only shown for
\* what NGINX runs, also after reloads that failed.
Right(o) ==
  /\ failures = 0 => told[Key(o)] = State(o)
  /\ told[Key(o)] = "Valid" =>
       o \in InService /\ (o.kind # "VirtualServerRoute" => InRunning(o))

StatusOK ==
  \A o \in Stored : o.kind # "Ingress" /\ Exists(cluster, Key(o)) =>
    Right(o) \/ DueUpdate(Key(o)) \/ DueProblem(Key(o))

LEMMA WriteStatusTold ==
  ASSUME NEW states, WriteStatus(states), NEW k \in StatusKeys
  PROVE  told'[k] = IF k \in DOMAIN states /\ Exists(lister, k) /\ Exists(cluster, k)
                      THEN states[k] ELSE told[k]
BY DEF WriteStatus

\* The config of what owns a host or a listener is in its file already, or about
\* to be written.
LEMMA FileOrDue ==
  ASSUME FilesOK, worker = "changes", NEW r \in AllOwners
  PROVE  \/ \E f \in files : f.key = ResourceKey(r) /\ f.spec = ConfigSpec(r.obj)
         \/ DueUpdate(ResourceKey(r))
<1> DEFINE x == Content(r)
<1>1. x \in Files(hosts, listeners)
  BY FilesSplit, FilesOfElement DEF AllOwners, Owners
<1>2. x \in Applied(files, Rest)
  BY <1>1 DEF FilesOK
<1>3. x.key = ResourceKey(r) /\ x.spec = ConfigSpec(r.obj)
  BY ContentFields DEF ResourceKey
<1>4. CASE x \in files
  BY <1>3, <1>4
<1>5. CASE \E c \in Finals(Rest) : c.op = "AddOrUpdate" /\ x = Content(c.resource)
  <2>1. PICK c \in Finals(Rest) : c.op = "AddOrUpdate" /\ x = Content(c.resource)
    BY <1>5
  <2>2. PICK j \in DOMAIN Rest : Rest[j] = c
    BY FinalPosition
  <2>3. PICK R : Order \in Seq(ChangeSet(R))
    BY DEF FilesOK, ChangesTyped
  <2>4. Len(Order) \in Nat /\ DOMAIN Order = 1..Len(Order) /\ cursor \in Nat \ {0}
    BY <2>3, LenProperties DEF FilesOK
  <2>5. cursor + j - 1 \in DOMAIN Order /\ Order[cursor + j - 1] = c /\ cursor + j - 1 >= cursor
    <3>1. DOMAIN Rest = 1..Len(Rest)
      BY <2>3, <2>4, SubSeqProperties, LenProperties DEF Rest
    <3> QED
      BY <2>2, <2>3, <2>4, <3>1, SubSeqProperties DEF Rest
  <2>6. ResourceKey(c.resource) = ResourceKey(r)
    BY <1>3, <2>1, ContentFields DEF ResourceKey
  <2> QED
    BY <2>1, <2>5, <2>6 DEF DueUpdate, Ahead, Reported
<1> QED
  BY <1>2, <1>4, <1>5, AppliedElement

FileOf(F, o) == \E f \in F : f.key = Key(o) /\ f.spec = ConfigSpec(o)

\* The object owns a host or a listener itself.
Owning(o) == \E r \in AllOwners : o = r.obj

FilesDue ==
  worker = "changes" => \A o : Owning(o) => FileOf(files, o) \/ DueUpdate(Key(o))

LEMMA FilesDueNow == FilesOK => FilesDue
BY FileOrDue DEF FilesDue, FileOf, Owning, ResourceKey

LEMMA FilesDueNext == FilesOK' => FilesDue'
BY FilesDueNow, PTL

LEMMA ServedOwns ==
  ASSUME InOrder, NEW o \in InService, o.kind # "Ingress", o.kind # "VirtualServerRoute"
  PROVE  Owning(o)
BY DEF InOrder, StatesShown, Owning

LEMMA Unmoved ==
  ASSUME UNCHANGED vars
  PROVE  /\ Stored' = Stored /\ InService' = InService /\ AllOwners' = AllOwners
         /\ changes' = changes /\ problems' = problems
         /\ \A o : State(o)' = State(o) /\ HostWarnings(o)' = HostWarnings(o)
         /\ \A o : Owning(o)' <=> Owning(o)
<1>1. hosts' = hosts /\ listeners' = listeners
  BY DEF vars
<1>2. InService' = InService /\ AllOwners' = AllOwners
  BY <1>1 DEF InService, AllOwners
<1>3. \A o : HostWarnings(o)' = HostWarnings(o)
  BY <1>1 DEF HostWarnings
<1> QED
  BY <1>2, <1>3 DEF vars, objects, Stored, State, Owning

\* A sync reports no status: what is not as it was is due to be reported.
LEMMA SyncStatus ==
  ASSUME VersionsTold, ListersOK, WorkerOK, InOrder, InOrder', PlanOK', StatusOK, Synced, Syncing
  PROVE  StatusOK'
<1> SUFFICES ASSUME NEW o \in Stored', o.kind # "Ingress", Exists(cluster', Key(o))
             PROVE  Right(o)' \/ DueUpdate(Key(o))' \/ DueProblem(Key(o))'
  BY DEF StatusOK
<1>1. Next
  BY SyncIsNext DEF Syncing
<1>2. /\ worker = "sync" /\ worker' = "changes" /\ cursor' = 1 /\ current' = current
      /\ cluster' = cluster /\ told' = told /\ running' = running /\ failures' = failures
  BY DEF Synced, api, nginx
<1>3. \A k : ~DueUpdate(k) /\ ~DueProblem(k)
  BY <1>2 DEF DueUpdate, DueProblem
<1>4. \A s \in Stored : s.kind # "Ingress" /\ Key(s) = Key(o) => Right(s)
  BY <1>2, <1>3 DEF StatusOK
<1>5. CASE o \in InService'
  <2>1. PICK r \in AllOwners' : o = r.obj \/ o \in ToSet(r.attached)
    BY <1>5 DEF InOrder, StatesShown
  <2>2. UpdateIn(changes', r) \/ OwnerKept(r)
    BY <1>1, UpdatedOrKept DEF InOrder
  <2>3. CASE UpdateIn(changes', r)
    <3>1. PICK i \in DOMAIN changes' : changes'[i].op = "AddOrUpdate" /\ changes'[i].resource = r
      BY <2>3 DEF UpdateIn
    <3>2. changes'[i] \in ToSet(Order')
      BY <1>2 DEF PlanOK, ToSet
    <3>3. PICK j \in DOMAIN Order' : Order'[j] = changes'[i]
      BY <3>2 DEF ToSet
    <3>4. PICK S : changes' \in Seq(ChangeSet(S))
      BY <1>1, ChangesAbout DEF InOrder
    <3>5. Key(o) \in Reported(r)
      BY <2>1 DEF Reported, ResourceKey
    <3>6. j >= 1
      <4>1. Order' \in Seq(ChangeSet(S))
        <5>1. CASE current = GlobalConfigurationKey
          <6>1. \A m, n \in DOMAIN changes' : KeyOf(changes'[m]) = KeyOf(changes'[n]) => m = n
            BY <5>1, ListenerAnswer, ListenerKeysDiffer DEF InOrder
          <6>2. UpdatesFirst(changes') \in Seq(ChangeSet(S))
            BY <3>4, <6>1, UpdatesFirstOK
          <6> QED
            BY <1>2, <5>1, <6>2 DEF Order
        <5>2. CASE current # GlobalConfigurationKey
          BY <1>2, <3>4, <5>2 DEF Order
        <5> QED
          BY <5>1, <5>2
      <4> QED
        BY <3>3, <4>1, LenProperties
    <3> QED
      BY <1>2, <3>1, <3>3, <3>5, <3>6 DEF DueUpdate, Ahead
  <2>4. CASE OwnerKept(r)
    <3>1. PICK s \in AllOwners : /\ s.obj = r.obj /\ s.attached = r.attached
                                 /\ r.obj.kind # "Ingress" => s.warnings = r.warnings
      BY <2>4 DEF OwnerKept
    <3> USE DEF InOrder
    <3>2. o \in InService /\ o \in Stored
      <4>1. InService \subseteq Stored
        BY DEF StatesShown, ServedStored
      <4>2. s.obj \in InService /\ \A p \in ToSet(s.attached) : p \in InService
        BY DEF StatesShown
      <4> QED
        BY <2>1, <3>1, <4>1, <4>2
    <3>3. State(o)' = State(o)
      <4>1. CASE o = r.obj
        <5>1. State(s.obj) = StateAfter(s.warnings, TRUE)
          BY DEF StatesShown
        <5>2. State(r.obj)' = StateAfter(r.warnings, TRUE)
          BY DEF StatesShown, StateAfter
        <5> QED
          BY <3>1, <4>1, <5>1, <5>2
      <4>2. CASE o \in ToSet(r.attached)
        <5>1. State(o)' = "Valid"
          BY <4>2 DEF StatesShown
        <5>2. o \in ToSet(s.attached)
          BY <3>1, <4>2
        <5>3. State(o) = "Valid"
          BY <5>2 DEF StatesShown
        <5> QED
          BY <5>1, <5>3
      <4> QED
        BY <2>1, <4>1, <4>2
    <3>4. InRunning(o)' <=> InRunning(o)
      BY <1>2 DEF InRunning
    <3> QED
      BY <1>2, <1>4, <1>5, <3>2, <3>3, <3>4 DEF Right
  <2> QED
    BY <2>2, <2>3, <2>4
<1>6. CASE o \notin InService'
  <2>1. CASE \A s \in Stored : Key(s) = Key(o) => s \in InService
    <3>1. \E q \in problems' : q.key = Key(o)
      BY <1>1, <1>6, <2>1, NewProblemTold DEF InOrder
    <3> QED
      BY <1>2, <3>1 DEF DueProblem
  <2>2. ASSUME NEW s \in Stored, Key(s) = Key(o), s \notin InService
        PROVE  Right(o)'
    <3>1. s.kind = o.kind
      BY <2>2 DEF Key
    <3>2. Right(s) /\ State(s) = "Warning" /\ State(o)' = "Warning"
      BY <1>4, <1>6, <2>2, <3>1 DEF State
    <3> QED
      BY <1>2, <2>2, <3>2 DEF Right
  <2> QED
    BY <2>1, <2>2
<1> QED
  BY <1>5, <1>6

\* What a reload does to what was served: NGINX runs it as before, or as in its
\* file, unless that is about to be written.
LEMMA ReloadServed ==
  ASSUME NEW ok \in BOOLEAN, Reload(ok), failures \in Nat, NEW o,
         FileOf(files', o) \/ DueUpdate(Key(o))', ok \/ InRunning(o)
  PROVE  InRunning(o)' \/ DueUpdate(Key(o))'
BY DEF Reload, InRunning, FileOf

LEMMA ReloadCounts ==
  ASSUME NEW ok \in BOOLEAN, Reload(ok), failures \in Nat
  PROVE  /\ failures' \in Nat /\ (failures' = 0 => failures = 0)
         /\ ~ok => failures' # 0
BY DEF Reload

\* The states that are reported with an update.
LEMMA UpdateStates ==
  ASSUME InOrder, NEW r \in AllOwners, NEW o \in Stored, o.kind # "Ingress", Key(o) \in Reported(r)
  PROVE  /\ o \in InService
         /\ Key(o) \in DOMAIN StatesOnUpdate(r, TRUE) /\ StatesOnUpdate(r, TRUE)[Key(o)] = State(o)
         /\ Key(o) \in DOMAIN StatesOnUpdate(r, FALSE) /\ StatesOnUpdate(r, FALSE)[Key(o)] = "Invalid"
<1>1. Key(o) \in {ResourceKey(r)} \cup {Key(p) : p \in ToSet(r.attached)}
  BY DEF Reported
<1>2. /\ DOMAIN StatesOnUpdate(r, TRUE) = {ResourceKey(r)} \cup {Key(p) : p \in ToSet(r.attached)}
      /\ DOMAIN StatesOnUpdate(r, FALSE) = {ResourceKey(r)} \cup {Key(p) : p \in ToSet(r.attached)}
      /\ StatesOnUpdate(r, TRUE)[Key(o)] = IF Key(o) = ResourceKey(r) THEN StateAfter(r.warnings, TRUE) ELSE StateAfter({}, TRUE)
      /\ StatesOnUpdate(r, FALSE)[Key(o)] = IF Key(o) = ResourceKey(r) THEN StateAfter(r.warnings, FALSE) ELSE StateAfter({}, FALSE)
  BY <1>1 DEF StatesOnUpdate
<1>3. \A w : StateAfter(w, FALSE) = "Invalid"
  BY DEF StateAfter
<1>4. StateAfter({}, TRUE) = "Valid"
  BY DEF StateAfter
<1>5. o = r.obj \/ o \in ToSet(r.attached)
  BY OwnerStored
<1>6. CASE Key(o) = ResourceKey(r)
  <2>1. o = r.obj
    BY <1>6, OwnerStored
  <2>2. o \in InService /\ State(o) = StateAfter(r.warnings, TRUE)
    BY <2>1 DEF InOrder, StatesShown
  <2> QED
    BY <1>1, <1>2, <1>3, <1>6, <2>2
<1>7. CASE Key(o) # ResourceKey(r)
  <2>1. o \in ToSet(r.attached)
    BY <1>5, <1>7 DEF ResourceKey
  <2>2. o \in InService /\ State(o) = "Valid"
    BY <2>1 DEF InOrder, StatesShown
  <2> QED
    BY <1>1, <1>2, <1>3, <1>4, <1>7, <2>2
<1> QED
  BY <1>6, <1>7

\* What is reported with a delete is never Valid.
LEMMA DeleteStates ==
  ASSUME NEW c, NEW ok \in BOOLEAN, NEW k \in DOMAIN StatesOnDelete(c, ok)
  PROVE  k = KeyOf(c) /\ StatesOnDelete(c, ok)[k] # "Valid"
BY DEF StatesOnDelete, NoStates, KeyOf

LEMMA ProcessChangeStatus ==
  ASSUME StatusesOK, ListersOK, WorkerOK, InOrder, AliveOK, PlanOK, StatusOK,
         FilesOK, FilesOK', failures \in Nat, ProcessChange
  PROVE  StatusOK'
<1> DEFINE c == changes[cursor]
<1>1. /\ worker = "changes" /\ current # GlobalConfigurationKey
      /\ cursor <= Len(changes) /\ cursor' = cursor + 1 /\ files' = Apply(files, c)
      /\ UNCHANGED <<vars, cluster, lister, worker, current>>
  BY DEF ProcessChange, api
<1>2. PICK ok \in BOOLEAN :
        /\ Reload(ok)
        /\ WriteStatus(IF c.op = "AddOrUpdate" THEN StatesOnUpdate(c.resource, ok)
                                               ELSE StatesOnDelete(c, ok))
  BY DEF ProcessChange
<1>3. /\ Stored' = Stored /\ InService' = InService /\ changes' = changes /\ problems' = problems
      /\ \A o : State(o)' = State(o)
      /\ \A o : Owning(o)' <=> Owning(o)
  BY <1>1, Unmoved
<1>4. Order = changes /\ Order' = changes /\ worker' = "changes" /\ current' # GlobalConfigurationKey
  BY <1>1, <1>3 DEF Order
<1>5. PICK R : changes \in Seq(ChangeSet(R)) /\ \A r \in R : Shaped(r)
  BY <1>1, <1>4 DEF FilesOK, ChangesTyped
<1>6. /\ cursor \in DOMAIN changes /\ c \in ChangeSet(R) /\ cursor \in Nat
      /\ DOMAIN changes = 1..Len(changes) /\ Len(changes) \in Nat
  BY <1>1, <1>5, LenProperties, ElementOfSeq DEF FilesOK
<1>7. c.op \in {"Delete", "AddOrUpdate"} /\ c.resource \in R /\ Shaped(c.resource) /\ c \in ToSet(changes)
  BY <1>5, <1>6 DEF ChangeSet, ToSet
<1> HIDE DEF c
<1> SUFFICES ASSUME NEW o \in Stored, o.kind # "Ingress", Exists(cluster, Key(o))
             PROVE  Right(o)' \/ DueUpdate(Key(o))' \/ DueProblem(Key(o))'
  BY <1>1, <1>3 DEF StatusOK
<1> DEFINE k == Key(o)
<1>8. k \in StatusKeys /\ Exists(lister, k)
  <2>1. o \in Objects \ Ingresses
    BY StoredObjects, ObjectsAssumption DEF InOrder
  <2> QED
    BY <2>1 DEF StatusKeys, AliveOK
<1>9. failures' \in Nat /\ (failures' = 0 => failures = 0) /\ (~ok => failures' # 0)
  BY <1>2, ReloadCounts
<1>10. Owning(o) => FileOf(files', o) \/ DueUpdate(k)'
  BY <1>3, <1>4, FilesDueNext DEF FilesDue
<1>11. o \in InService /\ o.kind # "VirtualServerRoute" => Owning(o)
  BY ServedOwns
<1>12. DueProblem(k) => DueProblem(k)'
  BY <1>1, <1>3 DEF DueProblem
<1> DEFINE states == IF c.op = "AddOrUpdate" THEN StatesOnUpdate(c.resource, ok) ELSE StatesOnDelete(c, ok)
<1>13. told'[k] = IF k \in DOMAIN states THEN states[k] ELSE told[k]
  BY <1>1, <1>2, <1>8, WriteStatusTold
<1>14. CASE c.op = "AddOrUpdate" /\ k \in Reported(c.resource)
  <2>1. c.resource \in AllOwners
    BY <1>1, <1>7, <1>14 DEF PlanOK
  <2>2. /\ o \in InService
        /\ k \in DOMAIN StatesOnUpdate(c.resource, TRUE) /\ StatesOnUpdate(c.resource, TRUE)[k] = State(o)
        /\ k \in DOMAIN StatesOnUpdate(c.resource, FALSE) /\ StatesOnUpdate(c.resource, FALSE)[k] = "Invalid"
    BY <1>14, <2>1, UpdateStates
  <2>3. CASE ok
    <3>1. told'[k] = State(o)
      BY <1>13, <1>14, <2>2, <2>3
    <3>2. o.kind # "VirtualServerRoute" => InRunning(o)' \/ DueUpdate(k)'
      BY <1>2, <1>10, <1>11, <2>2, <2>3, ReloadServed
    <3> QED
      BY <1>3, <2>2, <3>1, <3>2 DEF Right
  <2>4. CASE ~ok
    <3>1. told'[k] = "Invalid"
      BY <1>13, <1>14, <2>2, <2>4
    <3> QED
      BY <1>9, <2>4, <3>1 DEF Right
  <2> QED
    BY <2>3, <2>4
<1>15. CASE c.op = "Delete" /\ k \in DOMAIN StatesOnDelete(c, ok)
  <2>1. k = KeyOf(c) /\ told'[k] # "Valid"
    BY <1>13, <1>15, DeleteStates
  <2>2. CASE o \in InService
    <3>1. o.kind # "VirtualServerRoute"
      <4>1. c.resource.obj \in Objects \ VirtualServerRoutes
        BY <1>7 DEF Shaped, AcceptedObjects
      <4>2. c.resource.obj.kind # "VirtualServerRoute"
        BY <4>1, ObjectsAssumption DEF Objects
      <4> QED
        BY <2>1, <4>2 DEF KeyOf, ResourceKey, Key
    <3>2. ~FileOf(files', o)
      BY <1>1, <1>15, <2>1, ApplyElement DEF FileOf
    <3> QED
      BY <1>10, <1>11, <2>2, <3>1, <3>2
  <2>3. CASE o \notin InService
    <3>1. DueProblem(k)
      BY <1>1, <1>7, <1>15, <2>1, <2>3 DEF PlanOK
    <3> QED
      BY <1>12, <3>1
  <2> QED
    BY <2>2, <2>3
<1>16. CASE ~(c.op = "AddOrUpdate" /\ k \in Reported(c.resource)) /\ ~(c.op = "Delete" /\ k \in DOMAIN StatesOnDelete(c, ok))
  <2>1. c.op = "AddOrUpdate" => k \notin DOMAIN StatesOnUpdate(c.resource, ok)
    BY <1>16 DEF StatesOnUpdate, Reported
  <2>2. told'[k] = told[k]
    BY <1>7, <1>13, <1>16, <2>1
  <2>3. DueUpdate(k) => DueUpdate(k)'
    <3> SUFFICES ASSUME DueUpdate(k) PROVE DueUpdate(k)'
      OBVIOUS
    <3>1. PICK i \in DOMAIN changes : /\ changes[i].op = "AddOrUpdate" /\ k \in Reported(changes[i].resource)
                                      /\ i >= cursor
      BY <1>1, <1>4 DEF DueUpdate, Ahead
    <3>2. i # cursor
      BY <1>16, <3>1 DEF c
    <3>3. i >= cursor + 1
      BY <1>6, <3>1, <3>2
    <3> QED
      BY <1>1, <1>4, <3>1, <3>3 DEF DueUpdate, Ahead
  <2>4. CASE Right(o)
    <3>1. told[k] = "Valid" => o \in InService /\ (o.kind # "VirtualServerRoute" => InRunning(o)' \/ DueUpdate(k)')
      BY <1>2, <1>10, <1>11, <2>4, ReloadServed DEF Right
    <3> QED
      BY <1>3, <1>9, <2>2, <2>4, <3>1 DEF Right
  <2> QED
    BY <1>12, <2>3, <2>4 DEF StatusOK
<1> QED
  BY <1>14, <1>15, <1>16

\* Between the files and the reload of a GlobalConfiguration everything is due.
LEMMA UpdateTransportServersStatus ==
  ASSUME WorkerOK, PlanOK, FilesOK, StatusOK, UpdateTransportServers
  PROVE  StatusOK'
<1>1. /\ worker = "changes" /\ current = GlobalConfigurationKey
      /\ cursor <= Len(changes) /\ cursor' = cursor + 1
      /\ UNCHANGED <<vars, cluster, lister, worker, current, told, running, failures>>
  BY DEF UpdateTransportServers, api
<1>2. /\ Stored' = Stored /\ InService' = InService /\ changes' = changes /\ problems' = problems
      /\ \A o : State(o)' = State(o)
  BY <1>1, Unmoved
<1>3. Order' = Order
  BY <1>1, <1>2 DEF Order
<1>4. \A i : Ahead(i)'
  <2>1. PICK R : Order \in Seq(ChangeSet(R))
    BY <1>1 DEF FilesOK, ChangesTyped
  <2>2. Len(changes) \in Nat /\ cursor \in Nat
    BY <1>1, <2>1, LenProperties DEF FilesOK
  <2>3. cursor' <= Len(changes') + 1
    BY <1>1, <1>2, <2>2
  <2> QED
    BY <1>1, <2>3 DEF Ahead
<1>5. \A k : (DueUpdate(k) => DueUpdate(k)') /\ (DueProblem(k) => DueProblem(k)')
  BY <1>1, <1>2, <1>3, <1>4 DEF DueUpdate, DueProblem
<1>6. \A o : Right(o) => Right(o)'
  BY <1>1, <1>2 DEF Right, InRunning
<1> QED
  BY <1>1, <1>2, <1>5, <1>6 DEF StatusOK

\* After the reload of a GlobalConfiguration the files are those of the owners.
LEMMA ReloadTransportServersStatus ==
  ASSUME StatusesOK, InOrder, AliveOK, PlanOK, StatusOK, FilesOK,
         failures \in Nat, ReloadTransportServers
  PROVE  StatusOK'
<1> DEFINE updated == {c.resource : c \in {d \in ToSet(changes) : d.op = "AddOrUpdate"}}
           states(ok) == [k \in {ResourceKey(r) : r \in updated} |->
                            StateAfter((CHOOSE r \in updated : ResourceKey(r) = k).warnings, ok)]
<1>1. /\ worker = "changes" /\ current = GlobalConfigurationKey
      /\ cursor = Len(changes) + 1 /\ cursor' = cursor + 1
      /\ UNCHANGED <<vars, cluster, lister, worker, current, files>>
  BY DEF ReloadTransportServers, api
<1>2. PICK ok \in BOOLEAN : Reload(ok) /\ WriteStatus(states(ok))
  BY DEF ReloadTransportServers
<1>3. /\ Stored' = Stored /\ InService' = InService /\ changes' = changes /\ problems' = problems
      /\ \A o : State(o)' = State(o)
  BY <1>1, Unmoved
<1>4. \A r \in updated : r \in AllOwners /\ ToSet(r.attached) = {}
  BY <1>1 DEF PlanOK
<1>5. \A k : DueUpdate(k) => \E r \in updated : k = ResourceKey(r)
  <2> SUFFICES ASSUME NEW k, DueUpdate(k) PROVE \E r \in updated : k = ResourceKey(r)
    OBVIOUS
  <2>1. PICK i \in DOMAIN Order : Order[i].op = "AddOrUpdate" /\ k \in Reported(Order[i].resource)
    BY DEF DueUpdate
  <2>2. Order[i] \in ToSet(changes)
    BY <1>1 DEF PlanOK, ToSet
  <2>3. Order[i].resource \in updated
    BY <2>1, <2>2
  <2>4. ToSet(Order[i].resource.attached) = {}
    BY <1>4, <2>3
  <2> HIDE DEF updated
  <2> QED
    BY <2>1, <2>3, <2>4 DEF Reported
<1>6. /\ \A ok_ : DOMAIN states(ok_) = {ResourceKey(r) : r \in updated}
      /\ \A ok_ : \A k \in DOMAIN states(ok_) :
           \E r \in updated : ResourceKey(r) = k /\ states(ok_)[k] = StateAfter(r.warnings, ok_)
  OBVIOUS
<1> HIDE DEF updated, states
<1>7. \A o : Owning(o) => FileOf(files', o)
  <2> SUFFICES ASSUME NEW r \in AllOwners PROVE FileOf(files', r.obj)
    BY DEF Owning
  <2>1. PICK R : Order \in Seq(ChangeSet(R)) /\ Len(Order) = Len(changes)
    BY <1>1 DEF FilesOK, ChangesTyped
  <2>2. cursor > Len(changes)
    BY <1>1, <2>1, LenProperties
  <2>3. files' = Files(hosts, listeners)
    BY <1>1, <2>2, AllApplied
  <2>4. Content(r) \in Files(hosts, listeners)
    BY FilesSplit, FilesOfElement DEF AllOwners, Owners
  <2> QED
    BY <2>3, <2>4, ContentFields DEF FileOf
<1>8. failures' \in Nat /\ (failures' = 0 => failures = 0) /\ (~ok => failures' # 0)
  BY <1>2, ReloadCounts
<1> SUFFICES ASSUME NEW o \in Stored, o.kind # "Ingress", Exists(cluster, Key(o))
             PROVE  Right(o)' \/ DueProblem(Key(o))'
  BY <1>1, <1>3 DEF StatusOK
<1> DEFINE k == Key(o)
<1>9. k \in StatusKeys /\ Exists(lister, k)
  <2>1. o \in Objects \ Ingresses
    BY StoredObjects, ObjectsAssumption DEF InOrder
  <2> QED
    BY <2>1 DEF StatusKeys, AliveOK
<1>10. told'[k] = IF k \in DOMAIN states(ok) THEN states(ok)[k] ELSE told[k]
  BY <1>1, <1>2, <1>9, WriteStatusTold
<1>11. ok \/ InRunning(o) => (Owning(o) => InRunning(o)')
  BY <1>2, <1>7 DEF Reload, FileOf, InRunning
<1>12. CASE k \in DOMAIN states(ok)
  <2>1. PICK r \in updated : ResourceKey(r) = k /\ states(ok)[k] = StateAfter(r.warnings, ok)
    BY <1>6, <1>12
  <2>2. o = r.obj /\ r \in AllOwners
    BY <1>4, <2>1, OwnerStored
  <2>3. o \in InService /\ State(o) = StateAfter(r.warnings, TRUE) /\ Owning(o)
    BY <2>2 DEF InOrder, StatesShown, Owning
  <2>4. CASE ok
    <3>1. told'[k] = State(o)
      BY <1>10, <1>12, <2>1, <2>3, <2>4
    <3> QED
      BY <1>3, <1>11, <2>3, <2>4, <3>1 DEF Right
  <2>5. CASE ~ok
    <3>1. told'[k] = "Invalid"
      BY <1>10, <1>12, <2>1, <2>5 DEF StateAfter
    <3> QED
      BY <1>8, <2>5, <3>1 DEF Right
  <2> QED
    BY <2>4, <2>5
<1>13. CASE k \notin DOMAIN states(ok)
  <2>1. told'[k] = told[k]
    BY <1>10, <1>13
  <2>2. ~DueUpdate(k)
    BY <1>5, <1>6, <1>13
  <2>3. DueProblem(k) => DueProblem(k)'
    BY <1>1, <1>3 DEF DueProblem
  <2>4. CASE Right(o)
    <3>1. told[k] = "Valid" => o \in InService /\ (o.kind # "VirtualServerRoute" => InRunning(o)')
      BY <1>11, <2>4, ServedOwns DEF Right
    <3> QED
      BY <1>3, <1>8, <2>1, <2>4, <3>1 DEF Right
  <2> QED
    BY <2>2, <2>3, <2>4 DEF StatusOK
<1> QED
  BY <1>12, <1>13

\* At the end of a sync only problems are due, and they are reported.
LEMMA FinishSyncStatus ==
  ASSUME StatusesOK, InOrder, AliveOK, PlanOK, StatusOK, FilesOK, FinishSync
  PROVE  StatusOK'
<1>1. /\ worker = "changes"
      /\ cursor > Len(changes) + (IF current = GlobalConfigurationKey THEN 1 ELSE 0)
      /\ WriteStatus(ProblemStates)
      /\ UNCHANGED <<vars, cluster, running, failures>>
  BY DEF FinishSync, api, nginx
<1>2. /\ Stored' = Stored /\ InService' = InService
      /\ \A o : State(o)' = State(o)
  BY <1>1, Unmoved
<1> SUFFICES ASSUME NEW o \in Stored, o.kind # "Ingress", Exists(cluster, Key(o))
             PROVE  Right(o)'
  BY <1>1, <1>2 DEF StatusOK
<1> DEFINE k == Key(o)
<1>3. k \in StatusKeys /\ Exists(lister, k)
  <2>1. o \in Objects \ Ingresses
    BY StoredObjects, ObjectsAssumption DEF InOrder
  <2> QED
    BY <2>1 DEF StatusKeys, AliveOK
<1>4. told'[k] = IF k \in DOMAIN ProblemStates THEN ProblemStates[k] ELSE told[k]
  BY <1>1, <1>3, WriteStatusTold
<1>5. ~DueUpdate(k)
  <2>1. PICK R : Order \in Seq(ChangeSet(R)) /\ Len(Order) = Len(changes)
    BY <1>1 DEF FilesOK, ChangesTyped
  <2>2. Len(changes) \in Nat /\ cursor \in Nat /\ DOMAIN Order = 1..Len(changes)
    BY <2>1, LenProperties DEF FilesOK
  <2>3. \A i \in DOMAIN Order : ~Ahead(i)
    BY <1>1, <2>2 DEF Ahead
  <2> QED
    BY <2>3 DEF DueUpdate
<1>6. CASE DueProblem(k)
  <2>1. k \in DOMAIN ProblemStates
    BY <1>6 DEF DueProblem, ProblemStates
  <2>2. \A p \in problems : p.key = k => ~p.isError /\ \E s \in Stored \ InService : k = Key(s)
    BY <1>1 DEF PlanOK
  <2>3. o \notin InService
    BY <1>6, <2>2, StoredKinds DEF DueProblem, InOrder
  <2>4. told'[k] = "Warning"
    BY <1>4, <2>1, <2>2 DEF ProblemStates
  <2> QED
    BY <1>2, <2>3, <2>4 DEF Right, State
<1>7. CASE ~DueProblem(k)
  <2>1. k \notin DOMAIN ProblemStates
    BY <1>1, <1>7 DEF DueProblem, ProblemStates
  <2>2. Right(o)
    BY <1>5, <1>7 DEF StatusOK
  <2> QED
    BY <1>1, <1>2, <1>4, <2>1, <2>2 DEF Right, InRunning
<1> QED
  BY <1>6, <1>7

LEMMA StatusStep ==
  ASSUME VersionsTold, NamesKept, StatusesOK, ListersOK, WorkerOK, InOrder, InOrder',
         ForwardOK, AliveOK, PlanOK, PlanOK', FilesOK, FilesOK', failures \in Nat, StatusOK,
         [AllNext]_allVars
  PROVE  StatusOK'
<1>1. CASE Syncing /\ Synced
  BY <1>1, SyncStatus
<1>2. CASE ProcessChange
  BY <1>2, ProcessChangeStatus
<1>3. CASE UpdateTransportServers
  BY <1>3, UpdateTransportServersStatus
<1>4. CASE ReloadTransportServers
  BY <1>4, ReloadTransportServersStatus
<1>5. CASE FinishSync
  BY <1>5, FinishSyncStatus
<1>6. ASSUME UNCHANGED <<vars, running, failures>>,
             worker = "changes" => UNCHANGED <<worker, current, cursor>>,
             \A o \in Stored : o.kind # "Ingress" /\ Exists(cluster', Key(o)) =>
               Exists(cluster, Key(o)) /\ told'[Key(o)] = told[Key(o)]
      PROVE  StatusOK'
  <2>1. /\ Stored' = Stored /\ InService' = InService /\ changes' = changes /\ problems' = problems
        /\ \A o : State(o)' = State(o)
    BY <1>6, Unmoved
  <2>2. \A k : (DueUpdate(k) => DueUpdate(k)') /\ (DueProblem(k) => DueProblem(k)')
    BY <1>6, <2>1 DEF DueUpdate, DueProblem, Ahead, Order
  <2>3. \A o : Right(o) /\ told'[Key(o)] = told[Key(o)] => Right(o)'
    BY <1>6, <2>1 DEF Right, InRunning
  <2> QED
    BY <1>6, <2>1, <2>2, <2>3 DEF StatusOK
<1>7. CASE Edit
  <2>1. Stored \subseteq Objects
    BY StoredObjects DEF InOrder
  <2>2. \A o \in Stored : o.kind # "Ingress" /\ Exists(cluster', Key(o)) =>
          Exists(cluster, Key(o)) /\ told'[Key(o)] = told[Key(o)]
    BY <1>7, <2>1, EditSpares DEF ForwardOK
  <2> QED
    BY <1>6, <1>7, <2>2, EditFrame DEF nginx
<1>8. CASE \E key \in Keys : Observe(key)
  BY <1>6, <1>8 DEF Observe, api, nginx
<1>9. CASE GetTask
  BY <1>6, <1>9 DEF GetTask, api, nginx
<1>10. CASE UNCHANGED allVars
  BY <1>6, <1>10 DEF allVars, api, nginx
<1> QED
  BY <1>1, <1>2, <1>3, <1>4, <1>5, <1>7, <1>8, <1>9, <1>10, StepCases

-----------------------------------------------------------------------------
(* The states of rejected objects *)

\* The worker has yet to report a validation error, as a problem or with a change.
DueError(k) ==
  /\ worker = "changes"
  /\ \/ \E p \in problems : p.key = k /\ p.isError
     \/ /\ current # GlobalConfigurationKey
        /\ \E i \in DOMAIN changes : changes[i].error /\ KeyOf(changes[i]) = k /\ i >= cursor

\* A rejected object that has been synced is shown as Invalid, or will be.
RejectedOK ==
  \A o \in lister \cap (Objects \ Ingresses) :
    Rejected(o) /\ Exists(cluster, Key(o)) /\ ~Pending(Key(o)) =>
      /\ told[Key(o)] = "Invalid" \/ DueError(Key(o))
      /\ worker = "changes" => \A i \in DOMAIN changes : KeyOf(changes[i]) = Key(o) => changes[i].error

LEMMA RejectedNotStored ==
  ASSUME InOrder, ListersOK, LoadedOK, NEW o \in lister \cap Objects, Rejected(o), ~Pending(Key(o))
  PROVE  At(Stored, Key(o)) = {} /\ \A r \in AllOwners : Key(o) \notin Reported(r)
<1>1. Key(o) \in Watched /\ Key(o) # GlobalConfigurationKey
  BY ObjectsAssumption DEF Watched, Keys, Objects, Key, GlobalConfigurationKey
<1>2. Reflects(AcceptedAt(Key(o)), At(Stored, Key(o)))
  BY <1>1 DEF LoadedOK, Loaded
<1>3. At(Stored, Key(o)) = {}
  BY <1>2, RejectedAt DEF Reflects
<1>4. \A r \in AllOwners : r.obj \in Stored /\ \A p \in ToSet(r.attached) : p \in Stored
  BY DEF InOrder, StatesShown, ServedStored
<1> QED
  BY <1>3, <1>4 DEF Reported, ResourceKey, At

\* A validation error marks the only change for its object, or is a problem.
LEMMA ErrorMarked ==
  ASSUME NEW R, NEW cs \in Seq(ChangeSet(R)), NEW ps, NEW o, Rejected(o), RespondTo(o, cs, ps)
  PROVE  \/ \E i \in DOMAIN changes' : changes'[i].error /\ KeyOf(changes'[i]) = Key(o)
         \/ /\ \E p \in problems' : p.key = Key(o) /\ p.isError
            /\ \A i \in DOMAIN changes' : KeyOf(changes'[i]) # Key(o)
<1> DEFINE own == {i \in DOMAIN cs : ResourceKey(cs[i].resource) = Key(o)}
<1>1. CASE own = {}
  <2>1. changes' = cs /\ problems' = ps \cup {Problem(o, TRUE, "Rejected", <<"invalid", 0>>)}
    BY <1>1 DEF RespondTo, Respond
  <2>2. \A i \in DOMAIN cs : KeyOf(cs[i]) # Key(o)
    BY <1>1 DEF KeyOf
  <2>3. /\ Problem(o, TRUE, "Rejected", <<"invalid", 0>>).key = Key(o)
        /\ Problem(o, TRUE, "Rejected", <<"invalid", 0>>).isError
    BY DEF Problem
  <2> QED
    BY <2>1, <2>2, <2>3
<1>2. CASE own # {}
  <2>1. changes' = [cs EXCEPT ![Min(own)].error = TRUE]
    BY <1>2 DEF RespondTo, Respond
  <2>2. DOMAIN cs = 1..Len(cs) /\ Len(cs) \in Nat
    BY LenProperties
  <2>3. own \subseteq Nat
    BY <2>2
  <2> DEFINE n == Min(own)
  <2>4. n \in own
    <3>1. \E x \in own : \A y \in own : x <= y
      BY <1>2, <2>3, LeastNat
    <3> HIDE DEF own
    <3> QED
      BY <3>1 DEF Min
  <2> HIDE DEF n
  <2>5. n \in DOMAIN cs /\ ResourceKey(cs[n].resource) = Key(o) /\ cs[n] \in ChangeSet(R)
    BY <2>2, <2>4, ElementOfSeq
  <2>6. DOMAIN changes' = DOMAIN cs /\ changes'[n] = [cs[n] EXCEPT !.error = TRUE]
    BY <2>1, <2>5 DEF n
  <2>7. changes'[n].error /\ changes'[n].resource = cs[n].resource
    BY <2>5, <2>6 DEF ChangeSet
  <2> QED
    BY <2>5, <2>6, <2>7 DEF KeyOf
<1> QED
  BY <1>1, <1>2

LEMMA SyncRejected ==
  ASSUME ListersOK, WorkerOK, InOrder, InOrder', LoadedOK, RejectedOK, Synced, Syncing
  PROVE  RejectedOK'
<1>1. Next
  BY SyncIsNext DEF Syncing
<1>2. /\ worker = "sync" /\ worker' = "changes" /\ cursor' = 1
      /\ UNCHANGED <<cluster, lister, told, queue, current>>
  BY DEF Synced, api
<1>3. /\ changes' \in Seq(ChangeSet(ResourcesAbout))
      /\ DeletesOwners(changes') /\ OncePerLoser(changes')
  BY <1>1, ChangesAbout, DeletesAbout DEF InOrder
<1>4. \A i \in DOMAIN changes' : i >= cursor' /\ changes'[i].op \in {"Delete", "AddOrUpdate"}
  <2>1. \A i \in DOMAIN changes' : i \in Nat \ {0} /\ changes'[i] \in ChangeSet(ResourcesAbout)
    BY <1>3, LenProperties, ElementOfSeq
  <2> QED
    BY <1>2, <2>1 DEF ChangeSet
<1> SUFFICES ASSUME NEW o \in lister, o \in Objects \ Ingresses, Rejected(o), Exists(cluster, Key(o)), ~Pending(Key(o))'
             PROVE  /\ told'[Key(o)] = "Invalid" \/ DueError(Key(o))'
                    /\ \A i \in DOMAIN changes' : KeyOf(changes'[i]) = Key(o) => changes'[i].error
  BY <1>2 DEF RejectedOK
<1> DEFINE k == Key(o)
<1>5. k # GlobalConfigurationKey /\ AcceptedAt(k) = {}
  BY RejectedAt, ObjectsAssumption DEF Objects, Key, GlobalConfigurationKey
<1>6. \A r \in AllOwners' : r.obj \in Stored'
  BY DEF InOrder, StatesShown, ServedStored
<1>7. At(Stored', k) = {} => \A r \in AllOwners' : ResourceKey(r) # k
  BY <1>6 DEF At, ResourceKey
<1>8. CASE k = current
  <2>1. \A r \in AllOwners' : ResourceKey(r) # k
    BY <1>5, <1>7, <1>8, SyncedAt DEF InOrder
  <2>2. \A i, j \in DOMAIN changes' : KeyOf(changes'[i]) = k /\ KeyOf(changes'[j]) = k => i = j
    BY <1>3, <2>1 DEF OncePerLoser
  <2>3. PICK cs \in Seq(ChangeSet(ResourcesAbout)), ps \in SUBSET (hostProblems' \cup listenerProblems') :
          \A p \in At(lister, current) : RespondTo(p, cs, ps)
    BY <1>5, <1>8, SyncAnswer DEF Syncing, InOrder
  <2>4. RespondTo(o, cs, ps)
    BY <1>8, <2>3 DEF At
  <2>5. \/ \E i \in DOMAIN changes' : changes'[i].error /\ KeyOf(changes'[i]) = k
        \/ /\ \E p \in problems' : p.key = k /\ p.isError
           /\ \A i \in DOMAIN changes' : KeyOf(changes'[i]) # k
    BY <2>4, ErrorMarked
  <2>6. DueError(k)'
    BY <1>2, <1>4, <1>5, <1>8, <2>5 DEF DueError
  <2> QED
    BY <2>2, <2>5, <2>6
<1>9. CASE k # current
  <2>1. ~Pending(k)
    BY <1>2, <1>9 DEF Pending
  <2>2. told[k] = "Invalid"
    BY <1>2, <2>1 DEF RejectedOK, DueError
  <2>3. At(Stored, k) = {} /\ At(Stored', k) = {}
    BY <1>9, <2>1, RejectedNotStored, SyncedAt DEF InOrder
  <2>4. \A r \in AllOwners : ResourceKey(r) # k
    BY <2>3, OwnersStored DEF At, ResourceKey
  <2>5. \A r \in AllOwners' : ResourceKey(r) # k
    BY <1>7, <2>3
  <2>6. ASSUME NEW i \in DOMAIN changes' PROVE KeyOf(changes'[i]) # k
    <3>1. CASE changes'[i].op = "Delete"
      BY <1>3, <2>4, <3>1 DEF DeletesOwners
    <3>2. CASE changes'[i].op = "AddOrUpdate"
      <4>1. changes'[i].resource \in AllOwners'
        BY <1>1, <3>2, UpdatesAbout DEF AllOwners, InOrder
      <4> QED
        BY <2>5, <4>1 DEF KeyOf
    <3> QED
      BY <1>4, <3>1, <3>2
  <2> QED
    BY <1>2, <2>2, <2>6
<1> QED
  BY <1>8, <1>9

LEMMA ProcessChangeRejected ==
  ASSUME StatusesOK, ListersOK, WorkerOK, InOrder, LoadedOK, PlanOK, FilesOK,
         RejectedOK, ProcessChange
  PROVE  RejectedOK'
<1> DEFINE c == changes[cursor]
<1>1. /\ worker = "changes" /\ current # GlobalConfigurationKey
      /\ cursor <= Len(changes) /\ cursor' = cursor + 1
      /\ UNCHANGED <<vars, cluster, lister, worker, current, queue>>
  BY DEF ProcessChange, api
<1>2. PICK ok \in BOOLEAN :
        WriteStatus(IF c.op = "AddOrUpdate" THEN StatesOnUpdate(c.resource, ok)
                                            ELSE StatesOnDelete(c, ok))
  BY DEF ProcessChange
<1>3. changes' = changes /\ problems' = problems
  BY <1>1, Unmoved
<1>4. PICK R : changes \in Seq(ChangeSet(R))
  BY <1>1 DEF FilesOK, ChangesTyped, Order
<1>5. /\ cursor \in DOMAIN changes /\ c \in ChangeSet(R) /\ cursor \in Nat
      /\ DOMAIN changes = 1..Len(changes) /\ Len(changes) \in Nat
  BY <1>1, <1>4, LenProperties, ElementOfSeq DEF FilesOK
<1>6. c.op \in {"Delete", "AddOrUpdate"} /\ c \in ToSet(changes)
  BY <1>5 DEF ChangeSet, ToSet
<1> SUFFICES ASSUME NEW o \in lister, o \in Objects \ Ingresses, Rejected(o), Exists(cluster, Key(o)), ~Pending(Key(o))
             PROVE  /\ told'[Key(o)] = "Invalid" \/ DueError(Key(o))'
                    /\ \A i \in DOMAIN changes : KeyOf(changes[i]) = Key(o) => changes[i].error
  BY <1>1, <1>3 DEF RejectedOK, Pending
<1> DEFINE k == Key(o)
<1>7. \A i \in DOMAIN changes : KeyOf(changes[i]) = k => changes[i].error
  BY <1>1 DEF RejectedOK
<1>8. told[k] = "Invalid" \/ DueError(k)
  BY DEF RejectedOK
<1>9. c.op = "AddOrUpdate" => k \notin Reported(c.resource)
  BY <1>1, <1>6, RejectedNotStored DEF PlanOK
<1>10. k \in StatusKeys /\ Exists(lister, k)
  BY DEF StatusKeys, Exists, At
<1> DEFINE states == IF c.op = "AddOrUpdate" THEN StatesOnUpdate(c.resource, ok) ELSE StatesOnDelete(c, ok)
<1>11. told'[k] = IF k \in DOMAIN states THEN states[k] ELSE told[k]
  BY <1>1, <1>2, <1>10, WriteStatusTold
<1>12. CASE c.op = "Delete" /\ KeyOf(c) = k
  <2>1. c.error
    BY <1>5, <1>7, <1>12
  <2> HIDE DEF c
  <2>2. k \in DOMAIN StatesOnDelete(c, ok) /\ StatesOnDelete(c, ok)[k] = "Invalid"
    BY <1>10, <1>12, <2>1 DEF StatesOnDelete, KeyOf
  <2>3. told'[k] = "Invalid"
    BY <1>11, <1>12, <2>2
  <2> QED
    BY <1>7, <2>3
<1>13. CASE ~(c.op = "Delete" /\ KeyOf(c) = k)
  <2>1. KeyOf(c) # k
    BY <1>6, <1>9, <1>13 DEF Reported, KeyOf
  <2>2. k \notin DOMAIN states
    <3>1. CASE c.op = "AddOrUpdate"
      BY <1>9, <3>1 DEF StatesOnUpdate, Reported
    <3>2. CASE c.op = "Delete"
      BY <2>1, <3>2, DeleteStates
    <3> QED
      BY <1>6, <3>1, <3>2
  <2>3. told'[k] = told[k]
    BY <1>11, <2>2
  <2>4. DueError(k) => DueError(k)'
    <3>1. \A i \in DOMAIN changes : KeyOf(changes[i]) = k /\ i >= cursor => i >= cursor + 1
      BY <1>5, <2>1
    <3> QED
      BY <1>1, <1>3, <3>1 DEF DueError
  <2> QED
    BY <1>7, <1>8, <2>3, <2>4
<1> QED
  BY <1>12, <1>13

LEMMA ReloadTransportServersRejected ==
  ASSUME StatusesOK, ListersOK, WorkerOK, InOrder, LoadedOK, PlanOK,
         RejectedOK, ReloadTransportServers
  PROVE  RejectedOK'
<1> DEFINE updated == {c.resource : c \in {d \in ToSet(changes) : d.op = "AddOrUpdate"}}
           states(ok) == [k \in {ResourceKey(r) : r \in updated} |->
                            StateAfter((CHOOSE r \in updated : ResourceKey(r) = k).warnings, ok)]
<1>1. /\ worker = "changes" /\ current = GlobalConfigurationKey
      /\ UNCHANGED <<vars, cluster, lister, worker, current, queue>>
  BY DEF ReloadTransportServers, api
<1>2. PICK ok \in BOOLEAN : WriteStatus(states(ok))
  BY DEF ReloadTransportServers
<1>3. changes' = changes /\ problems' = problems
  BY <1>1, Unmoved
<1>4. DOMAIN states(ok) = {ResourceKey(r) : r \in updated} /\ \A r \in updated : r \in AllOwners
  BY <1>1 DEF PlanOK
<1> HIDE DEF updated, states
<1> SUFFICES ASSUME NEW o \in lister, o \in Objects \ Ingresses, Rejected(o), Exists(cluster, Key(o)), ~Pending(Key(o))
             PROVE  /\ told'[Key(o)] = "Invalid" \/ DueError(Key(o))'
                    /\ \A i \in DOMAIN changes : KeyOf(changes[i]) = Key(o) => changes[i].error
  BY <1>1, <1>3 DEF RejectedOK, Pending
<1>5. Key(o) \notin DOMAIN states(ok)
  BY <1>4, RejectedNotStored DEF Reported
<1>6. Key(o) \in StatusKeys
  BY DEF StatusKeys
<1>7. told'[Key(o)] = told[Key(o)]
  BY <1>1, <1>2, <1>5, <1>6, WriteStatusTold
<1>8. DueError(Key(o)) => DueError(Key(o))'
  BY <1>1, <1>3 DEF DueError
<1> QED
  BY <1>1, <1>7, <1>8 DEF RejectedOK

LEMMA FinishSyncRejected ==
  ASSUME StatusesOK, ListersOK, WorkerOK, InOrder, LoadedOK, PlanOK, FilesOK,
         RejectedOK, FinishSync
  PROVE  RejectedOK'
<1>1. /\ worker = "changes" /\ worker' = "idle"
      /\ cursor > Len(changes) + (IF current = GlobalConfigurationKey THEN 1 ELSE 0)
      /\ WriteStatus(ProblemStates) /\ queue' = Done(queue, current)
      /\ UNCHANGED <<cluster, lister>>
  BY DEF FinishSync, api
<1>2. queue'.dirty = queue.dirty
  BY <1>1, DoneOK DEF WorkerOK
<1> SUFFICES ASSUME NEW o \in lister, o \in Objects \ Ingresses, Rejected(o), Exists(cluster, Key(o)), ~Pending(Key(o))
             PROVE  told'[Key(o)] = "Invalid"
  BY <1>1, <1>2 DEF RejectedOK, Pending
<1> DEFINE k == Key(o)
<1>3. At(Stored, k) = {}
  BY RejectedNotStored
<1>4. \A p \in problems : p.key = k => p.isError
  BY <1>1, <1>3 DEF PlanOK, At
<1>5. k \in StatusKeys /\ Exists(lister, k)
  BY DEF StatusKeys, Exists, At
<1>6. told'[k] = IF k \in DOMAIN ProblemStates THEN ProblemStates[k] ELSE told[k]
  BY <1>1, <1>5, WriteStatusTold
<1>7. CASE k \in DOMAIN ProblemStates
  BY <1>4, <1>6, <1>7 DEF ProblemStates
<1>8. CASE k \notin DOMAIN ProblemStates
  <2>1. ~DueError(k)
    <3>1. \A p \in problems : p.key # k
      BY <1>8 DEF ProblemStates
    <3>2. CASE current # GlobalConfigurationKey
      <4>1. PICK R : changes \in Seq(ChangeSet(R))
        BY <1>1, <3>2 DEF FilesOK, ChangesTyped, Order
      <4>2. Len(changes) \in Nat /\ cursor \in Nat /\ DOMAIN changes = 1..Len(changes)
        BY <4>1, LenProperties DEF FilesOK
      <4>3. \A i \in DOMAIN changes : ~(i >= cursor)
        BY <1>1, <3>2, <4>2
      <4> QED
        BY <3>1, <4>3 DEF DueError
    <3>3. CASE current = GlobalConfigurationKey
      BY <3>1, <3>3 DEF DueError
    <3> QED
      BY <3>2, <3>3
  <2>2. told[k] = "Invalid"
    BY <2>1 DEF RejectedOK
  <2> QED
    BY <1>6, <1>8, <2>2
<1> QED
  BY <1>7, <1>8

\* An event that leads to no task brings no news of a rejected object.
LEMMA ObserveRejected ==
  ASSUME NamesKept, ListersOK, WorkerOK, RejectedOK, NEW key \in Keys, Observe(key)
  PROVE  RejectedOK'
<1>1. /\ lister' = (lister \ At(lister, key)) \cup At(cluster, key)
      /\ UNCHANGED <<vars, cluster, told, worker, current, cursor>>
      /\ queue' = IF MustEnqueue(key) THEN Add(queue, key) ELSE queue
  BY DEF Observe, api
<1>2. queue.dirty \subseteq queue'.dirty /\ (MustEnqueue(key) => key \in queue'.dirty)
  BY <1>1, AddOK DEF WorkerOK
<1>3. changes' = changes /\ problems' = problems
  BY <1>1, Unmoved
<1>4. \A k : DueError(k) => DueError(k)'
  BY <1>1, <1>3 DEF DueError
<1> SUFFICES ASSUME NEW o \in lister', o \in Objects \ Ingresses, Rejected(o), Exists(cluster, Key(o)), ~Pending(Key(o))'
             PROVE  /\ told[Key(o)] = "Invalid" \/ DueError(Key(o))'
                    /\ worker = "changes" => \A i \in DOMAIN changes : KeyOf(changes[i]) = Key(o) => changes[i].error
  BY <1>1, <1>3 DEF RejectedOK
<1>5. ~Pending(Key(o))
  BY <1>1, <1>2 DEF Pending
<1>6. \E p \in lister \cap (Objects \ Ingresses) : Key(p) = Key(o) /\ Rejected(p)
  <2>1. CASE Key(o) # key
    BY <1>1, <2>1 DEF At
  <2>2. CASE Key(o) = key
    <3>1. key # GlobalConfigurationKey
      BY <2>2, ObjectsAssumption DEF Objects, Key, GlobalConfigurationKey
    <3>2. ~MustEnqueue(key)
      BY <1>2, <2>2 DEF Pending
    <3>3. Reflects(At(cluster, key), At(lister, key))
      BY <3>1, <3>2, Unnoticed
    <3>4. o \in At(cluster, key)
      BY <1>1, <2>2 DEF At
    <3>5. PICK p \in At(lister, key) : Same(o, p)
      BY <3>3, <3>4 DEF Reflects
    <3>6. Key(p) = Key(o) /\ p.kind = o.kind /\ Rejected(p)
      BY <3>5, SameFields DEF Rejected
    <3>7. p \in lister /\ p \in ApiObjects
      BY <3>5 DEF ListersOK, At
    <3>8. o.kind \in {"VirtualServer", "VirtualServerRoute", "TransportServer"}
      BY ObjectsAssumption DEF Objects
    <3>9. p \in Objects \ Ingresses
      BY <3>6, <3>7, <3>8, ObjectsAssumption DEF ApiObjects, GlobalConfigurationObjects
    <3> QED
      BY <3>6, <3>7, <3>9
  <2> QED
    BY <2>1, <2>2
<1> QED
  BY <1>4, <1>5, <1>6 DEF RejectedOK

LEMMA RejectedStep ==
  ASSUME NamesKept, StatusesOK, ListersOK, WorkerOK, InOrder, InOrder', ForwardOK,
         LoadedOK, PlanOK, FilesOK, RejectedOK, [AllNext]_allVars
  PROVE  RejectedOK'
<1>1. CASE Syncing /\ Synced
  BY <1>1, SyncRejected
<1>2. CASE ProcessChange
  BY <1>2, ProcessChangeRejected
<1>3. CASE ReloadTransportServers
  BY <1>3, ReloadTransportServersRejected
<1>4. CASE FinishSync
  BY <1>4, FinishSyncRejected
<1>5. CASE \E key \in Keys : Observe(key)
  BY <1>5, ObserveRejected
<1>6. ASSUME UNCHANGED <<vars, lister>>, \A k : Pending(k) => Pending(k)',
             \A k : DueError(k) => DueError(k)', worker' = "changes" => worker = "changes",
             \A o \in lister \cap (Objects \ Ingresses) : Exists(cluster', Key(o)) =>
               Exists(cluster, Key(o)) /\ told'[Key(o)] = told[Key(o)]
      PROVE  RejectedOK'
  <2>1. changes' = changes
    BY <1>6, Unmoved
  <2> QED
    BY <1>6, <2>1 DEF RejectedOK
<1>7. CASE Edit
  <2>1. UNCHANGED <<vars, lister, queue, worker, current, cursor>>
    BY <1>7, EditFrame
  <2>2. ASSUME NEW o \in lister \cap (Objects \ Ingresses), Exists(cluster', Key(o))
        PROVE  Exists(cluster, Key(o)) /\ told'[Key(o)] = told[Key(o)]
    <3>1. o.uid \in used /\ o.kind # "Ingress"
      BY ObjectsAssumption DEF ForwardOK, Objects
    <3> QED
      BY <1>7, <2>2, <3>1, EditSpares
  <2>3. \A k : (Pending(k) => Pending(k)') /\ (DueError(k) => DueError(k)')
    BY <2>1, Unmoved DEF Pending, DueError
  <2> QED
    BY <1>6, <2>1, <2>2, <2>3
<1>8. CASE GetTask
  <2>1. /\ worker = "idle" /\ worker' = "sync" /\ CanGet(queue)
        /\ UNCHANGED <<vars, lister, cluster, told>>
        /\ queue' = Get(queue) /\ current' = Head(queue.items)
    BY <1>8 DEF GetTask, api
  <2>2. queue'.dirty = queue.dirty \ {current'}
    BY <2>1, GetOK DEF WorkerOK
  <2>3. \A k : (Pending(k) => Pending(k)') /\ (DueError(k) => DueError(k)')
    BY <2>1, <2>2 DEF Pending, DueError
  <2> QED
    BY <1>6, <2>1, <2>3
<1>9. CASE UpdateTransportServers
  <2>1. /\ worker = "changes" /\ current = GlobalConfigurationKey
        /\ UNCHANGED <<vars, lister, cluster, told, worker, queue, current>>
    BY <1>9 DEF UpdateTransportServers, api
  <2>2. \A k : (Pending(k) => Pending(k)') /\ (DueError(k) => DueError(k)')
    BY <2>1, Unmoved DEF Pending, DueError
  <2> QED
    BY <1>6, <2>1, <2>2
<1>10. CASE UNCHANGED allVars
  <2>1. UNCHANGED <<vars, lister, cluster, told, worker, queue, current, cursor>>
    BY <1>10 DEF allVars, api
  <2>2. \A k : (Pending(k) => Pending(k)') /\ (DueError(k) => DueError(k)')
    BY <2>1, Unmoved DEF Pending, DueError
  <2> QED
    BY <1>6, <2>1, <2>2
<1> QED
  BY <1>1, <1>2, <1>3, <1>4, <1>5, <1>7, <1>8, <1>9, <1>10, StepCases

-----------------------------------------------------------------------------
(* The states that users see *)

ReportsOK == AliveOK /\ PlanOK /\ StatusOK /\ RejectedOK

LEMMA ReportsInvariant ==
  ASSUME VersionsTold, NamesKept, PassthroughKept
  PROVE  AllSpec => []ReportsOK
<1>1. AllInit => ReportsOK
  <2>1. AllInit => Stored = {} /\ lister = {} /\ worker = "idle"
    BY DEF AllInit, Init, Stored
  <2> QED
    BY <2>1 DEF ReportsOK, AliveOK, PlanOK, StatusOK, RejectedOK
<1>2. ListersOK /\ WorkerOK /\ StatusesOK /\ InOrder /\ InOrder' /\ ForwardOK /\ LoadedOK
        /\ FilesOK /\ FilesOK' /\ RunningOK /\ ReportsOK /\ [AllNext]_allVars => ReportsOK'
  <2> SUFFICES ASSUME ListersOK, WorkerOK, StatusesOK, InOrder, InOrder', ForwardOK, LoadedOK,
                      FilesOK, FilesOK', RunningOK, ReportsOK, [AllNext]_allVars
               PROVE  ReportsOK'
    OBVIOUS
  <2>1. AliveOK /\ PlanOK /\ StatusOK /\ RejectedOK /\ failures \in Nat
    BY DEF ReportsOK, RunningOK
  <2>2. AliveOK' /\ PlanOK'
    BY <2>1, AliveStep, PlanStep
  <2>3. StatusOK' /\ RejectedOK'
    BY <2>1, <2>2, StatusStep, RejectedStep
  <2> QED
    BY <2>2, <2>3 DEF ReportsOK
<1> QED
  BY <1>1, <1>2, ListersInvariant, WorkerInvariant, StatusesInvariant, InOrderInvariant,
     ForwardInvariant, LoadedInvariant, FilesInvariant, RunningInvariant,
     HostOwnersStayInvariant, PTL DEF AllSpec

LEMMA RejectedShown ==
  ASSUME ListersOK, WorkerOK, RejectedOK, Quiescent,
         NEW o \in cluster \cap (Objects \ Ingresses), Rejected(o)
  PROVE  told[Key(o)] = "Invalid"
<1>1. lister = cluster /\ worker = "idle" /\ queue.items = <<>>
  BY DEF Quiescent
<1>2. queue.dirty = {}
  BY <1>1 DEF WorkerOK, WellFormed, Queues
<1>3. ~Pending(Key(o)) /\ ~DueError(Key(o)) /\ Exists(cluster, Key(o))
  BY <1>1, <1>2 DEF Pending, DueError, Exists, At
<1> QED
  BY <1>1, <1>3 DEF RejectedOK

LEMMA AcceptedShown ==
  ASSUME StoresOK, ListersOK, WorkerOK, LoadedOK, StatusOK, Quiescent,
         NEW o \in cluster \cap (Objects \ Ingresses), Accepted(o)
  PROVE  \E p \in Stored : Same(o, p) /\ Right(p)
<1>1. PICK p \in Stored : Same(o, p)
  BY QuiescentSynced DEF SyncedUp
<1>2. Key(p) = Key(o) /\ p.kind = o.kind /\ o.kind # "Ingress"
  BY <1>1, SameFields, ObjectsAssumption DEF Objects
<1>3. worker = "idle" /\ Exists(cluster, Key(p))
  BY <1>2 DEF Quiescent, Exists, At
<1> QED
  BY <1>1, <1>2, <1>3 DEF StatusOK, DueUpdate, DueProblem

\* ValidMeansRunning holds for any objects and any edits, also when reloads fail,
\* however far the copies of the statuses in the listers are behind.
THEOREM ValidMeansRunningInvariant ==
  ASSUME VersionsTold, NamesKept, PassthroughKept
  PROVE  AllSpec => []ValidMeansRunning
<1>1. ListersOK /\ WorkerOK /\ InOrder /\ LoadedOK /\ ReportsOK /\ SkippedOK => ValidMeansRunning
  <2> SUFFICES ASSUME ListersOK, WorkerOK, InOrder, LoadedOK, ReportsOK, SkippedOK, Quiescent,
                      NEW o \in cluster \cap (VirtualServers \cup TransportServers),
                      o.class, status[Key(o)] = "Valid", Key(o) \notin skipped
               PROVE  \E f \in running : f.key = Key(o) /\ f.spec = ConfigSpec(o)
    BY DEF ValidMeansRunning
  <2>1. o \in cluster \cap (Objects \ Ingresses) /\ o.kind # "VirtualServerRoute"
    BY ObjectsAssumption DEF Objects
  <2>5. told[Key(o)] = "Valid"
    BY <2>1 DEF SkippedOK, StatusKeys
  <2>2. Accepted(o)
    BY <2>1, <2>5, RejectedShown DEF Accepted, Rejected, ReportsOK
  <2>3. PICK p \in Stored : Same(o, p) /\ Right(p)
    BY <2>1, <2>2, AcceptedShown DEF InOrder, ReportsOK
  <2>4. Key(p) = Key(o) /\ p.kind = o.kind /\ ConfigSpec(p) = ConfigSpec(o)
    BY <2>3, SameFields
  <2> QED
    BY <2>1, <2>3, <2>4, <2>5 DEF Right, InRunning
<1> QED
  BY <1>1, ReportsInvariant, ListersInvariant, WorkerInvariant, InOrderInvariant,
     LoadedInvariant, SkippedInvariant, PTL

\* StatusTruthful holds for any objects and any edits, however far the copies of
\* the statuses in the listers are behind.
THEOREM StatusTruthfulInvariant ==
  ASSUME VersionsTold, NamesKept, PassthroughKept
  PROVE  AllSpec => []StatusTruthful
<1>1. ListersOK /\ WorkerOK /\ InOrder /\ LoadedOK /\ ReportsOK /\ SkippedOK => StatusTruthful
  <2> SUFFICES ASSUME ListersOK, WorkerOK, InOrder, LoadedOK, ReportsOK, SkippedOK, Quiescent,
                      failures = 0, NEW o \in cluster \cap (Objects \ Ingresses), o.class
               PROVE  told[Key(o)] = Expected(o)
    BY DEF StatusTruthful, SkippedOK, StatusKeys
  <2>3. Expected(o) =
          IF ~o.valid THEN "Invalid"
          ELSE IF \E p \in {q \in InService : Key(q) = Key(o) /\ SpecOf(q) = SpecOf(o)} :
                    HostWarnings(p) = {} THEN "Valid" ELSE "Warning"
    BY DEF Expected, HostWarnings
  <2>1. CASE ~o.valid
    BY <2>1, <2>3, RejectedShown DEF Rejected, ReportsOK
  <2>2. CASE o.valid
    <3>1. PICK p \in Stored : Same(o, p) /\ Right(p)
      BY <2>2, AcceptedShown DEF Accepted, InOrder, ReportsOK
    <3>2. Key(p) = Key(o) /\ SpecOf(p) = SpecOf(o) /\ told[Key(o)] = State(p)
      BY <3>1 DEF Same, Right
    <3>3. \A q \in InService : Key(q) = Key(o) => q = p
      BY <3>2, StoredKinds DEF InOrder, StatesShown, ServedStored
    <3>4. (\E q \in {s \in InService : Key(s) = Key(o) /\ SpecOf(s) = SpecOf(o)} : HostWarnings(q) = {})
            <=> p \in InService /\ HostWarnings(p) = {}
      BY <3>2, <3>3
    <3> QED
      BY <2>2, <2>3, <3>2, <3>4 DEF State
  <2> QED
    BY <2>1, <2>2
<1> QED
  BY <1>1, ReportsInvariant, ListersInvariant, WorkerInvariant, InOrderInvariant,
     LoadedInvariant, SkippedInvariant, PTL
=============================================================================
