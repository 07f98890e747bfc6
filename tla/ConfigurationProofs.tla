------------------------ MODULE ConfigurationProofs ------------------------
(***************************************************************************)
(* Proofs about Configuration, for any set of objects and any history of   *)
(* operations on them.                                                     *)
(***************************************************************************)
EXTENDS Configuration, OperatorProofs, TLAPS

-----------------------------------------------------------------------------
(* The stores *)

\* Storing or dropping an object keeps a set of accepted objects with unique
\* keys a set of accepted objects with unique keys.
LEMMA PutOK ==
  ASSUME NEW K, NEW S, S \subseteq {o \in K : Accepted(o)}, UniqueKeys(S), NEW o \in K
  PROVE  Put(S, o) \subseteq {p \in K : Accepted(p)} /\ UniqueKeys(Put(S, o))
BY DEF Put, UniqueKeys

LEMMA WithoutOK ==
  ASSUME NEW K, NEW S, S \subseteq {o \in K : Accepted(o)}, UniqueKeys(S), NEW key
  PROVE  Without(S, key) \subseteq {p \in K : Accepted(p)} /\ UniqueKeys(Without(S, key))
BY DEF Without, UniqueKeys

\* No operation breaks the stores, whatever validity and class the versions
\* it is given have.
THEOREM StoresInvariant == Spec => []StoresOK
<1>1. Init => StoresOK
  BY DEF Init, StoresOK, UniqueKeys
<1>2. StoresOK /\ [Next]_vars => StoresOK'
  <2> SUFFICES ASSUME StoresOK, [Next]_vars PROVE StoresOK'
    OBVIOUS
  <2> USE DEF StoresOK
  <2>1. ASSUME NEW o \in Ingresses, AddOrUpdateIngress(o) PROVE StoresOK'
    BY <2>1, PutOK DEF AddOrUpdateIngress
  <2>2. ASSUME NEW o \in Ingresses, DeleteIngress(Key(o)) PROVE StoresOK'
    BY <2>2, WithoutOK DEF DeleteIngress, NothingToDelete, objects
  <2>3. ASSUME NEW o \in VirtualServers, AddOrUpdateVirtualServer(o) PROVE StoresOK'
    BY <2>3, PutOK DEF AddOrUpdateVirtualServer
  <2>4. ASSUME NEW o \in VirtualServers, DeleteVirtualServer(Key(o)) PROVE StoresOK'
    BY <2>4, WithoutOK DEF DeleteVirtualServer, NothingToDelete, objects
  <2>5. ASSUME NEW o \in VirtualServerRoutes, AddOrUpdateVirtualServerRoute(o)
        PROVE StoresOK'
    BY <2>5, PutOK DEF AddOrUpdateVirtualServerRoute
  <2>6. ASSUME NEW o \in VirtualServerRoutes, DeleteVirtualServerRoute(Key(o))
        PROVE StoresOK'
    BY <2>6, WithoutOK DEF DeleteVirtualServerRoute, NothingToDelete, objects
  <2>7. ASSUME NEW o \in TransportServers, AddOrUpdateTransportServer(o) PROVE StoresOK'
    BY <2>7, PutOK DEF AddOrUpdateTransportServer
  <2>8. ASSUME NEW o \in TransportServers, DeleteTransportServer(Key(o)) PROVE StoresOK'
    BY <2>8, WithoutOK DEF DeleteTransportServer, NothingToDelete, objects
  <2>9. ASSUME NEW gc \in GlobalConfigurations, AddOrUpdateGlobalConfiguration(gc)
        PROVE StoresOK'
    BY <2>9 DEF AddOrUpdateGlobalConfiguration, ValidateGlobalConfiguration, ToSet, TLSPassthrough
  <2>10. CASE DeleteGlobalConfiguration
    BY <2>10 DEF DeleteGlobalConfiguration
  <2>11. CASE UNCHANGED vars
    BY <2>11 DEF vars, objects
  <2> QED
    BY <2>1, <2>2, <2>3, <2>4, <2>5, <2>6, <2>7, <2>8, <2>9, <2>10, <2>11 DEF Next
<1> QED
  BY <1>1, <1>2, PTL DEF Spec

-----------------------------------------------------------------------------
(* Hosts *)

\* The part of HostOwnership that every operation preserves or restores.
HostsInv ==
  /\ DOMAIN hosts = UNION {o.hosts : o \in HostObjects}
  /\ \A h \in DOMAIN hosts : hosts[h].obj = Holder(HostClaimants(h))

\* Stored objects are told apart by their UIDs.
LEMMA HostObjectsOK ==
  StoresOK => /\ HostObjects \subseteq Objects
              /\ \A o \in HostObjects :
                   o.kind \in {"Ingress", "VirtualServer", "TransportServer"}
              /\ \A o, p \in HostObjects : o # p => o.uid # p.uid
<1> SUFFICES ASSUME StoresOK
             PROVE  /\ HostObjects \subseteq Objects
                    /\ \A o \in HostObjects :
                         o.kind \in {"Ingress", "VirtualServer", "TransportServer"}
                    /\ \A o, p \in HostObjects : o # p => o.uid # p.uid
  OBVIOUS
<1>1. HostObjects \subseteq Objects
  BY DEF StoresOK, HostObjects, Objects
<1>2. \A o \in HostObjects : o.kind \in {"Ingress", "VirtualServer", "TransportServer"}
  BY ObjectsAssumption DEF StoresOK, HostObjects
<1>3. \A o, p \in HostObjects : o # p => Key(o) # Key(p)
  <2>1. \A o, p \in HostObjects : Key(o) = Key(p) => o.kind = p.kind
    BY DEF Key
  <2>2. \A o \in HostObjects :
          /\ o.kind = "Ingress" => o \in ingresses
          /\ o.kind = "VirtualServer" => o \in virtualServers
          /\ o.kind = "TransportServer" => o \in transportServers
    BY ObjectsAssumption DEF StoresOK, HostObjects
  <2>3. UniqueKeys(ingresses) /\ UniqueKeys(virtualServers) /\ UniqueKeys(transportServers)
    BY DEF StoresOK
  <2> QED
    BY <1>2, <2>1, <2>2, <2>3 DEF UniqueKeys
<1> QED
  BY <1>1, <1>2, <1>3, ObjectsAssumption

\* Every host that is asked for has a senior claimant, and the resource built
\* for an object has that object behind it.
LEMMA HostHolder ==
  StoresOK => \A h \in UNION {o.hosts : o \in HostObjects} :
                LET C == HostClaimants(h)
                IN /\ Holder(C) \in C
                   /\ \A p \in C \ {Holder(C)} : Senior(Holder(C), p)
                   /\ Resource(Holder(C)).obj = Holder(C)
<1> SUFFICES ASSUME StoresOK, NEW h \in UNION {o.hosts : o \in HostObjects}
             PROVE  LET C == HostClaimants(h)
                    IN /\ Holder(C) \in C
                       /\ \A p \in C \ {Holder(C)} : Senior(Holder(C), p)
                       /\ Resource(Holder(C)).obj = Holder(C)
  OBVIOUS
<1> DEFINE C == HostClaimants(h)
<1>1. /\ C \subseteq HostObjects
      /\ C # {}
  BY DEF HostClaimants
<1>2. /\ Holder(C) \in C
      /\ \A p \in C \ {Holder(C)} : Senior(Holder(C), p)
  <2>1. Ranked(C, MaxUID)
    <3>1. MaxUID \in Nat
      BY ObjectsAssumption
    <3>2. ASSUME NEW o \in C PROVE o.created \in Nat /\ o.uid \in 0..MaxUID
      <4>1. o \in ObjectType
        BY <1>1, HostObjectsOK, ObjectsAssumption
      <4> QED
        BY <4>1 DEF ObjectType
    <3>3. \A o, p \in C : o # p => o.uid # p.uid
      <4> HIDE DEF C
      <4> QED
        BY <1>1, HostObjectsOK
    <3> QED
      BY <3>1, <3>2, <3>3 DEF Ranked
  <2> HIDE DEF C
  <2> QED
    BY <1>1, <2>1, SeniorExists
<1>3. \A o \in HostObjects : Resource(o).obj = o
  BY HostObjectsOK DEF Resource, IngressConfiguration, VirtualServerConfiguration,
                       TransportServerConfiguration
<1> QED
  BY <1>1, <1>2, <1>3

\* The object behind every entry of a freshly built hosts map is the senior
\* claimant of the host.
HostsBuilt ==
  \A h \in UNION {o.hosts : o \in HostObjects} :
    Resource(Holder(HostClaimants(h))).obj = Holder(HostClaimants(h))

LEMMA HostsBuiltNow == StoresOK => HostsBuilt
BY HostHolder DEF HostsBuilt

LEMMA HostsBuiltNext == StoresOK' => HostsBuilt'
BY HostsBuiltNow, PTL

\* rebuildHosts establishes HostsInv from any state.
LEMMA RebuildHostsOK == StoresOK' /\ RebuildHosts => HostsInv'
<1> SUFFICES ASSUME StoresOK', RebuildHosts PROVE HostsInv'
  OBVIOUS
<1>1. HostsBuilt'
  BY HostsBuiltNext
<1> QED
  BY <1>1 DEF HostsBuilt, RebuildHosts, NewHosts, HostsInv

\* hosts always names the senior claimant of every host that is asked for,
\* whatever sequence of updates and deletes led there.
THEOREM HostOwnershipInvariant == Spec => []HostOwnership
<1>1. Init => HostsInv
  BY DEF Init, HostsInv, HostObjects
<1>2. StoresOK' /\ HostsInv /\ [Next]_vars => HostsInv'
  <2> SUFFICES ASSUME StoresOK', HostsInv, [Next]_vars PROVE HostsInv'
    OBVIOUS
  <2>1. ASSUME UNCHANGED <<ingresses, virtualServers, hosts>>,
               UNCHANGED transportServers \/ ~IsTLSPassthroughEnabled
        PROVE  HostsInv'
    <3>1. HostObjects' = HostObjects
      BY <2>1 DEF HostObjects
    <3>2. \A h : HostClaimants(h)' = HostClaimants(h)
      BY <3>1 DEF HostClaimants
    <3> QED
      BY <2>1, <3>1, <3>2 DEF HostsInv
  <2>2. CASE RebuildHosts
    BY <2>2, RebuildHostsOK
  <2>3. ASSUME NEW key, NEW S, NothingToDelete(key, S) PROVE HostsInv'
    BY <2>1, <2>3 DEF NothingToDelete, objects
  <2>4. ASSUME NEW o \in TransportServers,
               AddOrUpdateTransportServer(o) \/ DeleteTransportServer(Key(o))
        PROVE  HostsInv'
    BY <2>1, <2>2, <2>3, <2>4
       DEF AddOrUpdateTransportServer, DeleteTransportServer, RebuildForTransportServer
  <2>5. ASSUME NEW gc, AddOrUpdateGlobalConfiguration(gc) PROVE HostsInv'
    BY <2>1, <2>5 DEF AddOrUpdateGlobalConfiguration
  <2>6. CASE DeleteGlobalConfiguration
    BY <2>1, <2>6 DEF DeleteGlobalConfiguration
  <2>7. ASSUME NEW o, AddOrUpdateIngress(o) \/ DeleteIngress(Key(o)) PROVE HostsInv'
    BY <2>2, <2>3, <2>7 DEF AddOrUpdateIngress, DeleteIngress
  <2>8. ASSUME NEW o, AddOrUpdateVirtualServer(o) \/ DeleteVirtualServer(Key(o))
        PROVE  HostsInv'
    BY <2>2, <2>3, <2>8 DEF AddOrUpdateVirtualServer, DeleteVirtualServer
  <2>9. ASSUME NEW o, AddOrUpdateVirtualServerRoute(o) \/ DeleteVirtualServerRoute(Key(o))
        PROVE  HostsInv'
    BY <2>2, <2>3, <2>9 DEF AddOrUpdateVirtualServerRoute, DeleteVirtualServerRoute
  <2>10. CASE UNCHANGED vars
    BY <2>1, <2>10 DEF vars, objects
  <2> QED
    BY <2>4, <2>5, <2>6, <2>7, <2>8, <2>9, <2>10 DEF Next
<1>3. StoresOK /\ HostsInv => HostOwnership
  <2> SUFFICES ASSUME StoresOK, HostsInv PROVE HostOwnership
    OBVIOUS
  <2>1. \A h \in DOMAIN hosts :
          /\ Holder(HostClaimants(h)) \in HostClaimants(h)
          /\ \A p \in HostClaimants(h) \ {Holder(HostClaimants(h))} :
               Senior(Holder(HostClaimants(h)), p)
    BY HostHolder DEF HostsInv
  <2> QED
    BY <2>1 DEF HostsInv, HostOwnership
<1> QED
  BY <1>1, <1>2, <1>3, StoresInvariant, PTL DEF Spec

-----------------------------------------------------------------------------
(* Listeners *)

ClaimedListeners == {m.name : m \in UNION {MatchingListeners(ts) : ts \in StreamServers}}

ListenersInv ==
  /\ DOMAIN listeners = ClaimedListeners
  /\ \A l \in DOMAIN listeners : listeners[l].obj = Holder(ListenerClaimants(l))
  /\ \A m \in globalConfiguration :
       m.name \in DOMAIN listeners => listeners[m.name].port = m.port

\* The counterpart of HostHolder: the senior claimant exists, the resource
\* built for it has it behind it, and has the port of the listener.
ListenersBuilt ==
  \A l \in ClaimedListeners :
    LET C == ListenerClaimants(l)
    IN /\ Holder(C) \in C
       /\ \A p \in C \ {Holder(C)} : Senior(Holder(C), p)
       /\ ListenerConfiguration(Holder(C)).obj = Holder(C)
       /\ \A m \in globalConfiguration :
            m.name = l => ListenerConfiguration(Holder(C)).port = m.port

LEMMA ListenersBuiltNow == StoresOK => ListenersBuilt
<1> SUFFICES ASSUME StoresOK, NEW l \in ClaimedListeners
             PROVE  LET C == ListenerClaimants(l)
                    IN /\ Holder(C) \in C
                       /\ \A p \in C \ {Holder(C)} : Senior(Holder(C), p)
                       /\ ListenerConfiguration(Holder(C)).obj = Holder(C)
                       /\ \A m \in globalConfiguration :
                            m.name = l => ListenerConfiguration(Holder(C)).port = m.port
  BY DEF ListenersBuilt
<1> DEFINE C == ListenerClaimants(l)
<1>1. C \subseteq transportServers /\ C # {}
  BY DEF ListenerClaimants, ClaimedListeners, StreamServers
<1>2. /\ transportServers \subseteq Objects
      /\ \A o, p \in transportServers : o # p => o.uid # p.uid
  BY ObjectsAssumption DEF StoresOK, Objects, UniqueKeys
<1>3. /\ Holder(C) \in C
      /\ \A p \in C \ {Holder(C)} : Senior(Holder(C), p)
  <2>1. Ranked(C, MaxUID)
    BY <1>1, <1>2, ObjectsAssumption DEF Ranked, ObjectType
  <2> HIDE DEF C
  <2> QED
    BY <1>1, <2>1, SeniorExists
<1>4. ListenerConfiguration(Holder(C)).obj = Holder(C)
  BY DEF ListenerConfiguration, TransportServerConfiguration
<1>5. ASSUME NEW m \in globalConfiguration, m.name = l
      PROVE  ListenerConfiguration(Holder(C)).port = m.port
  <2> DEFINE ts == Holder(C)
  <2>1. MatchingListeners(ts) # {}
    BY <1>3 DEF ListenerClaimants
  <2>2. \A n \in MatchingListeners(ts) : n = m
    <3>1. PICK k \in MatchingListeners(ts) : k.name = l
      BY <1>3 DEF ListenerClaimants
    <3>2. ts.listener.name = l
      BY <3>1 DEF MatchingListeners
    <3> QED
      BY <3>2, <1>5 DEF MatchingListeners, StoresOK
  <2>3. TheOne(MatchingListeners(ts)) = m
    BY <2>1, <2>2 DEF TheOne
  <2> HIDE DEF ts
  <2> QED
    BY <2>1, <2>3 DEF ListenerConfiguration, TransportServerConfiguration, ts
<1> QED
  BY <1>3, <1>4, <1>5

LEMMA ListenersBuiltNext == StoresOK' => ListenersBuilt'
BY ListenersBuiltNow, PTL

\* rebuildListeners establishes ListenersInv from any state.
LEMMA RebuildListenersOK == StoresOK' /\ RebuildListeners => ListenersInv'
<1> SUFFICES ASSUME StoresOK', RebuildListeners PROVE ListenersInv'
  OBVIOUS
<1>1. ListenersBuilt'
  BY ListenersBuiltNext
<1>2. listeners' = [l \in ClaimedListeners' |->
                      ListenerConfiguration(Holder(ListenerClaimants(l)))']
  BY DEF RebuildListeners, NewListeners, ClaimedListeners
<1> QED
  BY <1>1, <1>2 DEF ListenersBuilt, ListenersInv

\* listeners always names the senior TransportServer that asks for a listener
\* of the current GlobalConfiguration, with the port that it defines.
THEOREM ListenerOwnershipInvariant == Spec => []ListenerOwnership
<1>1. Init => ListenersInv
  BY DEF Init, ListenersInv, ClaimedListeners, StreamServers, MatchingListeners
<1>2. StoresOK' /\ ListenersInv /\ [Next]_vars => ListenersInv'
  <2> SUFFICES ASSUME StoresOK', ListenersInv, [Next]_vars PROVE ListenersInv'
    OBVIOUS
  <2>1. ASSUME UNCHANGED <<transportServers, globalConfiguration, listeners>>
        PROVE  ListenersInv'
    <3>1. StreamServers' = StreamServers /\ \A ts : MatchingListeners(ts)' = MatchingListeners(ts)
      BY <2>1 DEF StreamServers, MatchingListeners
    <3>2. ClaimedListeners' = ClaimedListeners
      BY <3>1 DEF ClaimedListeners
    <3>3. \A l : ListenerClaimants(l)' = ListenerClaimants(l)
      BY <3>1 DEF ListenerClaimants
    <3> QED
      BY <2>1, <3>2, <3>3 DEF ListenersInv
  <2>2. CASE RebuildListeners
    BY <2>2, RebuildListenersOK
  <2>3. ASSUME NEW key, NEW S, NothingToDelete(key, S) PROVE ListenersInv'
    BY <2>1, <2>3 DEF NothingToDelete, objects
  <2>4. ASSUME NEW o, AddOrUpdateTransportServer(o) \/ DeleteTransportServer(Key(o))
        PROVE  ListenersInv'
    BY <2>2, <2>3, <2>4
       DEF AddOrUpdateTransportServer, DeleteTransportServer, RebuildForTransportServer
  <2>5. ASSUME NEW gc, AddOrUpdateGlobalConfiguration(gc) PROVE ListenersInv'
    BY <2>2, <2>5 DEF AddOrUpdateGlobalConfiguration
  <2>6. CASE DeleteGlobalConfiguration
    BY <2>2, <2>6 DEF DeleteGlobalConfiguration
  <2>7. ASSUME NEW o, AddOrUpdateIngress(o) \/ DeleteIngress(Key(o)) PROVE ListenersInv'
    BY <2>1, <2>3, <2>7 DEF AddOrUpdateIngress, DeleteIngress
  <2>8. ASSUME NEW o, AddOrUpdateVirtualServer(o) \/ DeleteVirtualServer(Key(o))
        PROVE  ListenersInv'
    BY <2>1, <2>3, <2>8 DEF AddOrUpdateVirtualServer, DeleteVirtualServer
  <2>9. ASSUME NEW o, AddOrUpdateVirtualServerRoute(o) \/ DeleteVirtualServerRoute(Key(o))
        PROVE  ListenersInv'
    BY <2>1, <2>3, <2>9 DEF AddOrUpdateVirtualServerRoute, DeleteVirtualServerRoute
  <2>10. CASE UNCHANGED vars
    BY <2>1, <2>10 DEF vars, objects
  <2> QED
    BY <2>4, <2>5, <2>6, <2>7, <2>8, <2>9, <2>10 DEF Next
<1>3. StoresOK /\ ListenersInv => ListenerOwnership
  <2> SUFFICES ASSUME StoresOK, ListenersInv PROVE ListenerOwnership
    OBVIOUS
  <2> DEFINE Asks(ts, l) == ts.listener = [name |-> l.name, protocol |-> l.protocol]
  <2>1. \A ts \in transportServers : \A m \in globalConfiguration :
          Asks(ts, m) <=> ts \in StreamServers /\ m \in MatchingListeners(ts)
    <3>1. \A ts \in transportServers :
            ts.listener \in [name : Nat, protocol : {"TCP", "UDP", TLSPassthrough}]
      BY ObjectsAssumption DEF StoresOK, Objects, ObjectType
    <3> QED
      BY <3>1 DEF MatchingListeners, StreamServers, StoresOK
  <2>2. StreamServers \subseteq transportServers
        /\ \A ts : MatchingListeners(ts) \subseteq globalConfiguration
    BY DEF StreamServers, MatchingListeners
  <2>3. ClaimedListeners = {l.name : l \in {m \in globalConfiguration :
                                             \E ts \in transportServers : Asks(ts, m)}}
    <3> HIDE DEF Asks
    <3>1. UNION {MatchingListeners(ts) : ts \in StreamServers}
            = {m \in globalConfiguration : \E ts \in transportServers : Asks(ts, m)}
      BY <2>1, <2>2
    <3> QED
      BY <3>1 DEF ClaimedListeners
  <2>4. ASSUME NEW l \in globalConfiguration, NEW ts \in transportServers
        PROVE  ts \in ListenerClaimants(l.name) <=> Asks(ts, l)
    <3> HIDE DEF Asks
    <3>1. \A m \in globalConfiguration : m.name = l.name => m = l
      BY DEF StoresOK
    <3> QED
      BY <2>1, <2>2, <3>1 DEF ListenerClaimants
  <2>5. ASSUME NEW l \in globalConfiguration, l.name \in DOMAIN listeners
        PROVE  LET owner == listeners[l.name].obj
               IN /\ owner \in transportServers
                  /\ Asks(owner, l)
                  /\ listeners[l.name].port = l.port
                  /\ \A ts \in transportServers \ {owner} : Asks(ts, l) => Senior(owner, ts)
    <3> HIDE DEF Asks
    <3> DEFINE owner == Holder(ListenerClaimants(l.name))
    <3>1. /\ owner \in ListenerClaimants(l.name)
          /\ \A p \in ListenerClaimants(l.name) \ {owner} : Senior(owner, p)
      BY <2>5, ListenersBuiltNow DEF ListenersBuilt, ListenersInv
    <3>2. owner \in transportServers
      BY <3>1, <2>2 DEF ListenerClaimants
    <3> HIDE DEF owner
    <3>3. /\ Asks(owner, l)
          /\ \A ts \in transportServers \ {owner} : Asks(ts, l) => Senior(owner, ts)
      BY <3>1, <3>2, <2>4
    <3>4. listeners[l.name].obj = owner /\ listeners[l.name].port = l.port
      BY <2>5 DEF ListenersInv, owner
    <3> QED
      BY <3>2, <3>3, <3>4
  <2> QED
    BY <2>3, <2>5 DEF ListenersInv, ListenerOwnership
<1> QED
  BY <1>1, <1>2, <1>3, StoresInvariant, PTL DEF Spec

-----------------------------------------------------------------------------
(* What is derived from the stores is always derived from the current ones *)

StoresFinite ==
  /\ IsFiniteSet(ingresses) /\ IsFiniteSet(virtualServers)
  /\ IsFiniteSet(virtualServerRoutes) /\ IsFiniteSet(transportServers)

LEMMA PutFinite ==
  ASSUME NEW S, IsFiniteSet(S), NEW o, NEW key
  PROVE  IsFiniteSet(Put(S, o)) /\ IsFiniteSet(Without(S, key))
<1>1. IsFiniteSet(S \cup {o})
  BY FS_AddElement
<1>2. Put(S, o) \subseteq S \cup {o} /\ Without(S, key) \subseteq S
  BY DEF Put, Without
<1> QED
  BY <1>1, <1>2, FS_Subset

\* The maps and the problems are what the stored objects make of them.
InStep ==
  /\ hosts = NewHosts /\ hostProblems = NewHostProblems
  /\ listeners = NewListeners /\ listenerProblems = NewListenerProblems

\* An operation that skips rebuildHosts changes nothing that it would read.
LEMMA HostsUntouched ==
  ASSUME UNCHANGED <<ingresses, virtualServers, virtualServerRoutes, hosts>>,
         UNCHANGED transportServers \/ ~IsTLSPassthroughEnabled
  PROVE  NewHosts' = NewHosts /\ NewHostProblems' = NewHostProblems
<1>1. HostObjects' = HostObjects
  BY DEF HostObjects
<1>2. \A h : HostClaimants(h)' = HostClaimants(h)
  BY <1>1 DEF HostClaimants
<1>3. \A o : LostHosts(o)' = LostHosts(o)
  BY <1>2 DEF LostHosts
<1>4. \A h : MinionsOf(h)' = MinionsOf(h)
  BY DEF MinionsOf
<1>5. \A o : IngressConfiguration(o)' = IngressConfiguration(o)
  BY <1>3, <1>4 DEF IngressConfiguration
<1>6. \A o, r : RouteTarget(o, r)' = RouteTarget(o, r)
  BY DEF RouteTarget
<1>7. \A o : VirtualServerConfiguration(o)' = VirtualServerConfiguration(o)
  BY <1>3, <1>6 DEF VirtualServerConfiguration
<1>8. \A o : Resource(o)' = Resource(o)
  BY <1>3, <1>5, <1>7 DEF Resource
<1>9. NewHosts' = NewHosts
  BY <1>1, <1>2, <1>8 DEF NewHosts
<1>10. ResourcesWithoutActiveHost' = ResourcesWithoutActiveHost
  BY <1>1 DEF ResourcesWithoutActiveHost
<1>11. OrphanMinions' = OrphanMinions
  BY DEF OrphanMinions
<1>12. OrphanOrIgnoredVsrs' = OrphanOrIgnoredVsrs
  BY DEF OrphanOrIgnoredVsrs, OwnerOf
<1> QED
  BY <1>9, <1>10, <1>11, <1>12 DEF NewHostProblems

\* The same for rebuildListeners.
LEMMA ListenersUntouched ==
  ASSUME UNCHANGED <<transportServers, globalConfiguration, listeners>>
  PROVE  NewListeners' = NewListeners /\ NewListenerProblems' = NewListenerProblems
<1>1. StreamServers' = StreamServers
  BY DEF StreamServers
<1>2. \A ts : MatchingListeners(ts)' = MatchingListeners(ts)
  BY DEF MatchingListeners
<1>3. \A l : ListenerClaimants(l)' = ListenerClaimants(l)
  BY <1>1, <1>2 DEF ListenerClaimants
<1>4. \A ts : ListenerConfiguration(ts)' = ListenerConfiguration(ts)
  BY <1>2, <1>3 DEF ListenerConfiguration
<1>5. NewListeners' = NewListeners
  BY <1>1, <1>2, <1>3, <1>4 DEF NewListeners
<1>6. NewListenerProblems' = NewListenerProblems
  BY <1>1, <1>4 DEF NewListenerProblems
<1> QED
  BY <1>5, <1>6

\* The kinds of operations, by what they rebuild and return.
Answers(cs, ps) == Respond(cs, ps) \/ \E o \in Objects : RespondTo(o, cs, ps)

NoRebuild ==
  /\ UNCHANGED <<objects, hosts, listeners, hostProblems, listenerProblems>>
  /\ Respond(<<>>, {})
HostRebuild ==
  /\ RebuildHosts /\ UNCHANGED <<listeners, listenerProblems>>
  /\ UNCHANGED <<transportServers, globalConfiguration>>
  /\ Answers(HostChanges, NewProblemsOfHosts)
ListenerRebuild ==
  /\ RebuildListeners /\ UNCHANGED <<hosts, hostProblems>>
  /\ UNCHANGED <<ingresses, virtualServers, virtualServerRoutes>>
  /\ UNCHANGED transportServers \/ ~IsTLSPassthroughEnabled
  /\ \/ Answers(ListenerChanges, NewProblemsOfListeners)
     \/ Answers(ListenerChanges \o <<>>, NewProblemsOfListeners \cup {})
FullRebuild ==
  /\ RebuildListeners /\ RebuildHosts
  /\ UNCHANGED <<ingresses, virtualServers, virtualServerRoutes, globalConfiguration>>
  /\ Answers(ListenerChanges \o HostChanges, NewProblemsOfListeners \cup NewProblemsOfHosts)

LEMMA StepKinds ==
  Next => NoRebuild \/ HostRebuild \/ ListenerRebuild \/ FullRebuild
<1> SUFFICES ASSUME Next PROVE NoRebuild \/ HostRebuild \/ ListenerRebuild \/ FullRebuild
  OBVIOUS
<1> USE DEF Answers
<1>1. ASSUME NEW key, NEW S, NothingToDelete(key, S) PROVE NoRebuild
  BY <1>1 DEF NothingToDelete, NoRebuild
<1>2. ASSUME NEW o \in Ingresses, AddOrUpdateIngress(o) \/ DeleteIngress(Key(o))
      PROVE  NoRebuild \/ HostRebuild
  BY <1>1, <1>2 DEF AddOrUpdateIngress, DeleteIngress, HostRebuild, Objects
<1>3. ASSUME NEW o \in VirtualServers, AddOrUpdateVirtualServer(o) \/ DeleteVirtualServer(Key(o))
      PROVE  NoRebuild \/ HostRebuild
  BY <1>1, <1>3 DEF AddOrUpdateVirtualServer, DeleteVirtualServer, HostRebuild, Objects
<1>4. ASSUME NEW o \in VirtualServerRoutes,
             AddOrUpdateVirtualServerRoute(o) \/ DeleteVirtualServerRoute(Key(o))
      PROVE  NoRebuild \/ HostRebuild
  BY <1>1, <1>4 DEF AddOrUpdateVirtualServerRoute, DeleteVirtualServerRoute, HostRebuild, Objects
<1>5. ASSUME NEW o \in TransportServers,
             AddOrUpdateTransportServer(o) \/ DeleteTransportServer(Key(o))
      PROVE  NoRebuild \/ ListenerRebuild \/ FullRebuild
  <2>1. CASE \E key, S : NothingToDelete(key, S)
    BY <1>1, <2>1
  <2>2. CASE /\ RebuildForTransportServer
             /\ Answers(TransportServerChanges, TransportServerProblems)
             /\ UNCHANGED <<ingresses, virtualServers, virtualServerRoutes, globalConfiguration>>
    <3>1. CASE IsTLSPassthroughEnabled
      BY <2>2, <3>1 DEF FullRebuild, RebuildForTransportServer, TransportServerChanges,
                        TransportServerProblems
    <3>2. CASE ~IsTLSPassthroughEnabled
      BY <2>2, <3>2 DEF ListenerRebuild, RebuildForTransportServer, TransportServerChanges,
                        TransportServerProblems
    <3> QED
      BY <3>1, <3>2
  <2> QED
    BY <1>5, <2>1, <2>2 DEF AddOrUpdateTransportServer, DeleteTransportServer, Objects
<1>6. ASSUME NEW gc, AddOrUpdateGlobalConfiguration(gc) PROVE ListenerRebuild
  BY <1>6 DEF AddOrUpdateGlobalConfiguration, ListenerRebuild
<1>7. ASSUME DeleteGlobalConfiguration PROVE ListenerRebuild
  BY <1>7 DEF DeleteGlobalConfiguration, ListenerRebuild
<1> QED
  BY <1>2, <1>3, <1>4, <1>5, <1>6, <1>7 DEF Next

\* Every operation leaves the stores finite.
LEMMA StoresFiniteStep == StoresFinite /\ [Next]_vars => StoresFinite'
<1> SUFFICES ASSUME StoresFinite, [Next]_vars PROVE StoresFinite'
  OBVIOUS
<1> USE DEF StoresFinite
<1>1. CASE UNCHANGED objects
  BY <1>1 DEF objects
<1>2. ASSUME NEW o \in Ingresses, AddOrUpdateIngress(o) \/ DeleteIngress(Key(o))
      PROVE  StoresFinite'
  BY <1>1, <1>2, PutFinite DEF AddOrUpdateIngress, DeleteIngress, NothingToDelete
<1>3. ASSUME NEW o \in VirtualServers, AddOrUpdateVirtualServer(o) \/ DeleteVirtualServer(Key(o))
      PROVE  StoresFinite'
  BY <1>1, <1>3, PutFinite DEF AddOrUpdateVirtualServer, DeleteVirtualServer, NothingToDelete
<1>4. ASSUME NEW o \in VirtualServerRoutes,
             AddOrUpdateVirtualServerRoute(o) \/ DeleteVirtualServerRoute(Key(o))
      PROVE  StoresFinite'
  BY <1>1, <1>4, PutFinite DEF AddOrUpdateVirtualServerRoute, DeleteVirtualServerRoute, NothingToDelete
<1>5. ASSUME NEW o \in TransportServers,
             AddOrUpdateTransportServer(o) \/ DeleteTransportServer(Key(o))
      PROVE  StoresFinite'
  BY <1>1, <1>5, PutFinite DEF AddOrUpdateTransportServer, DeleteTransportServer, NothingToDelete
<1>6. ASSUME NEW gc, AddOrUpdateGlobalConfiguration(gc) PROVE StoresFinite'
  BY <1>6 DEF AddOrUpdateGlobalConfiguration
<1>7. CASE DeleteGlobalConfiguration
  BY <1>7 DEF DeleteGlobalConfiguration
<1>8. CASE UNCHANGED vars
  BY <1>1, <1>8 DEF vars
<1> QED
  BY <1>2, <1>3, <1>4, <1>5, <1>6, <1>7, <1>8 DEF Next

\* Ownership and problems never lag behind the stores: whatever the history,
\* they are what a fresh Configuration with the same objects would compute.
THEOREM InStepInvariant == Spec => [](StoresOK /\ StoresFinite /\ InStep)
<1>1. Init => StoresFinite /\ InStep
  <2> SUFFICES ASSUME Init PROVE StoresFinite /\ InStep
    OBVIOUS
  <2>1. HostObjects = {} /\ StreamServers = {}
    BY DEF Init, HostObjects, StreamServers
  <2>2. NewHosts = <<>> /\ NewListeners = <<>>
    BY <2>1 DEF NewHosts, NewListeners
  <2>3. NewHostProblems = {}
    BY <2>1 DEF NewHostProblems, ResourcesWithoutActiveHost, OrphanMinions, OrphanOrIgnoredVsrs, Init
  <2>4. NewListenerProblems = {}
    BY <2>1 DEF NewListenerProblems
  <2>5. StoresFinite
    BY FS_EmptySet DEF Init, StoresFinite
  <2> QED
    BY <2>2, <2>3, <2>4, <2>5 DEF Init, InStep
<1>2. InStep /\ [Next]_vars => InStep'
  <2> SUFFICES ASSUME InStep, [Next]_vars PROVE InStep'
    OBVIOUS
  <2>1. CASE NoRebuild \/ UNCHANGED vars
    BY <2>1, HostsUntouched, ListenersUntouched DEF InStep, NoRebuild, vars, objects
  <2>2. CASE HostRebuild
    BY <2>2, ListenersUntouched DEF InStep, HostRebuild, RebuildHosts
  <2>3. CASE ListenerRebuild
    BY <2>3, HostsUntouched DEF InStep, ListenerRebuild, RebuildListeners
  <2>4. CASE FullRebuild
    BY <2>4 DEF InStep, FullRebuild, RebuildListeners, RebuildHosts
  <2> QED
    BY <2>1, <2>2, <2>3, <2>4, StepKinds
<1> QED
  BY <1>1, <1>2, StoresFiniteStep, StoresInvariant, PTL DEF Spec
=============================================================================
