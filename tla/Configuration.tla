--------------------------- MODULE Configuration ---------------------------
(***************************************************************************)
(* The Configuration of the NGINX Ingress Controller                       *)
(* (internal/k8s/configuration.go): the valid Ingress, VirtualServer,      *)
(* VirtualServerRoute and TransportServer objects, the resource that owns  *)
(* each host and each listener, and the problems known to the user.  Every *)
(* operation recomputes ownership and returns the list of changes that     *)
(* must be made to the NGINX config, and the problems that are new.        *)
(*                                                                         *)
(* Objects carry their own key, so a Go map from keys to objects is the    *)
(* set of its values.  Hosts, listeners and names are natural numbers,     *)
(* ordered the way sort.Strings orders the strings they stand for.         *)
(***************************************************************************)
EXTENDS Seniority, Sorting, Naturals, Sequences, FiniteSets, SequencesExt

CONSTANTS
  Ingresses,            \* the object versions the API server may hand over,
  VirtualServers,       \*   one set for each kind
  VirtualServerRoutes,
  TransportServers,
  GlobalConfigurations, \* sequences of listeners [name, protocol, port]
  ForbiddenListenerPorts,
  IsTLSPassthroughEnabled,
  MaxUID                \* UIDs are strings of fixed length: they have a last one

VARIABLES
  ingresses, virtualServers, virtualServerRoutes, transportServers,
  globalConfiguration,  \* the set of its listeners; {} when it is nil
  hosts,                \* host |-> the resource that owns it
  listeners,            \* listener |-> the TransportServer that owns it
  hostProblems, listenerProblems,
  changes, problems     \* what the last operation returned

objects == <<ingresses, virtualServers, virtualServerRoutes,
             transportServers, globalConfiguration>>
vars == <<objects, hosts, listeners, hostProblems, listenerProblems,
          changes, problems>>

Objects ==
  Ingresses \cup VirtualServers \cup VirtualServerRoutes \cup TransportServers

Key(o) == <<o.kind, o.name>>

TLSPassthrough == "TLS_PASSTHROUGH"

(***************************************************************************)
(* What the fields of an object stand for.  class and valid are the        *)
(* verdicts of HasCorrectIngressClass and of the validator of its kind;    *)
(* mergeable is the nginx.org/mergeable-ingress-type annotation; paths are *)
(* the paths of a minion, or the VirtualServer paths the subroutes of a    *)
(* VirtualServerRoute may serve; routes are the delegating routes of a     *)
(* VirtualServer; rest is the rest of the spec, which ends up in the       *)
(* config: upstreams, locations, policies and so on.                       *)
(***************************************************************************)
ObjectType ==
  [kind : {"Ingress", "VirtualServer", "VirtualServerRoute", "TransportServer"},
   name : Nat, created : Nat, uid : 0..MaxUID, generation : Nat,
   class : BOOLEAN, valid : BOOLEAN,
   mergeable : {"regular", "master", "minion"},
   hosts : SUBSET Nat, paths : Seq(Nat),
   routes : Seq([vsr : Nat, path : Nat]), rest : Nat,
   listener : [name : Nat, protocol : {"TCP", "UDP", TLSPassthrough}]]

\* Two objects are two API objects: they have different UIDs.
ASSUME ObjectsAssumption ==
  /\ MaxUID \in Nat
  /\ IsTLSPassthroughEnabled \in BOOLEAN
  /\ \A o \in Objects : o \in ObjectType /\ IsFiniteSet(o.hosts)
  /\ \A o \in Ingresses : o.kind = "Ingress"
  /\ \A o \in VirtualServers : o.kind = "VirtualServer"
  /\ \A o \in VirtualServerRoutes : o.kind = "VirtualServerRoute"
  /\ \A o \in TransportServers : o.kind = "TransportServer"
  /\ \A o \in Objects \ Ingresses : o.mergeable = "regular"
  /\ \A o, p \in Objects : Key(o) # Key(p) => o.uid # p.uid

\* What the validators enforce on an object that passes them.
ASSUME ValidationAssumption ==
  /\ \A o \in Ingresses : o.valid =>
       /\ o.hosts # {}
       /\ o.mergeable # "regular" => \E h \in o.hosts : o.hosts = {h}
  /\ \A o \in VirtualServers \cup VirtualServerRoutes :
       o.valid => \E h \in o.hosts : o.hosts = {h}
  /\ \A o \in TransportServers : o.valid =>
       IF o.listener.protocol = TLSPassthrough
         THEN IsTLSPassthroughEnabled /\ \E h \in o.hosts : o.hosts = {h}
         ELSE o.hosts = {}

-----------------------------------------------------------------------------
(* Ownership *)

IsMinion(ing) == ing.mergeable = "minion"
IsMaster(ing) == ing.mergeable = "master"

\* The objects that buildHostsAndResources turns into resources.
HostObjects ==
  {ing \in ingresses : ~IsMinion(ing)}
    \cup virtualServers
    \cup {ts \in transportServers :
            IsTLSPassthroughEnabled /\ ts.listener.protocol = TLSPassthrough}

HostClaimants(h) == {o \in HostObjects : h \in o.hosts}

LostHosts(o) == {h \in o.hosts : Holder(HostClaimants(h)) # o}

MinionsOf(host) == {ing \in ingresses : IsMinion(ing) /\ host \in ing.hosts}

\* buildMinionConfigs: the oldest minion gets the path, unless it lists the
\* path twice: then it displaces itself and nobody serves the path.
ValidPaths(minions) ==
  UNION {{<<m.name, p>> : p \in
            {q \in ToSet(m.paths) :
               /\ \A n \in minions \ {m} : q \in ToSet(n.paths) => Wins(m, n)
               /\ \A i, j \in DOMAIN m.paths :
                    m.paths[i] = q /\ m.paths[j] = q => i = j}} :
         m \in minions}

\* The minions of a master, sorted by name.
ByName(minions) ==
  LET names == Sorted({m.name : m \in minions})
  IN [i \in DOMAIN names |-> CHOOSE m \in minions : m.name = names[i]]

IngressConfiguration(ing) ==
  LET minions == IF IsMaster(ing)
                   THEN UNION {MinionsOf(h) : h \in ing.hosts} ELSE {}
  IN [obj        |-> ing,
      attached   |-> ByName(minions),
      validHosts |-> [h \in ing.hosts |-> h \notin LostHosts(ing)],
      validPaths |-> ValidPaths(minions),
      warnings   |-> {<<"host is taken", h>> : h \in LostHosts(ing)},
      port       |-> 0]

\* The VirtualServerRoute a route delegates to, if it exists and fits.
RouteTarget(vs, route) ==
  {vsr \in virtualServerRoutes :
     /\ vsr.name = route.vsr
     /\ vsr.hosts = vs.hosts
     /\ route.path \in ToSet(vsr.paths)}

\* What a Go map holds for a key that it has.
TheOne(S) == CHOOSE x \in S : TRUE

VirtualServerConfiguration(vs) ==
  LET good == {i \in DOMAIN vs.routes : RouteTarget(vs, vs.routes[i]) # {}}
  IN [obj        |-> vs,
      attached   |-> Subsequence(
                       [i \in good |-> TheOne(RouteTarget(vs, vs.routes[i]))], good),
      validHosts |-> <<>>,
      validPaths |-> {},
      warnings   |-> {<<"host is taken", h>> : h \in LostHosts(vs)}
                       \cup {<<"route", r.vsr>> : r \in
                              {q \in ToSet(vs.routes) : RouteTarget(vs, q) = {}}},
      port       |-> 0]

TransportServerConfiguration(ts, port, warnings) ==
  [obj |-> ts, attached |-> <<>>, validHosts |-> <<>>, validPaths |-> {},
   warnings |-> warnings, port |-> port]

Resource(o) ==
  CASE o.kind = "Ingress"         -> IngressConfiguration(o)
    [] o.kind = "VirtualServer"   -> VirtualServerConfiguration(o)
    [] o.kind = "TransportServer" ->
         TransportServerConfiguration(o, 0,
           {<<"host is taken", h>> : h \in LostHosts(o)})

NewHosts ==
  [h \in UNION {o.hosts : o \in HostObjects} |-> Resource(Holder(HostClaimants(h)))]

NewResources == {Resource(o) : o \in HostObjects}

\* Mutant: the protocol of the listener is not compared.
MatchingListenersByName(ts) == {l \in globalConfiguration : l.name = ts.listener.name}

\* buildListenersAndTSConfigurations
MatchingListeners(ts) ==
  {l \in globalConfiguration : l.name = ts.listener.name /\ l.protocol = ts.listener.protocol}

StreamServers == {ts \in transportServers : ts.listener.protocol # TLSPassthrough}

ListenerClaimants(l) ==
  {ts \in StreamServers : \E m \in MatchingListeners(ts) : m.name = l}

ListenerConfiguration(ts) ==
  LET l == ts.listener.name
  IN TransportServerConfiguration(ts,
       IF MatchingListeners(ts) = {} THEN 0 ELSE TheOne(MatchingListeners(ts)).port,
       IF ts \in ListenerClaimants(l) /\ ts # Holder(ListenerClaimants(l))
         THEN {<<"listener is taken", l>>} ELSE {})

NewListeners ==
  [l \in {m.name : m \in UNION {MatchingListeners(ts) : ts \in StreamServers}} |->
     ListenerConfiguration(Holder(ListenerClaimants(l)))]

-----------------------------------------------------------------------------
(* Changes *)

ResourceKey(r) == Key(r.obj)

MetasEqual(o, p) ==
  /\ Key(o) = Key(p)
  /\ o.generation = p.generation
  /\ o.mergeable = p.mergeable

\* Mutants: one of the comparisons is missing.
IsEqualButValidHosts(r, s) ==
  /\ MetasEqual(r.obj, s.obj)
  /\ Len(r.attached) = Len(s.attached)
  /\ \A i \in DOMAIN r.attached : MetasEqual(r.attached[i], s.attached[i])
  /\ r.port = s.port

IsEqualButAttached(r, s) ==
  /\ MetasEqual(r.obj, s.obj)
  /\ r.validHosts = s.validHosts
  /\ Len(r.attached) = Len(s.attached)
  /\ r.port = s.port

IsEqual(r, s) ==
  /\ MetasEqual(r.obj, s.obj)
  /\ r.validHosts = s.validHosts
  /\ Len(r.attached) = Len(s.attached)
  /\ \A i \in DOMAIN r.attached : MetasEqual(r.attached[i], s.attached[i])
  /\ r.port = s.port

\* The changes for the elements of s, in order: op applied to f of each.
ChangesFor(s, op, f) ==
  [i \in DOMAIN s |-> [op |-> op, resource |-> f[s[i]], error |-> FALSE]]

\* createResourceChangesForHosts and createResourceChangesForListeners.
CreateResourceChanges(old, new) ==
  LET removed == Sorted(DOMAIN old \ DOMAIN new)
      added   == Sorted(DOMAIN new \ DOMAIN old)
      updated == Sorted({k \in DOMAIN old \cap DOMAIN new : ~IsEqual(old[k], new[k])})
      moved   == Sorted({k \in DOMAIN old \cap DOMAIN new :
                           ResourceKey(old[k]) # ResourceKey(new[k])})
  IN ChangesFor(removed \o moved, "Delete", old)
       \o ChangesFor(updated \o added, "AddOrUpdate", new)

\* The last change for the resource of each change.
LastChanges(cs) ==
  [i \in DOMAIN cs |->
     cs[Max({j \in DOMAIN cs : ResourceKey(cs[j].resource) = ResourceKey(cs[i].resource)})]]

\* The positions of the first change of each resource whose last one is an op.
FirstChanges(cs, op) ==
  {i \in DOMAIN cs :
     /\ \A j \in 1..(i-1) : ResourceKey(cs[j].resource) # ResourceKey(cs[i].resource)
     /\ LastChanges(cs)[i].op = op}

\* Mutant: the order of deletes and updates is lost.
SquashUpdatesFirst(cs) ==
  Subsequence(LastChanges(cs), FirstChanges(cs, "AddOrUpdate"))
    \o Subsequence(LastChanges(cs), FirstChanges(cs, "Delete"))

\* One change for each resource: its last one, at the place of its first,
\* and all deletes before all updates.
SquashResourceChanges(cs) ==
  Subsequence(LastChanges(cs), FirstChanges(cs, "Delete"))
    \o Subsequence(LastChanges(cs), FirstChanges(cs, "AddOrUpdate"))

\* Changes refer to the latest version of a resource that still exists.
RefreshResources(cs, resources) ==
  LET Latest(r) == {s \in resources : ResourceKey(s) = ResourceKey(r)}
  IN [i \in DOMAIN cs |->
        IF Latest(cs[i].resource) = {} THEN cs[i]
          ELSE [cs[i] EXCEPT !.resource = CHOOSE s \in Latest(@) : TRUE]]

HostChanges ==
  RefreshResources(SquashResourceChanges(CreateResourceChanges(hosts, hosts')),
                   NewResources')

\* rebuildListeners looks the new configurations up by a key with the kind,
\* but buildListenersAndTSConfigurations files them under a key without it:
\* no change is ever refreshed.
ListenerChanges ==
  SquashResourceChanges(CreateResourceChanges(listeners, listeners'))

-----------------------------------------------------------------------------
(* Problems *)

Problem(o, isError, reason, message) ==
  [key |-> Key(o), isError |-> isError, reason |-> reason, message |-> message]

\* Mutant: one lost host is taken for all.
ResourcesWithALostHost ==
  {Problem(o, FALSE, "Rejected", <<"all hosts are taken", 0>>) :
     o \in {p \in HostObjects : \E h \in p.hosts : ResourceKey(hosts[h]) # Key(p)}}

ResourcesWithoutActiveHost ==
  {Problem(o, FALSE, "Rejected", <<"all hosts are taken", 0>>) :
     o \in {p \in HostObjects : \A h \in p.hosts : ResourceKey(hosts[h]) # Key(p)}}

OrphanMinions ==
  {Problem(m, FALSE, "NoIngressMasterFound", <<"no master", 0>>) :
     m \in {ing \in ingresses :
              /\ IsMinion(ing)
              /\ \A h \in ing.hosts :
                   h \in DOMAIN hosts =>
                     ~(hosts[h].obj.kind = "Ingress" /\ IsMaster(hosts[h].obj))}}

\* The VirtualServer, if any, that owns the host of a VirtualServerRoute.
OwnerOf(vsr) ==
  {hosts[h] : h \in {g \in vsr.hosts \cap DOMAIN hosts :
                       hosts[g].obj.kind = "VirtualServer"}}

OrphanOrIgnoredVsrs ==
  {Problem(v, FALSE, "NoVirtualServerFound", <<"no VirtualServer", 0>>) :
     v \in {vsr \in virtualServerRoutes : OwnerOf(vsr) = {}}}
  \cup
  UNION {{Problem(v, FALSE, "Ignored", <<"ignored", r.obj.name>>) :
            r \in {s \in OwnerOf(v) :
                     \A i \in DOMAIN s.attached : s.attached[i].name # v.name}} :
         v \in virtualServerRoutes}

NewHostProblems ==
  ResourcesWithoutActiveHost \cup OrphanMinions \cup OrphanOrIgnoredVsrs

\* addProblemsForTSConfigsWithoutActiveListener
NewListenerProblems ==
  {Problem(ts, FALSE, "Rejected", <<"listener doesn't exist", ts.listener.name>>) :
     ts \in {t \in StreamServers : t.listener.name \notin DOMAIN listeners}}
  \cup
  {Problem(ts, FALSE, "Rejected", <<"listener is taken", ts.listener.name>>) :
     ts \in {t \in StreamServers :
               /\ t.listener.name \in DOMAIN listeners
               /\ ~IsEqual(ListenerConfiguration(t), listeners[t.listener.name])}}

-----------------------------------------------------------------------------
(* Operations *)

Accepted(o) == o.class /\ o.valid
Rejected(o) == o.class /\ ~o.valid

\* Mutant: the validation error is reported but the object is stored.
PutUnvalidated(set, o) ==
  {p \in set : Key(p) # Key(o)} \cup (IF o.class THEN {o} ELSE {})

\* The object replaces its older version, unless it has the wrong class or
\* is invalid: then the older version goes all the same.
Put(set, o) ==
  {p \in set : Key(p) # Key(o)} \cup (IF Accepted(o) THEN {o} ELSE {})

RebuildHosts ==
  /\ hosts' = NewHosts'
  /\ hostProblems' = NewHostProblems'

RebuildListeners ==
  /\ listeners' = NewListeners'
  /\ listenerProblems' = NewListenerProblems'

Respond(cs, ps) ==
  /\ changes' = cs
  /\ problems' = ps

\* A validation error goes with the first change of the object, or becomes
\* a problem if there is none.
RespondTo(o, cs, ps) ==
  LET own == {i \in DOMAIN cs : ResourceKey(cs[i].resource) = Key(o)}
  IN CASE ~Rejected(o) -> Respond(cs, ps)
       [] Rejected(o) /\ own # {} ->
            Respond([cs EXCEPT ![Min(own)].error = TRUE], ps)
       [] Rejected(o) /\ own = {} ->
            Respond(cs, ps \cup {Problem(o, TRUE, "Rejected", <<"invalid", 0>>)})

\* Mutant: the problems that went away are returned.
GoneProblemsOfHosts == hostProblems \ hostProblems'

NewProblemsOfHosts == hostProblems' \ hostProblems
NewProblemsOfListeners == listenerProblems' \ listenerProblems

AddOrUpdateIngress(ing) ==
  /\ ingresses' = Put(ingresses, ing)
  /\ UNCHANGED <<virtualServers, virtualServerRoutes, transportServers, globalConfiguration>>
  /\ RebuildHosts
  /\ UNCHANGED <<listeners, listenerProblems>>
  /\ RespondTo(ing, HostChanges, NewProblemsOfHosts)

AddOrUpdateVirtualServer(vs) ==
  /\ virtualServers' = Put(virtualServers, vs)
  /\ UNCHANGED <<ingresses, virtualServerRoutes, transportServers, globalConfiguration>>
  /\ RebuildHosts
  /\ UNCHANGED <<listeners, listenerProblems>>
  /\ RespondTo(vs, HostChanges, NewProblemsOfHosts)

\* No change is about a VirtualServerRoute: its error is always a problem.
AddOrUpdateVirtualServerRoute(vsr) ==
  /\ virtualServerRoutes' = Put(virtualServerRoutes, vsr)
  /\ UNCHANGED <<ingresses, virtualServers, transportServers, globalConfiguration>>
  /\ RebuildHosts
  /\ UNCHANGED <<listeners, listenerProblems>>
  /\ RespondTo(vsr, HostChanges, NewProblemsOfHosts)

\* The changes to listeners and to hosts are appended, not squashed together.
TransportServerChanges ==
  ListenerChanges \o (IF IsTLSPassthroughEnabled THEN HostChanges ELSE <<>>)

TransportServerProblems ==
  NewProblemsOfListeners \cup (IF IsTLSPassthroughEnabled THEN NewProblemsOfHosts ELSE {})

RebuildForTransportServer ==
  /\ RebuildListeners
  /\ IF IsTLSPassthroughEnabled THEN RebuildHosts ELSE UNCHANGED <<hosts, hostProblems>>

AddOrUpdateTransportServer(ts) ==
  /\ transportServers' = Put(transportServers, ts)
  /\ UNCHANGED <<ingresses, virtualServers, virtualServerRoutes, globalConfiguration>>
  /\ RebuildForTransportServer
  /\ RespondTo(ts, TransportServerChanges, TransportServerProblems)

\* validateListeners: unique names, unique ports for a protocol, and no port
\* that the Ingress Controller uses itself.
ValidateGlobalConfiguration(gc) ==
  /\ \A i \in DOMAIN gc : /\ gc[i].protocol \in {"TCP", "UDP"}
                          /\ gc[i].port \notin ForbiddenListenerPorts
  /\ \A i, j \in DOMAIN gc : i # j =>
       /\ gc[i].name # gc[j].name
       /\ <<gc[i].port, gc[i].protocol>> # <<gc[j].port, gc[j].protocol>>

AddOrUpdateGlobalConfiguration(gc) ==
  /\ globalConfiguration' = IF ValidateGlobalConfiguration(gc) THEN ToSet(gc) ELSE {}
  /\ UNCHANGED <<ingresses, virtualServers, virtualServerRoutes, transportServers>>
  /\ RebuildListeners
  /\ UNCHANGED <<hosts, hostProblems>>
  /\ Respond(ListenerChanges, NewProblemsOfListeners)

DeleteGlobalConfiguration ==
  /\ globalConfiguration' = {}
  /\ UNCHANGED <<ingresses, virtualServers, virtualServerRoutes, transportServers>>
  /\ RebuildListeners
  /\ UNCHANGED <<hosts, hostProblems>>
  /\ Respond(ListenerChanges, NewProblemsOfListeners)

\* Deleting an object the Configuration does not have does nothing.
NothingToDelete(key, set) ==
  /\ \A o \in set : Key(o) # key
  /\ Respond(<<>>, {})
  /\ UNCHANGED <<objects, hosts, listeners, hostProblems, listenerProblems>>

Without(set, key) == {o \in set : Key(o) # key}

DeleteIngress(key) ==
  \/ NothingToDelete(key, ingresses)
  \/ /\ \E o \in ingresses : Key(o) = key
     /\ ingresses' = Without(ingresses, key)
     /\ UNCHANGED <<virtualServers, virtualServerRoutes, transportServers, globalConfiguration>>
     /\ RebuildHosts
     /\ UNCHANGED <<listeners, listenerProblems>>
     /\ Respond(HostChanges, NewProblemsOfHosts)

\* Mutant: the hosts are not rebuilt.
DeleteVirtualServerOnly(key) ==
  /\ virtualServers' = Without(virtualServers, key)
  /\ UNCHANGED <<ingresses, virtualServerRoutes, transportServers, globalConfiguration>>
  /\ UNCHANGED <<hosts, listeners, hostProblems, listenerProblems>>
  /\ Respond(<<>>, {})

DeleteVirtualServer(key) ==
  \/ NothingToDelete(key, virtualServers)
  \/ /\ \E o \in virtualServers : Key(o) = key
     /\ virtualServers' = Without(virtualServers, key)
     /\ UNCHANGED <<ingresses, virtualServerRoutes, transportServers, globalConfiguration>>
     /\ RebuildHosts
     /\ UNCHANGED <<listeners, listenerProblems>>
     /\ Respond(HostChanges, NewProblemsOfHosts)

DeleteVirtualServerRoute(key) ==
  \/ NothingToDelete(key, virtualServerRoutes)
  \/ /\ \E o \in virtualServerRoutes : Key(o) = key
     /\ virtualServerRoutes' = Without(virtualServerRoutes, key)
     /\ UNCHANGED <<ingresses, virtualServers, transportServers, globalConfiguration>>
     /\ RebuildHosts
     /\ UNCHANGED <<listeners, listenerProblems>>
     /\ Respond(HostChanges, NewProblemsOfHosts)

DeleteTransportServer(key) ==
  \/ NothingToDelete(key, transportServers)
  \/ /\ \E o \in transportServers : Key(o) = key
     /\ transportServers' = Without(transportServers, key)
     /\ UNCHANGED <<ingresses, virtualServers, virtualServerRoutes, globalConfiguration>>
     /\ RebuildForTransportServer
     /\ Respond(TransportServerChanges, TransportServerProblems)

Init ==
  /\ ingresses = {} /\ virtualServers = {} /\ virtualServerRoutes = {}
  /\ transportServers = {} /\ globalConfiguration = {}
  /\ hosts = <<>> /\ listeners = <<>>
  /\ hostProblems = {} /\ listenerProblems = {}
  /\ changes = <<>> /\ problems = {}

Next ==
  \/ \E o \in Ingresses : AddOrUpdateIngress(o) \/ DeleteIngress(Key(o))
  \/ \E o \in VirtualServers : AddOrUpdateVirtualServer(o) \/ DeleteVirtualServer(Key(o))
  \/ \E o \in VirtualServerRoutes :
       AddOrUpdateVirtualServerRoute(o) \/ DeleteVirtualServerRoute(Key(o))
  \/ \E o \in TransportServers :
       AddOrUpdateTransportServer(o) \/ DeleteTransportServer(Key(o))
  \/ \E gc \in GlobalConfigurations : AddOrUpdateGlobalConfiguration(gc)
  \/ DeleteGlobalConfiguration

Spec == Init /\ [][Next]_vars

-----------------------------------------------------------------------------
(* Properties *)

UniqueKeys(set) == \A o, p \in set : Key(o) = Key(p) => o = p

\* Every stored object has passed its validator, and no key is stored twice.
StoresOK ==
  /\ ingresses \subseteq {o \in Ingresses : Accepted(o)} /\ UniqueKeys(ingresses)
  /\ virtualServers \subseteq {o \in VirtualServers : Accepted(o)} /\ UniqueKeys(virtualServers)
  /\ virtualServerRoutes \subseteq {o \in VirtualServerRoutes : Accepted(o)}
  /\ UniqueKeys(virtualServerRoutes)
  /\ transportServers \subseteq {o \in TransportServers : Accepted(o)}
  /\ UniqueKeys(transportServers)
  /\ \A l, m \in globalConfiguration : l.name = m.name => l = m
  /\ \A l \in globalConfiguration : l.protocol # TLSPassthrough

\* The stores are well formed, and the objects behind hosts, listeners and
\* changes are objects of a kind that can be there.
TypeOK ==
  /\ StoresOK
  /\ \A h \in DOMAIN hosts : hosts[h].obj \in Objects \ VirtualServerRoutes
  /\ \A l \in DOMAIN listeners : listeners[l].obj \in TransportServers
  /\ \A i \in DOMAIN changes :
       /\ changes[i].op \in {"Delete", "AddOrUpdate"}
       /\ changes[i].resource.obj \in Objects \ VirtualServerRoutes
       /\ changes[i].error \in BOOLEAN

\* After any history of updates and deletes, of any kind, a host has an owner
\* exactly when a stored object asks for it, the owner is the current version
\* of a stored object that asks for it, and it is senior to every other one.
HostOwnership ==
  /\ DOMAIN hosts = UNION {o.hosts : o \in HostObjects}
  /\ \A h \in DOMAIN hosts :
       /\ hosts[h].obj \in HostClaimants(h)
       /\ \A o \in HostClaimants(h) \ {hosts[h].obj} : Senior(hosts[h].obj, o)

\* The same for listeners: a listener is owned exactly when the current
\* GlobalConfiguration defines it and a stored TransportServer asks for it
\* with its protocol; the owner is the senior one and has the port defined now.
ListenerOwnership ==
  LET Asks(ts, l) == ts.listener = [name |-> l.name, protocol |-> l.protocol]
  IN /\ DOMAIN listeners =
          {l.name : l \in {m \in globalConfiguration :
                             \E ts \in transportServers : Asks(ts, m)}}
     /\ \A l \in globalConfiguration : l.name \in DOMAIN listeners =>
          LET owner == listeners[l.name].obj
          IN /\ owner \in transportServers
             /\ Asks(owner, l)
             /\ listeners[l.name].port = l.port
             /\ \A ts \in transportServers \ {owner} :
                  Asks(ts, l) => Senior(owner, ts)

\* The objects whose content is part of the NGINX config.
InService ==
  {hosts[h].obj : h \in DOMAIN hosts}
    \cup (UNION {ToSet(hosts[h].attached) : h \in DOMAIN hosts})
    \cup {listeners[l].obj : l \in DOMAIN listeners}

Stored == ingresses \cup virtualServers \cup virtualServerRoutes \cup transportServers

\* No object is silently dropped and none is reported while it is served: a
\* stored object is part of the config exactly when no problem is recorded
\* for it (rebuildHosts and rebuildListeners keep the two in step).
NothingDropped ==
  \A o \in Stored :
    o \in InService <=> \A p \in hostProblems \cup listenerProblems : p.key # Key(o)

\* What ends up in the config file of a resource: the specs behind it and
\* what they were granted, but neither metadata nor warnings.  Delegating
\* routes only choose the attached VirtualServerRoutes.
ConfigSpec(o) ==
  [hosts |-> o.hosts, mergeable |-> o.mergeable, paths |-> o.paths, rest |-> o.rest,
   listener |-> o.listener]

Content(r) ==
  [key |-> ResourceKey(r), spec |-> ConfigSpec(r.obj),
   attached |-> [i \in DOMAIN r.attached |-> ConfigSpec(r.attached[i])],
   validHosts |-> r.validHosts, validPaths |-> r.validPaths, port |-> r.port]

Files(hs, ls) ==
  {Content(hs[h]) : h \in DOMAIN hs} \cup {Content(ls[l]) : l \in DOMAIN ls}

\* A Delete change removes the file of its resource, an AddOrUpdate writes it.
Apply(files, c) ==
  {f \in files : f.key # ResourceKey(c.resource)}
    \cup (IF c.op = "AddOrUpdate" THEN {Content(c.resource)} ELSE {})

\* The changes that no later change for the same resource overrides.
Finals(cs) ==
  {cs[i] : i \in {j \in DOMAIN cs : \A k \in DOMAIN cs :
                    k > j => ResourceKey(cs[k].resource) # ResourceKey(cs[j].resource)}}

\* The files after the changes cs have been applied, one after the other.
Applied(files, cs) ==
  {f \in files : \A c \in Finals(cs) : ResourceKey(c.resource) # f.key}
    \cup {Content(c.resource) : c \in {d \in Finals(cs) : d.op = "AddOrUpdate"}}

FilesAfter(n) == Applied(Files(hosts, listeners), SubSeq(changes', 1, n))

\* What IsEqual relies on: the API server counts up metadata.generation with
\* every change of a spec, so the metadata tells the versions of an object
\* apart, until it is deleted and another one is created under its name.
VersionsTold ==
  \A o, p \in {q \in Objects : Accepted(q)} : MetasEqual(o, p) => o = p

\* Applying the returned changes, in order, to the config files of the old
\* hosts and listeners yields the files of the new ones: no change is missing
\* (IsEqual compares enough), none undoes another (squashing keeps the last).
ChangesComplete ==
  [][FilesAfter(Len(changes')) = Files(hosts', listeners')]_vars

\* The hosts and listeners that the server blocks of a config file bind.
Binds(f) ==
  CASE f.key[1] = "Ingress" -> {<<"host", h>> : h \in {g \in f.spec.hosts : f.validHosts[g]}}
    [] f.key[1] = "TransportServer" /\ f.spec.listener.protocol # TLSPassthrough ->
         {<<"listener", f.spec.listener.name>>}
    [] OTHER -> {<<"host", h>> : h \in f.spec.hosts}

\* Only an Ingress can ask for more hosts than one.
OneHost(spec) == \A h, i \in spec.hosts : h = i

\* "That will prevent any host/listener collisions in the NGINX config in the
\* state between the changes" (squashResourceChanges): whatever prefix of the
\* changes has been applied, no two config files bind the same host or listener.
\* The order of the updates among themselves is nobody's concern, so that this
\* is said of the files of objects that ask for one host, or none: an Ingress
\* with two that trades one for the other can be early.
NoTransientCollision ==
  [][\A n \in 0..Len(changes') : \A f, g \in FilesAfter(n) :
       f # g /\ OneHost(f.spec) /\ OneHost(g.spec) => Binds(f) \cap Binds(g) = {}]_vars

\* The user hears of every demotion: an object that was served and is still
\* stored, in this or a newer version, but is served no more, is the subject
\* of a problem returned by the very operation that demoted it.
LoserTold ==
  [][\A o \in InService : \A p \in Stored' :
       Key(p) = Key(o) /\ p \notin InService' =>
         \E q \in problems' : q.key = Key(o)]_vars
=============================================================================
