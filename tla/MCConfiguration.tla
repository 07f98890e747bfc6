-------------------------- MODULE MCConfiguration --------------------------
(***************************************************************************)
(* Small instances of Configuration.  There are two families of objects,   *)
(* one for hosts and one for listeners; both have objects that collide,    *)
(* versions of one object that differ in what they claim, and an invalid   *)
(* or foreign version.  Versions with the same generation have the same    *)
(* spec, as the API server guarantees for one object.                      *)
(***************************************************************************)
EXTENDS Configuration

ASSUME VersionsAreTold == VersionsTold

Blank(kind, name, created, uid, gen) ==
  [kind |-> kind, name |-> name, created |-> created, uid |-> uid,
   generation |-> gen, class |-> TRUE, valid |-> TRUE, mergeable |-> "regular",
   hosts |-> {}, paths |-> <<>>, routes |-> <<>>, rest |-> 0,
   listener |-> [name |-> 0, protocol |-> "TCP"]]

Invalid(o, gen) == [o EXCEPT !.valid = FALSE, !.generation = gen]
Foreign(o, gen) == [o EXCEPT !.class = FALSE, !.generation = gen]

Ing(name, created, uid, gen, hs) ==
  [Blank("Ingress", name, created, uid, gen) EXCEPT !.hosts = hs]
Master(name, created, uid, gen, h) ==
  [Ing(name, created, uid, gen, {h}) EXCEPT !.mergeable = "master"]
Minion(name, created, uid, gen, h, ps) ==
  [Ing(name, created, uid, gen, {h}) EXCEPT !.mergeable = "minion", !.paths = ps]
VS(name, created, uid, gen, h, rs) ==
  [Blank("VirtualServer", name, created, uid, gen) EXCEPT !.hosts = {h}, !.routes = rs]
VSR(name, created, uid, gen, h, ps) ==
  [Blank("VirtualServerRoute", name, created, uid, gen) EXCEPT !.hosts = {h}, !.paths = ps]
TS(name, created, uid, gen, l, protocol) ==
  [Blank("TransportServer", name, created, uid, gen) EXCEPT
     !.listener = [name |-> l, protocol |-> protocol]]
PassthroughTS(name, created, uid, gen, h) ==
  [TS(name, created, uid, gen, 9, TLSPassthrough) EXCEPT !.hosts = {h}]

None == {}

-----------------------------------------------------------------------------
(* Hosts: mergeable Ingresses, an Ingress with two hosts that can lose one  *)
(* and keep the other, a VirtualServer with a route, collisions across      *)
(* kinds and objects of the same age.                                       *)

HostIngresses ==
  {Master(1, 1, 1, 1, 1), Ing(1, 1, 1, 2, {1}), Invalid(Ing(1, 1, 1, 3, {1}), 3),
   Master(2, 1, 2, 1, 1), Foreign(Ing(2, 1, 2, 2, {1}), 2),
   Minion(3, 2, 3, 1, 1, <<1, 2>>), Minion(4, 3, 4, 1, 1, <<2, 2>>),
   Ing(5, 2, 7, 1, {1, 2}), Ing(5, 2, 7, 2, {2})}
HostVirtualServers ==
  {VS(1, 0, 5, 1, 1, <<[vsr |-> 1, path |-> 1]>>),
   VS(1, 0, 5, 2, 2, <<[vsr |-> 1, path |-> 1]>>)}
HostVirtualServerRoutes ==
  {VSR(1, 0, 6, 1, 1, <<1>>), VSR(1, 0, 6, 2, 1, <<1, 2>>),
   Invalid(VSR(1, 0, 6, 3, 1, <<>>), 3)}

-----------------------------------------------------------------------------
(* Listeners: TransportServers on the listeners of a GlobalConfiguration    *)
(* that renames, renumbers and drops its listeners, and has invalid         *)
(* versions; a TLS passthrough TransportServer and a VirtualServer that     *)
(* compete for a host.                                                      *)

Listener(name, protocol, port) == [name |-> name, protocol |-> protocol, port |-> port]

StreamTransportServers ==
  {TS(1, 1, 11, 1, 1, "TCP"), TS(1, 1, 11, 2, 2, "TCP"), Invalid(TS(1, 1, 11, 3, 1, "TCP"), 3),
   TS(2, 1, 12, 1, 1, "TCP"), TS(2, 1, 12, 2, 1, "UDP"),
   TS(3, 2, 13, 1, 2, "TCP"), Foreign(TS(3, 2, 13, 2, 2, "TCP"), 2),
   PassthroughTS(4, 2, 14, 1, 1), PassthroughTS(4, 2, 14, 2, 2)}
StreamVirtualServers == {VS(2, 1, 15, 1, 1, <<>>)}
StreamGlobalConfigurations ==
  {<<Listener(1, "TCP", 53), Listener(2, "TCP", 54)>>,
   <<Listener(1, "UDP", 53), Listener(2, "TCP", 55)>>,
   <<Listener(2, "TCP", 53)>>,
   <<Listener(1, "TCP", 53), Listener(1, "TCP", 54)>>,
   <<Listener(2, "TCP", 80)>>}

-----------------------------------------------------------------------------
(* Both families are objects of one instance, but they are never stored     *)
(* together: what is explored is the sum of their states, not the product.  *)

AllVirtualServers == HostVirtualServers \cup StreamVirtualServers

OneFamily ==
  \/ /\ ingresses = {} /\ virtualServerRoutes = {}
     /\ virtualServers \subseteq StreamVirtualServers
  \/ /\ transportServers = {} /\ globalConfiguration = {}
     /\ virtualServers \subseteq HostVirtualServers

-----------------------------------------------------------------------------
\* One TransportServer, edited from TLS passthrough to a TCP listener, next
\* to others.
EditedTransportServers ==
  {PassthroughTS(1, 1, 1, 1, 1), TS(1, 1, 1, 2, 1, "TCP"), TS(2, 2, 2, 1, 1, "TCP")}
EditedGlobalConfigurations == {<<Listener(1, "TCP", 53)>>}
=============================================================================
