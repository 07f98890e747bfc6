--------------------------- MODULE MCController ---------------------------
(***************************************************************************)
(* Small instances of Controller.                                          *)
(***************************************************************************)
EXTENDS Controller

Blank(kind, name, created, uid, gen) ==
  [kind |-> kind, name |-> name, created |-> created, uid |-> uid,
   generation |-> gen, class |-> TRUE, valid |-> TRUE, mergeable |-> "regular",
   hosts |-> {}, paths |-> <<>>, routes |-> <<>>, rest |-> 0,
   listener |-> [name |-> 0, protocol |-> "TCP"]]

Ing(name, created, uid, gen, hs) ==
  [Blank("Ingress", name, created, uid, gen) EXCEPT !.hosts = hs]
VS(name, created, uid, gen, h, rs) ==
  [Blank("VirtualServer", name, created, uid, gen) EXCEPT !.hosts = {h}, !.routes = rs]
VSR(name, created, uid, gen, h, ps) ==
  [Blank("VirtualServerRoute", name, created, uid, gen) EXCEPT !.hosts = {h}, !.paths = ps]
TS(name, created, uid, gen, l, protocol) ==
  [Blank("TransportServer", name, created, uid, gen) EXCEPT
     !.listener = [name |-> l, protocol |-> protocol]]

None == {}

-----------------------------------------------------------------------------
(* A VirtualServer with a route and its VirtualServerRoute, which gets      *)
(* other upstreams, an older Ingress that takes the host, and an invalid    *)
(* version of the VirtualServer; a TransportServer and its listener.        *)

WebIngresses == {Ing(1, 0, 1, 1, {1}), Ing(1, 0, 1, 2, {2})}
Route == [vsr |-> 1, path |-> 1]
WebVirtualServers ==
  {VS(1, 1, 2, 1, 1, <<Route>>), VS(1, 1, 2, 2, 2, <<>>),
   [VS(1, 1, 2, 3, 2, <<>>) EXCEPT !.valid = FALSE]}
WebVirtualServerRoutes ==
  {VSR(1, 1, 3, 1, 1, <<1>>), [VSR(1, 1, 3, 2, 1, <<1>>) EXCEPT !.rest = 1]}

Listener(name, protocol, port) == [name |-> name, protocol |-> protocol, port |-> port]

WebTransportServers == {TS(1, 1, 4, 1, 1, "TCP")}
WebGlobalConfigurations == {<<Listener(1, "TCP", 53)>>}

-----------------------------------------------------------------------------
(* Two TransportServers that compete for the listeners of a                 *)
(* GlobalConfiguration and, in their last versions, for a TLS passthrough   *)
(* host; the second one starts out with another host.                       *)

Passthrough(name, created, uid, gen, h) ==
  [TS(name, created, uid, gen, 0, TLSPassthrough) EXCEPT !.hosts = {h}]

StreamTransportServers ==
  {TS(1, 1, 1, 1, 1, "TCP"), TS(1, 1, 1, 2, 2, "TCP"), Passthrough(1, 1, 1, 3, 1),
   TS(2, 0, 2, 1, 1, "TCP"), [TS(2, 0, 2, 2, 1, "TCP") EXCEPT !.valid = FALSE],
   Passthrough(2, 0, 2, 3, 2), Passthrough(2, 0, 2, 4, 1)}
StreamGlobalConfigurations ==
  {<<Listener(1, "TCP", 53), Listener(2, "TCP", 54)>>, <<Listener(1, "TCP", 55)>>}

-----------------------------------------------------------------------------
(* A VirtualServer that is deleted and created again, with other upstreams. *)

RecreatedVirtualServers ==
  {VS(1, 1, 1, 1, 1, <<>>), [VS(1, 2, 2, 1, 1, <<>>) EXCEPT !.rest = 1]}

\* The other instances meet the hypotheses of the theorems.
ASSUME HypothesesMet ==
  VirtualServers # RecreatedVirtualServers => VersionsTold /\ NamesKept /\ PassthroughKept
=============================================================================
