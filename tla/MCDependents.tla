---------------------------- MODULE MCDependents ----------------------------
(***************************************************************************)
(* Small clusters for Dependents: each world has the objects of one topic  *)
(* and a few edits of them.  The worlds do not interact.                   *)
(***************************************************************************)
EXTENDS Dependents

Part(kind, name, role) ==
  [kind |-> kind, name |-> name, role |-> role, tls |-> {}, jwt |-> {}, policies |-> {},
   ap |-> {}, services |-> {}, clusterIP |-> {}, parts |-> {}]

Secret(name, type, wellFormed, rev) ==
  [kind |-> "Secret", name |-> <<<<"a">>, <<name>>>>, type |-> type,
   wellFormed |-> wellFormed, rev |-> rev]
Policy(name, secrets, ap) ==
  [kind |-> "Policy", name |-> name, valid |-> TRUE, secrets |-> secrets, ap |-> ap]
Service(name, ports, addresses) ==
  [kind |-> "Service", name |-> name, ports |-> ports, addresses |-> addresses]
Endpoints(name, addrs) == [kind |-> "Endpoints", name |-> name, addrs |-> addrs]
ConfigMap(address, broken) ==
  [kind |-> "ConfigMap", name |-> "config", address |-> address, broken |-> broken]
Link(ip) == [kind |-> "IngressLink", name |-> "link", ip |-> ip]

\* The informers queue the resources first, or what they depend on.
Orders(first, second) == {first \o second, second \o first}

Topic(objects, variants, removable, orders) ==
  [events |-> 2, objects |-> objects, variants |-> variants, removable |-> removable, orders |-> orders,
   plus |-> TRUE, spiffe |-> FALSE, election |-> FALSE, external |-> "none", special |-> "none"]

-----------------------------------------------------------------------------
(* Secrets and policies *)

Cert == Secret("cert", "tls", TRUE, "1")
Jwk == Secret("jwk", "jwk", TRUE, "1")
Oidc == Secret("oidc", "oidc", TRUE, "1")

Cafe == [Part("VirtualServer", "cafe", "VirtualServer") EXCEPT
           !.tls = {Cert.name}, !.policies = {"auth"},
           !.parts = {[Part("VirtualServerRoute", "tea", "VirtualServerRoute") EXCEPT
                         !.policies = {"login"}]}]
Shop == [Part("Ingress", "shop", "Ingress") EXCEPT !.tls = {Cert.name}, !.jwt = {Jwk.name}]
Auth == Policy("auth", {<<Jwk.name, "jwk">>}, {})
Login == Policy("login", {<<Oidc.name, "oidc">>}, {})

SecretWorld ==
  [Topic({Cert, Jwk, Oidc, Cafe, Shop, Auth, Login},
         {[Cert EXCEPT !.rev = "2"], [Cert EXCEPT !.wellFormed = FALSE], [Jwk EXCEPT !.rev = "2"],
          [Jwk EXCEPT !.wellFormed = FALSE], [Oidc EXCEPT !.rev = "2"],
          [Auth EXCEPT !.secrets = {}], [Login EXCEPT !.valid = FALSE], Auth},
         {Key(Cert), Key(Jwk), Key(Auth), Key(Shop)},
         Orders(<<Key(Cafe), Key(Shop)>>,
                <<Key(Cert), Key(Jwk), Key(Oidc), Key(Auth), Key(Login)>>))
     EXCEPT !.special = Cert.name]

-----------------------------------------------------------------------------
(* App Protect *)

Sig(name, tag, rev, created) ==
  [kind |-> "APUserSig", name |-> name, form |-> "ok", tag |-> tag, rev |-> rev,
   created |-> created, uid |-> created]
Old == Sig("old", "t", 2, 1)
New == Sig("new", "t", 5, 2)
Block == [kind |-> "APPolicy", name |-> "block", form |-> "ok", rest |-> "1",
          reqs |-> {[tag |-> "t", min |-> 1, max |-> 4]}]
Log == [kind |-> "APLogConf", name |-> "log", form |-> "ok", rest |-> "1"]

Bank == [Part("Ingress", "bank", "Ingress") EXCEPT !.ap = {Key(Block), Key(Log)}]
Waf == Policy("waf", {}, {Key(Block)})
Desk == [Part("VirtualServer", "desk", "VirtualServer") EXCEPT !.policies = {"waf"}]

AppProtectWorld ==
  Topic({Old, Block, Log, Bank, Waf, Desk},
        {New, Sig("old", "t", 2, 3), [Old EXCEPT !.rev = 4], [Old EXCEPT !.form = "badtime"],
         [Block EXCEPT !.rest = "2"], [Log EXCEPT !.form = "malformed"],
         [Log EXCEPT !.rest = "2"], [Waf EXCEPT !.ap = {}]},
        {Key(Old), Key(New), Key(Block), Key(Log)},
        Orders(<<Key(Bank), Key(Waf), Key(Desk)>>, <<Key(Block), Key(Log), Key(Old)>>))

-----------------------------------------------------------------------------
(* Services and endpoints *)

Web == Service("web", "80", <<>>)
Pods == Endpoints("web", "p1")
Site == [Part("Ingress", "site", "Master") EXCEPT
           !.parts = {[Part("Ingress", "blog", "Minion") EXCEPT !.services = {"web"}]}]
App == [Part("VirtualServer", "app", "VirtualServer") EXCEPT
          !.services = {"web"}, !.policies = {"limit"}]
Vip == [Part("VirtualServer", "vip", "VirtualServer") EXCEPT
          !.services = {"web"}, !.clusterIP = {"web"}]
Tcp == [Part("TransportServer", "tcp", "TransportServer") EXCEPT !.services = {"web"}]
Limit == Policy("limit", {}, {})

EndpointsWorld(plus) ==
  [Topic({Web, Pods, Site, App, Vip, Tcp},
         {[Web EXCEPT !.ports = "8080"], [Pods EXCEPT !.addrs = "p2"], Pods, Limit},
         {Key(Web), Key(Tcp)},
         Orders(<<Key(Site), Key(App), Key(Vip), Key(Tcp)>>, <<Key(Web), Key(Pods)>>))
     EXCEPT !.plus = plus]

-----------------------------------------------------------------------------
(* SPIFFE and the ConfigMap *)

SpiffeWorld ==
  [Topic({Cert, Cafe, ConfigMap("", FALSE)},
         {ConfigMap("", TRUE), ConfigMap("10.0.0.1", FALSE), [Cert EXCEPT !.rev = "2"]},
         {Key(Cert), Key(ConfigMap("", FALSE))},
         Orders(<<Key(Cafe)>>, <<Key(Cert), Key(ConfigMap("", FALSE))>>))
     EXCEPT !.spiffe = TRUE, !.events = 3]

-----------------------------------------------------------------------------
(* Statuses *)

Lb == Service("front", "80", <<"1.1.1.1">>)
Home == Part("Ingress", "home", "Ingress")

ServiceWorld ==
  [Topic({Lb, Home, ConfigMap("10.0.0.1", FALSE)},
         {[Lb EXCEPT !.addresses = <<"2.2.2.2">>], ConfigMap("10.0.0.1", FALSE), ConfigMap("", FALSE)},
         {Key(Lb), Key(Home), Key(ConfigMap("", FALSE))},
         Orders(<<Key(Home)>>, <<Key(ConfigMap("", FALSE)), Key(Lb)>>))
     EXCEPT !.external = "front", !.election = TRUE, !.events = 3]

LinkWorld ==
  [Topic({Home},
         {Link("3.3.3.3"), Link(""), ConfigMap("10.0.0.1", FALSE), ConfigMap("", FALSE)},
         {Key(Link(""))},
         Orders(<<Key(Home)>>, <<>>))
     EXCEPT !.election = TRUE, !.events = 3]

MCWorlds ==
  [secrets |-> SecretWorld, appProtect |-> AppProtectWorld, plus |-> EndpointsWorld(TRUE),
   oss |-> EndpointsWorld(FALSE), spiffe |-> SpiffeWorld, service |-> ServiceWorld,
   link |-> LinkWorld]

AllObjects == UNION {MCWorlds[w].objects \cup MCWorlds[w].variants : w \in DOMAIN MCWorlds}
MCPolicies == {o \in AllObjects : o.kind = "APPolicy"}
MCLogConfs == {o \in AllObjects : o.kind = "APLogConf"}
MCUserSigs == {o \in AllObjects : o.kind = "APUserSig"}
=============================================================================
