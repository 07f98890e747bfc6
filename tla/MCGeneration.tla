---------------------------- MODULE MCGeneration ----------------------------
(***************************************************************************)
(* Small VirtualServers for VirtualServerConfig, one family for each of    *)
(* its topics: routing, policies, upstreams, and the resources that are    *)
(* rejected or that conflict.                                              *)
(***************************************************************************)
EXTENDS VirtualServerConfig

Up(name, service) ==
  [name |-> name, service |-> service, useClusterIP |-> FALSE, subselector |-> FALSE,
   healthCheck |-> FALSE]
Tea == Up("tea", "tea-svc")
Coffee == Up("coffee", "coffee-svc")

Pass(name) == {[kind |-> "pass", to |-> name]}
Proxy(name) == {[kind |-> "proxy", to |-> name]}
Redirect(name) == {[kind |-> "redirect", to |-> <<"url", name>>]}
Return(name) == {[kind |-> "return", to |-> <<"body", name>>]}

ErrorRedirect(name) == [redirect |-> <<"url", name>>, return |-> Nil]
ErrorReturn(name) == [redirect |-> Nil, return |-> <<"body", name>>]

Prefix(text) == <<"prefix", text>>
Regex(text) == <<"regex", text>>

Split(weight, action) == [weight |-> weight, action |-> action]
Match(conditions, splits, action) ==
  [conditions |-> conditions, splits |-> splits, action |-> action]
Is(source) == [source |-> source, negative |-> FALSE]
IsNot(source) == [source |-> source, negative |-> TRUE]

Route(path, action) ==
  [path |-> path, policies |-> <<>>, errorPages |-> <<>>, matches |-> <<>>, splits |-> <<>>,
   action |-> action, route |-> Nil]
Refer(path, name) == [Route(path, Nil) EXCEPT !.route = name]
Splitting(path, splits) == [Route(path, Nil) EXCEPT !.splits = splits]

VSR(name, subroutes) ==
  [name |-> name, namespace |-> name[1], host |-> "cafe", upstreams |-> <<Tea>>,
   subroutes |-> subroutes]

VS(routes, vsrSet) ==
  [namespace |-> "a", host |-> "cafe", tls |-> Nil, policies |-> <<>>,
   upstreams |-> <<Tea, Coffee>>, routes |-> routes,
   vsrs |-> [n \in {v.name : v \in vsrSet} |-> CHOOSE v \in vsrSet : v.name = n],
   isPlus |-> TRUE, isResolverConfigured |-> FALSE]

PathA == Prefix(<<"a">>)
PathAB == Prefix(<<"a", "b">>)
PathC == Prefix(<<"c">>)
VsrB == <<"b", "vsr">>

-----------------------------------------------------------------------------
(* Routing *)

TwoSplits == <<Split(90, Pass("tea")), Split(10, Return("s"))>>
TwoReturns == <<Split(50, Return("x")), Split(50, Return("y"))>>

Shapes(path) ==
  LET match(ms, splits, action) == [Route(path, action) EXCEPT !.matches = ms, !.splits = splits]
  IN {Route(path, Proxy("tea")), Route(path, Return("r")), Route(path, Redirect("u")),
      Splitting(path, TwoSplits), Splitting(path, TwoReturns),
      match(<<Match(<<Is("h")>>, TwoReturns, Nil), Match(<<IsNot("i"), Is("j")>>, <<>>, Return("m"))>>,
            TwoSplits, Nil),
      match(<<Match(<<Is("h"), Is("i")>>, <<>>, Pass("tea")), Match(<<Is("i")>>, TwoSplits, Nil)>>,
            <<>>, Return("d"))}

PageLists == {<<>>, <<ErrorReturn("e")>>, <<ErrorRedirect("f"), ErrorReturn("g")>>,
              <<ErrorRedirect("f")>>}

Routing ==
  {VS(<<[r1 EXCEPT !.errorPages = p1], [r2 EXCEPT !.errorPages = <<ErrorReturn("z")>>]>>, {}) :
     r1 \in Shapes(PathA), r2 \in Shapes(PathC), p1 \in PageLists}
  \cup {VS(<<[Refer(PathA, VsrB) EXCEPT !.errorPages = p1], r2>>,
           {VSR(VsrB, <<s1, [Route(PathAB, Pass("tea")) EXCEPT !.errorPages = p2]>>)}) :
          s1 \in Shapes(PathA), r2 \in Shapes(PathC), p1 \in PageLists, p2 \in PageLists}

-----------------------------------------------------------------------------
(* Policies *)

Policy(kind, names) == [kind |-> kind, secrets |-> names, trusted |-> <<>>, ap |-> <<>>]
Waf(names) == [Policy("waf", <<>>) EXCEPT !.ap = names]
Egress(tls, trusted) == [Policy("egressMTLS", tls) EXCEPT !.trusted = trusted]
InA(name) == <<"a", name>>

PoliciesInA ==
  [rate |-> Policy("rateLimit", <<>>), allow |-> Policy("accessControl", <<>>),
   jwt |-> Policy("jwt", <<InA("jwk")>>), jwtBad |-> Policy("jwt", <<InA("broken")>>),
   mtls |-> Policy("ingressMTLS", <<InA("ca")>>),
   egress |-> Egress(<<InA("cert")>>, <<InA("ca")>>),
   egressBad |-> Egress(<<InA("gone")>>, <<InA("other")>>),
   oidc |-> Policy("oidc", <<InA("client")>>), oidc2 |-> Policy("oidc", <<InA("client2")>>),
   waf |-> Waf(<<InA("ap"), InA("log")>>), wafBad |-> Waf(<<InA("nowhere"), InA("log")>>)]

MCPolicies ==
  [k \in {InA(n) : n \in DOMAIN PoliciesInA} \cup {<<"b", "jwt">>} |->
     IF k[1] = "a" THEN PoliciesInA[k[2]] ELSE Policy("jwt", <<<<"b", "jwk">>>>)]

MCSecrets ==
  LET secret(type) == [type |-> type, valid |-> TRUE]
  IN [k \in {InA(n) : n \in {"jwk", "ca", "cert", "client", "client2", "broken"}} \cup {<<"b", "jwk">>} |->
        CASE k[2] = "jwk" -> secret("jwk")
          [] k[2] = "ca" -> secret("ca")
          [] k[2] = "cert" -> secret("tls")
          [] k[2] = "broken" -> [type |-> "jwk", valid |-> FALSE]
          [] OTHER -> secret("oidc")]

MCApNames == {InA("ap"), InA("log")}

Ref(name) == <<"", name>>
RefNames == DOMAIN PoliciesInA \cup {"missing"}
Lists ==
  {<<>>} \cup {<<Ref(n)>> : n \in RefNames}
         \cup {<<Ref(n), Ref(o)>> : n \in RefNames, o \in RefNames}
RouteLists ==
  {<<>>} \cup {<<Ref(n)>> : n \in RefNames}
         \cup {<<Ref("rate"), Ref("egress"), Ref("oidc2")>>, <<Ref("jwt"), Ref("jwtBad"), Ref("oidc")>>,
               <<Ref("waf"), Ref("wafBad")>>}

Policied ==
  {[VS(<<[Route(PathA, Pass("tea")) EXCEPT !.policies = q]>>, {})
      EXCEPT !.policies = p, !.tls = t] :
     p \in Lists, q \in RouteLists, t \in {Nil, "cert"}}
  \cup {[VS(<<[Refer(PathA, VsrB) EXCEPT !.policies = p],
              [Splitting(PathC, TwoReturns) EXCEPT !.policies = <<Ref("oidc")>>]>>,
            {VSR(VsrB, <<[Route(PathA, Pass("tea")) EXCEPT !.policies = q]>>)})
           EXCEPT !.policies = o] :
          p \in RouteLists, o \in {<<>>, <<Ref("oidc")>>, <<Ref("oidc2"), Ref("missing")>>},
          q \in {<<>>, <<Ref("jwt")>>, <<<<"a", "rate">>, Ref("jwt")>>, <<<<"a", "mtls">>>>,
                 <<<<"a", "oidc2">>, <<"a", "egressBad">>>>}}

-----------------------------------------------------------------------------
(* Upstreams *)

MCServices ==
  [k \in {<<"a", "tea-svc">>, <<"a", "coffee-svc">>, <<"b", "tea-svc">>} |->
     CASE k = <<"a", "tea-svc">> ->
            [pods |-> {"1", "2"}, selected |-> {"2"}, clusterIP |-> "ip", externalName |-> {}]
       [] k = <<"a", "coffee-svc">> ->
            [pods |-> {}, selected |-> {}, clusterIP |-> "ip", externalName |-> {"name"}]
       [] OTHER -> [pods |-> {}, selected |-> {}, clusterIP |-> "ip2", externalName |-> {}]]

Upstreams ==
  {[VS(<<Route(PathC, Pass("tea")), Refer(PathA, VsrB)>>,
       {VSR(VsrB, <<Route(PathA, Pass("tea"))>>)})
      EXCEPT !.upstreams = <<[Tea EXCEPT !.useClusterIP = c, !.healthCheck = h],
                             [Up("green", service) EXCEPT !.subselector = s]>>,
             !.isPlus = plus, !.isResolverConfigured = resolver] :
     c \in BOOLEAN, s \in BOOLEAN, h \in BOOLEAN, plus \in BOOLEAN, resolver \in BOOLEAN,
     service \in {"tea-svc", "coffee-svc", "gone"}}

-----------------------------------------------------------------------------
(* What is rejected, what is left out, and what conflicts *)

OneRoute(r) == VS(<<r>>, {})
Under(path, subroutes) == VS(<<Refer(path, Ref("vsr"))>>, {VSR(<<"a", "vsr">>, subroutes)})

Odd ==
  {OneRoute(Route(PathA, Pass("gone"))),
   OneRoute(Route(PathA, Pass("tea") \cup Proxy("tea"))),
   OneRoute(Route(PathA, Nil)),
   OneRoute([Splitting(PathA, TwoSplits) EXCEPT !.action = Pass("tea")]),
   OneRoute(Splitting(PathA, <<Split(99, Pass("tea"))>>)),
   OneRoute(Splitting(PathA, <<Split(50, Pass("tea")), Split(49, Pass("tea"))>>)),
   OneRoute([Route(PathA, Pass("tea")) EXCEPT !.matches = <<Match(<<>>, <<>>, Pass("tea"))>>]),
   OneRoute([Route(PathA, Pass("tea")) EXCEPT !.matches = <<Match(<<Is("h")>>, <<>>, Nil)>>]),
   OneRoute([Route(PathA, Pass("tea")) EXCEPT !.errorPages = <<[redirect |-> Nil, return |-> Nil]>>]),
   OneRoute([Route(PathA, Pass("tea")) EXCEPT !.policies = <<Ref("rate"), <<"a", "rate">>>>]),
   [OneRoute(Route(PathA, Pass("tea"))) EXCEPT !.upstreams = <<Tea, Tea>>],
   VS(<<Route(PathA, Pass("tea")), Route(PathA, Return("r"))>>, {}),
   VS(<<Refer(PathA, VsrB), Route(PathC, Pass("tea"))>>, {}),
   Under(PathC, <<Route(PathA, Pass("tea"))>>),
   Under(PathA, <<Route(PathA, Pass("tea")), Route(PathA, Return("r"))>>),
   Under(PathA, <<Route(PathA, Pass("coffee"))>>),
   Under(PathA, <<Refer(PathA, VsrB)>>),
   Under(PathA, <<Route(Regex(<<"x">>), Pass("tea"))>>),
   Under(Regex(<<"x">>), <<Route(Regex(<<"x">>), Pass("tea"))>>),
   Under(Regex(<<"x">>), <<Route(Regex(<<"y">>), Pass("tea"))>>),
   Under(Regex(<<"x">>), <<Route(Regex(<<"x">>), Pass("tea")), Route(PathA, Pass("tea"))>>),
   \* One VirtualServerRoute under two routes, also if it fits only one of them, and
   \* one path in two resources.
   VS(<<[Refer(PathA, VsrB) EXCEPT !.policies = <<Ref("rate")>>],
        [Refer(PathC, VsrB) EXCEPT !.policies = <<Ref("allow")>>]>>,
      {VSR(VsrB, <<Route(PathAB, Pass("tea"))>>)}),
   VS(<<Refer(PathA, VsrB), Refer(PathAB, VsrB)>>, {VSR(VsrB, <<Route(PathAB, Pass("tea"))>>)}),
   VS(<<Refer(PathA, VsrB), Route(PathAB, Pass("tea"))>>, {VSR(VsrB, <<Route(PathAB, Pass("tea"))>>)})}

MCInputs == Routing \cup Policied \cup Upstreams \cup Odd
=============================================================================
