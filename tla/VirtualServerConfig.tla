------------------------ MODULE VirtualServerConfig ------------------------
(***************************************************************************)
(* From a VirtualServer with its VirtualServerRoutes to the configuration  *)
(* of an NGINX server: the validator decides, buildVirtualServerRoutes     *)
(* finds the VirtualServerRoutes, createVirtualServerEx collects what the  *)
(* resources refer to, and GenerateVirtualServerConfig walks the routes    *)
(* and numbers the locations, variables and named locations it makes       *)
(* (internal/configs/virtualserver.go).                                    *)
(*                                                                         *)
(* The cluster is fixed while the worker handles a task.  Names that the   *)
(* code formats are tuples of the parts it formats.                        *)
(***************************************************************************)
EXTENDS VirtualServerValidation

CONSTANTS
  Inputs,     \* the VirtualServers, each with the VirtualServerRoutes there are
              \* and the flags of the controller
  Policies,   \* the valid policies of the lister, by key
  Secrets,    \* the secrets of the store, by key: the type, and whether it is valid
  ApNames,    \* the keys of the usable App Protect policies and log configurations
  Services    \* the services by key: the pods of their Endpoints, the selected ones
              \* of them, clusterIP, and externalName, {} unless that is their type

VARIABLES
  vs,      \* the input
  vsrs,    \* the VirtualServerRoutes of the VirtualServer, in order
  ex,      \* VirtualServerEx: what createVirtualServerEx found
  cfg,     \* the configuration generated so far
  pc       \* the next step

vars == <<vs, vsrs, ex, cfg, pc>>

IsPlus == vs.isPlus
IsResolverConfigured == vs.isResolverConfigured

-----------------------------------------------------------------------------
(* buildVirtualServerRoutes and createVirtualServerEx *)

IsVsr(r) == r.route # Nil
References(v) == SelectSeq(v.routes, IsVsr)

BuildVirtualServerRoutes(v) ==
  LET found == SelectSeq(References(v), LAMBDA r :
                 /\ Resolve(r.route, v.namespace) \in DOMAIN v.vsrs
                 /\ ValidateVirtualServerRoute(v.vsrs[Resolve(r.route, v.namespace)],
                                               v.host, r.path, IsPlus))
  IN [i \in DOMAIN found |-> v.vsrs[Resolve(found[i].route, v.namespace)]]

Usable(key, type) == key \in DOMAIN Secrets /\ Secrets[key].valid /\ Secrets[key].type = type

\* The secrets a policy names, in the order they are looked at, with the type
\* each must have.
SecretsOfPolicy(p) ==
  LET typed(secrets, type) == [i \in DOMAIN secrets |-> [key |-> secrets[i], type |-> type]]
  IN CASE p.kind = "jwt" -> typed(p.secrets, "jwk")
       [] p.kind = "ingressMTLS" -> typed(p.secrets, "ca")
       [] p.kind = "oidc" -> typed(p.secrets, "oidc")
       [] p.kind = "egressMTLS" -> typed(p.secrets, "tls") \o typed(p.trusted, "ca")
       [] OTHER -> <<>>

\* GetSecret returns an Error for a secret that is missing or invalid, of
\* whatever type it is.
HasError(key) == key \notin DOMAIN Secrets \/ ~Secrets[key].valid

GetPolicies(refs, namespace) ==
  SelectSeq(ResolveAll(refs, namespace), LAMBDA key : key \in DOMAIN Policies)

\* The elements of a sequence up to the first that is in the given set.
UpTo(seq, last) ==
  LET stops == {i \in DOMAIN seq : seq[i] \in last}
  IN IF stops = {} THEN ToSet(seq) ELSE {seq[i] : i \in 1..Min(stops)}

OfKind(keys, kind) == SelectSeq(keys, LAMBDA k : Policies[k].kind = kind)

\* addJWTSecretRefs and its siblings store the references and stop at the first
\* that has an Error; addIngressMTLSSecretRefs looks at one policy only.
AddSecretRefs(keys, kind) ==
  LET policies == OfKind(keys, kind)
      considered == IF kind = "ingressMTLS" /\ policies # <<>>
                      THEN <<Head(policies)>> ELSE policies
      names == FlattenSeq([i \in DOMAIN considered |-> SecretsOfPolicy(Policies[considered[i]])])
      named == [i \in DOMAIN names |-> names[i].key]
  IN UpTo(named, {k \in ToSet(named) : HasError(k)})

\* Mutant: the client secrets of the OIDC policies of a route are not collected.
AddSecretRefsNoRouteOIDC(keys, kinds) ==
  UNION {AddSecretRefs(keys, k) : k \in IF "ingressMTLS" \in kinds THEN kinds ELSE kinds \ {"oidc"}}

SecretRefsOf(keys, kinds) == UNION {AddSecretRefs(keys, k) : k \in kinds}

\* addWAFPolicyRefs stops at the first resource that is not usable.
AddWAFPolicyRefs(keys) ==
  LET waf == OfKind(keys, "waf")
      names == FlattenSeq([i \in DOMAIN waf |-> Policies[waf[i]].ap])
  IN UpTo(names, ToSet(names) \ ApNames) \cap ApNames

RouteKinds == {"jwt", "egressMTLS", "oidc"}

\* GenerateEndpointsKey has no trace of use-cluster-ip.
EndpointsKey(u, namespace) == <<namespace, u.service, u.subselector>>

\* What the loop over the upstreams finds for one of them.  A service of type
\* ExternalName has no Endpoints: its name takes their place in NGINX Plus, and in
\* NGINX getEndpointsForIngressBackend returns an error and none.
EndpointsOf(u, namespace) ==
  LET key == <<namespace, u.service>>
  IN IF key \notin DOMAIN Services THEN {}
     ELSE IF u.useClusterIP THEN {Services[key].clusterIP}
     ELSE IF u.subselector THEN Services[key].selected
     ELSE Services[key].pods \cup (IF IsPlus THEN Services[key].externalName ELSE {})

IsExternal(u, namespace) ==
  /\ ~u.useClusterIP /\ ~u.subselector /\ IsPlus
  /\ <<namespace, u.service>> \in DOMAIN Services
  /\ Services[<<namespace, u.service>>].externalName # {}

\* The upstreams of the resources, in order, each with its owner.
OwnedUpstreams(v, routes) ==
  LET of(o, name) == [i \in DOMAIN o.upstreams |->
                        [name |-> <<name, o.upstreams[i].name>>,
                         namespace |-> o.namespace, upstream |-> o.upstreams[i]]]
  IN of(v, <<"vs">>) \o FlattenSeq([i \in DOMAIN routes |-> of(routes[i], routes[i].name)])

\* The maps are filled in order, so of two upstreams with one key the last wins.
EndpointsMap(owned) ==
  FoldLeft(LAMBDA map, o :
             [k \in DOMAIN map \cup {EndpointsKey(o.upstream, o.namespace)} |->
                IF k = EndpointsKey(o.upstream, o.namespace)
                  THEN EndpointsOf(o.upstream, o.namespace) ELSE map[k]],
           [k \in {} |-> {}], owned)

CreateVirtualServerEx(v, routes) ==
  LET spec == GetPolicies(v.policies, v.namespace)
      lists == [i \in DOMAIN v.routes |-> GetPolicies(v.routes[i].policies, v.namespace)]
               \o FlattenSeq([i \in DOMAIN routes |->
                    [j \in DOMAIN routes[i].subroutes |->
                       GetPolicies(routes[i].subroutes[j].policies, routes[i].namespace)]])
      owned == OwnedUpstreams(v, routes)
  IN [secretRefs |-> {<<v.namespace, s>> : s \in {v.tls} \ {Nil}}
                     \cup SecretRefsOf(spec, RouteKinds \cup {"ingressMTLS"})
                     \cup UNION {SecretRefsOf(lists[i], RouteKinds) : i \in DOMAIN lists},
      apRefs |-> AddWAFPolicyRefs(spec) \cup UNION {AddWAFPolicyRefs(lists[i]) : i \in DOMAIN lists},
      policies |-> ToSet(spec) \cup UNION {ToSet(lists[i]) : i \in DOMAIN lists},
      endpoints |-> EndpointsMap(owned),
      external |-> {<<o.namespace, o.upstream.service>> :
                      o \in {o \in ToSet(owned) : IsExternal(o.upstream, o.namespace)}}]

-----------------------------------------------------------------------------
(* Policies *)

\* addAccessControlConfig and addRateLimitConfig add to what is there; of the
\* other kinds a context has one policy, the first.
Repeatable == {"accessControl", "rateLimit"}

HasKind(applied, kind) == \E i \in DOMAIN applied : Policies[applied[i]].kind = kind

\* The outcome of adding one policy to those of its context is "add" it, "skip"
\* it with a warning, "error", or "panic" at a reference that is not there.  The
\* secrets of a policy are looked up one after the other.
CheckSecrets(p) ==
  LET names == SecretsOfPolicy(p)
      bad == {i \in DOMAIN names :
                names[i].key \notin ex.secretRefs \/ ~Usable(names[i].key, names[i].type)}
  IN IF bad = {} THEN "add"
     ELSE IF names[Min(bad)].key \in ex.secretRefs THEN "error" ELSE "panic"

AddJWTAuthConfig(p, applied) ==
  IF HasKind(applied, "jwt") THEN "skip" ELSE CheckSecrets(p)

AddIngressMTLSConfig(p, applied, context, tls) ==
  IF ~tls \/ context # "spec" THEN "error"
  ELSE IF HasKind(applied, "ingressMTLS") THEN "skip"
  ELSE CheckSecrets(p)

AddEgressMTLSConfig(p, applied) ==
  IF HasKind(applied, "egressMTLS") THEN "skip" ELSE CheckSecrets(p)

\* A VirtualServer and its routes share one OIDC policy, the first that is added.
AddOIDCConfig(key, applied, oidcKey) ==
  IF HasKind(applied, "oidc") THEN "skip"
  ELSE IF oidcKey = key THEN "add"
  ELSE IF oidcKey # Nil THEN "error"
  ELSE CheckSecrets(Policies[key])

AddWAFConfig(p, applied) ==
  IF HasKind(applied, "waf") THEN "skip"
  ELSE IF ToSet(p.ap) \subseteq ex.apRefs THEN "add" ELSE "error"

Outcome(key, applied, context, tls, oidcKey) ==
  LET p == Policies[key]
  IN CASE p.kind \in Repeatable -> "add"
       [] p.kind = "jwt" -> AddJWTAuthConfig(p, applied)
       [] p.kind = "ingressMTLS" -> AddIngressMTLSConfig(p, applied, context, tls)
       [] p.kind = "egressMTLS" -> AddEgressMTLSConfig(p, applied)
       [] p.kind = "oidc" -> AddOIDCConfig(key, applied, oidcKey)
       [] p.kind = "waf" -> AddWAFConfig(p, applied)

\* generatePolicies, with the OIDC policy that the VirtualServer uses so far.
GeneratePolicies(keys, context, tls, oidcKey) ==
  LET add(acc, key) ==
        LET outcome == IF key \in ex.policies
                         THEN Outcome(key, acc.applied, context, tls, acc.oidcKey) ELSE "error"
        IN IF acc.error \/ acc.panic THEN acc
           ELSE CASE outcome = "error" -> [acc EXCEPT !.error = TRUE, !.applied = <<>>]
                  [] outcome = "panic" -> [acc EXCEPT !.panic = TRUE]
                  [] outcome = "skip" -> acc
                  [] outcome = "add" ->
                       [acc EXCEPT !.applied = Append(@, key),
                                   !.oidcKey = IF Policies[key].kind = "oidc" THEN key ELSE @]
  IN FoldLeft(add, [applied |-> <<>>, error |-> FALSE, panic |-> FALSE, oidcKey |-> oidcKey], keys)

\* generateSSLConfig: a secret that does not do leaves TLS on with a cipher that
\* no client can use.
SSLConfig(v) ==
  IF v.tls = Nil THEN Nil
  ELSE IF Usable(<<v.namespace, v.tls>>, "tls") THEN "secret" ELSE "unusable"

-----------------------------------------------------------------------------
(* Upstreams *)

Server502 == {"502"}

InExternal(o) == <<o.namespace, o.upstream.service>> \in ex.external

\* NGINX needs a server in every upstream, NGINX Plus does not.
GenerateEndpointsForUpstream(o) ==
  LET endpoints == ex.endpoints[EndpointsKey(o.upstream, o.namespace)]
  IN IF ~IsPlus /\ endpoints = {} THEN Server502
     ELSE IF InExternal(o) /\ ~IsResolverConfigured THEN {}
     ELSE endpoints

GenerateUpstream(o) ==
  [name |-> o.name, servers |-> GenerateEndpointsForUpstream(o), resolve |-> InExternal(o)]

\* generateHealthCheck: the upstreams that are probed.
GenerateHealthChecks(owned) ==
  {o.name : o \in {o \in ToSet(owned) : o.upstream.healthCheck}}

\* createUpstreamsForPlus: what the API is told when the endpoints change.
CreateUpstreamsForPlus(owned) ==
  LET told == SelectSeq(owned, LAMBDA o : ~InExternal(o))
  IN [i \in DOMAIN told |->
        [name |-> told[i].name,
         servers |-> ex.endpoints[EndpointsKey(told[i].upstream, told[i].namespace)]]]

-----------------------------------------------------------------------------
(* Locations *)

ErrorPageName(index, i) == <<"error_page", index, i>>

GenerateErrorPages(index, pages) ==
  [i \in DOMAIN pages |->
     IF pages[i].redirect # Nil THEN pages[i].redirect ELSE ErrorPageName(index, i)]

\* A redirect needs no named location; the others keep their position in the name.
GenerateErrorPageLocations(index, pages) ==
  LET returned == SelectSeq([i \in DOMAIN pages |-> i], LAMBDA i : pages[i].redirect = Nil)
  IN [k \in DOMAIN returned |->
        [name |-> ErrorPageName(index, returned[k]), body |-> pages[returned[k]].return]]

\* What all locations of a route have in common; only the properties look at
\* which route it is.
RouteContext(of, namer, pages, index, ret, policies) ==
  [of |-> of, namer |-> namer, pages |-> pages, index |-> index, ret |-> ret,
   policies |-> policies]

Clause(action) == CHOOSE c \in action : TRUE

\* generateLocation: a redirect and a return are error pages of an internal 418,
\* the latter with a named location of its own.
GenerateLocation(path, action, ctx, ret) ==
  LET c == Clause(action)
      loc == [path |-> path, pass |-> Nil, pages |-> <<>>, policies |-> ctx.policies,
              of |-> ctx.of]
  IN CASE c.kind = "redirect" -> [location |-> [loc EXCEPT !.pages = <<c.to>>], returns |-> <<>>]
       [] c.kind = "return" ->
            [location |-> [loc EXCEPT !.pages = <<<<"return", ret>>>>],
             returns |-> <<[name |-> <<"return", ret>>, body |-> c.to]>>]
       [] OTHER ->
            [location |-> [loc EXCEPT !.pass = <<ctx.namer, c.to>>,
                                      !.pages = GenerateErrorPages(ctx.index, ctx.pages)],
             returns |-> <<>>]

SplitVariable(sc) == <<"splits", sc>>
SplitPath(sc, i) == <<"split", sc, i>>

NoRouting == [maps |-> <<>>, splitClients |-> <<>>, locations |-> <<>>, returns |-> <<>>,
              redirects |-> <<>>]

IsReturn(action) == Clause(action).kind = "return"

\* Mutant: the return locations of the splits are all numbered from the first.
GenerateSplitsOneReturn(splits, sc, ctx, ret) ==
  LET made == [i \in DOMAIN splits |->
                 GenerateLocation(SplitPath(sc, i), splits[i].action, ctx, ret)]
  IN [NoRouting EXCEPT
        !.splitClients = <<[variable |-> SplitVariable(sc),
                            to |-> [i \in DOMAIN splits |-> SplitPath(sc, i)]]>>,
        !.locations = [i \in DOMAIN splits |-> made[i].location],
        !.returns = FlattenSeq([i \in DOMAIN splits |-> made[i].returns])]

\* generateSplits: a location for every split, a variable that picks one.
GenerateSplits(splits, sc, ctx, ret) ==
  LET before(i) == Cardinality({j \in 1..(i - 1) : IsReturn(splits[j].action)})
      made == [i \in DOMAIN splits |->
                 GenerateLocation(SplitPath(sc, i), splits[i].action, ctx, ret + before(i))]
  IN [NoRouting EXCEPT
        !.splitClients = <<[variable |-> SplitVariable(sc),
                            to |-> [i \in DOMAIN splits |-> SplitPath(sc, i)]]>>,
        !.locations = [i \in DOMAIN splits |-> made[i].location],
        !.returns = FlattenSeq([i \in DOMAIN splits |-> made[i].returns])]

Join(a, b) ==
  [maps |-> a.maps \o b.maps, splitClients |-> a.splitClients \o b.splitClients,
   locations |-> a.locations \o b.locations, returns |-> a.returns \o b.returns,
   redirects |-> a.redirects \o b.redirects]

GenerateDefaultSplitsConfig(r, sc, ctx) ==
  [GenerateSplits(r.splits, sc, ctx, ctx.ret) EXCEPT
     !.redirects = <<[path |-> r.path, to |-> SplitVariable(sc)]>>]

ConditionVariable(m, i, j) == <<"cond", m, i, j>>

\* generateParametersForMatchesRouteMap: what the map gives if the source has
\* the value of the condition, and what it gives by default.
GenerateParameters(condition, success) ==
  IF condition.negative THEN [value |-> <<"0">>, default |-> success]
  ELSE [value |-> success, default |-> <<"0">>]

\* One map for each condition of each match; a condition that holds hands over
\* to the next one of its match.
ConditionMaps(r, m) ==
  FlattenSeq([i \in DOMAIN r.matches |->
    LET cs == r.matches[i].conditions
    IN [j \in DOMAIN cs |->
          [variable |-> ConditionVariable(m, i, j), source |-> cs[j].source,
           params |-> GenerateParameters(cs[j],
             IF j < Len(cs) THEN ConditionVariable(m, i, j + 1) ELSE <<"1">>)]]])

\* Where the main map leads when match i is the first that holds, and where it
\* leads when none does.
MatchPath(m, i) == <<"match", m, i>>
DefaultPath(m) == <<"default", m>>

\* The matches and, last, the target of the route itself.
Cases(r) == Append(r.matches, [conditions |-> <<>>, splits |-> r.splits, action |-> r.action])

CasePath(r, m, i) == IF i <= Len(r.matches) THEN MatchPath(m, i) ELSE DefaultPath(m)

SplitsBefore(r, i) == Cardinality({j \in 1..(i - 1) : Cases(r)[j].splits # <<>>})

MainMap(r, m, sc) ==
  [variable |-> <<"matches", m>>,
   source |-> [i \in DOMAIN r.matches |-> ConditionVariable(m, i, 1)],
   params |-> [i \in DOMAIN Cases(r) |->
                 IF Cases(r)[i].splits # <<>> THEN SplitVariable(sc + SplitsBefore(r, i))
                 ELSE CasePath(r, m, i)]]

GenerateMatchesConfig(r, m, sc, ctx) ==
  LET cases == Cases(r)
      made(acc, i) ==
        LET ret == ctx.ret + Len(acc.returns)
            one == GenerateLocation(CasePath(r, m, i), cases[i].action, ctx, ret)
        IN Join(acc,
                IF cases[i].splits # <<>>
                  THEN GenerateSplits(cases[i].splits, sc + Len(acc.splitClients), ctx, ret)
                  ELSE [NoRouting EXCEPT !.locations = <<one.location>>, !.returns = one.returns])
  IN FoldLeft(made,
              [NoRouting EXCEPT !.maps = Append(ConditionMaps(r, m), MainMap(r, m, sc)),
                                !.redirects = <<[path |-> r.path, to |-> <<"matches", m>>]>>],
              [i \in DOMAIN cases |-> i])

GenerateRouting(r, m, sc, ctx) ==
  LET one == GenerateLocation(r.path, r.action, ctx, ctx.ret)
  IN IF r.matches # <<>> THEN GenerateMatchesConfig(r, m, sc, ctx)
     ELSE IF r.splits # <<>> THEN GenerateDefaultSplitsConfig(r, sc, ctx)
     ELSE [NoRouting EXCEPT !.locations = <<one.location>>, !.returns = one.returns]

-----------------------------------------------------------------------------
(* The steps *)

At(step) == [at |-> step, i |-> 0, j |-> 0]

\* The subroute after the given one: of its VirtualServerRoute or of a later one.
NextSubroute(i, j) ==
  LET later == {k \in DOMAIN vsrs : k > i /\ vsrs[k].subroutes # <<>>}
  IN IF i > 0 /\ j < Len(vsrs[i].subroutes) THEN [at |-> "subroute", i |-> i, j |-> j + 1]
     ELSE IF later # {} THEN [at |-> "subroute", i |-> Min(later), j |-> 1]
     ELSE At("done")

NextRoute(i) ==
  IF i < Len(vs.routes) THEN [at |-> "route", i |-> i + 1, j |-> 0] ELSE NextSubroute(0, 0)

EmptyEx == [secretRefs |-> {}, apRefs |-> {}, policies |-> {}, endpoints |-> <<>>, external |-> {}]

EmptyCfg ==
  [routing |-> NoRouting, errorPages |-> <<>>, zones |-> <<>>, matches |-> 0,
   inherited |-> <<>>, upstreams |-> <<>>, healthChecks |-> {}, plus |-> <<>>,
   ssl |-> Nil, server |-> [applied |-> <<>>, error |-> FALSE, oidc |-> FALSE], oidcKey |-> Nil]

Init ==
  /\ vs \in Inputs
  /\ vsrs = <<>>
  /\ ex = EmptyEx
  /\ cfg = EmptyCfg
  /\ pc = At("validate")

Reject ==
  /\ pc.at = "validate"
  /\ ~ValidateVirtualServer(vs, IsPlus)
  /\ pc' = At("rejected")
  /\ UNCHANGED <<vs, vsrs, ex, cfg>>

Accept ==
  /\ pc.at = "validate"
  /\ ValidateVirtualServer(vs, IsPlus)
  /\ vsrs' = BuildVirtualServerRoutes(vs)
  /\ pc' = At("ex")
  /\ UNCHANGED <<vs, ex, cfg>>

CreateEx ==
  /\ pc.at = "ex"
  /\ ex' = CreateVirtualServerEx(vs, vsrs)
  /\ pc' = At("server")
  /\ UNCHANGED <<vs, vsrs, cfg>>

\* removeDuplicateLimitReqZones: a policy that is used twice has one zone.
AddZones(zones, applied) ==
  FoldLeft(LAMBDA zs, key : IF \E i \in DOMAIN zs : zs[i] = key THEN zs ELSE Append(zs, key),
           zones, OfKind(applied, "rateLimit"))

\* What addPoliciesCfgToLocation copies; OIDC of the server holds for its routes.
PoliciesCfg(generated) ==
  [applied |-> generated.applied, error |-> generated.error,
   oidc |-> HasKind(generated.applied, "oidc") \/ cfg.server.oidc]

\* The worker goes on, unless it looked into a reference that is not there.
Proceed(policies, new, next) ==
  /\ cfg' = IF policies.panic THEN cfg ELSE new
  /\ pc' = IF policies.panic THEN At("panicked") ELSE next
  /\ UNCHANGED <<vs, vsrs, ex>>

\* The part of GenerateVirtualServerConfig before the routes.
GenerateServer ==
  LET policies == GeneratePolicies(ResolveAll(vs.policies, vs.namespace), "spec",
                                   SSLConfig(vs) # Nil, Nil)
      owned == OwnedUpstreams(vs, vsrs)
  IN /\ pc.at = "server"
     /\ Proceed(policies,
                [cfg EXCEPT
                   !.ssl = SSLConfig(vs), !.server = PoliciesCfg(policies),
                   !.oidcKey = policies.oidcKey, !.zones = AddZones(<<>>, policies.applied),
                   !.upstreams = [i \in DOMAIN owned |-> GenerateUpstream(owned[i])],
                   !.healthChecks = GenerateHealthChecks(owned),
                   !.plus = IF IsPlus THEN CreateUpstreamsForPlus(owned) ELSE <<>>],
                NextRoute(0))

\* A route with its policies, its error pages and their index.
GenerateFrom(r, of, namer, keys, context, pages, index, next) ==
  LET policies == GeneratePolicies(keys, context, cfg.ssl # Nil, cfg.oidcKey)
      ctx == RouteContext(of, namer, pages, index, Len(cfg.routing.returns), PoliciesCfg(policies))
  IN Proceed(policies,
             [cfg EXCEPT
                !.errorPages = @ \o GenerateErrorPageLocations(Len(@), r.errorPages),
                !.routing = Join(@, GenerateRouting(r, cfg.matches, Len(@.splitClients), ctx)),
                !.matches = IF r.matches # <<>> THEN @ + 1 ELSE @,
                !.oidcKey = policies.oidcKey,
                !.zones = AddZones(@, policies.applied)],
             next)

GenerateRoute ==
  LET r == vs.routes[pc.i]
  IN /\ pc.at = "route"
     /\ ~IsVsr(r)
     /\ GenerateFrom(r, <<"route", pc.i>>, <<"vs">>, ResolveAll(r.policies, vs.namespace),
                     "route", r.errorPages, Len(cfg.errorPages), NextRoute(pc.i))

NothingInherited == [pages |-> <<>>, index |-> 0, policies |-> <<>>]

\* What a VirtualServerRoute inherits from the route that refers to it.  No error
\* pages means a nil slice; an explicit empty list is not among the inputs.
Inherited(name) ==
  IF name \in DOMAIN cfg.inherited THEN cfg.inherited[name] ELSE NothingInherited

\* A route that refers to a VirtualServerRoute leaves its error pages and its
\* policies for the subroutes that have none.
DeferRoute ==
  LET r == vs.routes[pc.i]
      name == Resolve(r.route, vs.namespace)
      old == Inherited(name)
      new == [pages |-> IF r.errorPages # <<>> THEN r.errorPages ELSE old.pages,
              index |-> IF r.errorPages # <<>> THEN Len(cfg.errorPages) ELSE old.index,
              policies |-> IF r.policies # <<>> THEN r.policies ELSE old.policies]
  IN /\ pc.at = "route"
     /\ IsVsr(r)
     /\ cfg' = [cfg EXCEPT
          !.errorPages = @ \o GenerateErrorPageLocations(Len(@), r.errorPages),
          !.inherited = [n \in DOMAIN @ \cup {name} |-> IF n = name THEN new ELSE @[n]]]
     /\ pc' = NextRoute(pc.i)
     /\ UNCHANGED <<vs, vsrs, ex>>

\* Mutant: the policies a subroute inherits are looked up in its own namespace.
SubroutePoliciesInOwnNamespace(r, vsr) ==
  ResolveAll(IF r.policies # <<>> THEN r.policies ELSE Inherited(vsr.name).policies, vsr.namespace)

\* The policies of a subroute, or else of the route that refers to it, with the
\* namespace of the VirtualServer.
SubroutePolicies(r, vsr) ==
  IF r.policies # <<>> THEN ResolveAll(r.policies, vsr.namespace)
  ELSE ResolveAll(Inherited(vsr.name).policies, vs.namespace)

GenerateSubroute ==
  LET vsr == vsrs[pc.i]
      r == vsr.subroutes[pc.j]
      inherits == r.errorPages = <<>> /\ Inherited(vsr.name).pages # <<>>
  IN /\ pc.at = "subroute"
     /\ GenerateFrom(r, <<"subroute", pc.i, pc.j>>, vsr.name, SubroutePolicies(r, vsr),
                     IF r.policies # <<>> THEN "subroute" ELSE "route",
                     IF inherits THEN Inherited(vsr.name).pages ELSE r.errorPages,
                     IF inherits THEN Inherited(vsr.name).index ELSE Len(cfg.errorPages),
                     NextSubroute(pc.i, pc.j))

Finished == pc.at \in {"rejected", "done", "panicked"} /\ UNCHANGED vars

Next ==
  \/ Reject \/ Accept \/ CreateEx \/ GenerateServer
  \/ GenerateRoute \/ DeferRoute \/ GenerateSubroute
  \/ Finished

Spec == Init /\ [][Next]_vars

-----------------------------------------------------------------------------
(* What the resources declare *)

\* Two resources claim one path, or two routes refer to one VirtualServerRoute.
\* Nothing rejects that: NGINX refuses the first, and a VirtualServerRoute that
\* fits one of its two routes inherits from the other one too.
Ambiguous ==
  LET own == SelectSeq(vs.routes, LAMBDA r : ~IsVsr(r))
      refs == References(vs)
  IN \/ ~Distinct(Paths(own) \o FlattenSeq([i \in DOMAIN vsrs |-> Paths(vsrs[i].subroutes)]))
     \/ ~Distinct([i \in DOMAIN refs |-> Resolve(refs[i].route, vs.namespace)])

\* Two upstreams of one service share an entry of the Endpoints map although one
\* of them asks for the cluster IP.
MixesClusterIP ==
  \E a, b \in ToSet(OwnedUpstreams(vs, vsrs)) :
    /\ <<a.namespace, a.upstream.service>> = <<b.namespace, b.upstream.service>>
    /\ a.upstream.useClusterIP # b.upstream.useClusterIP

ReferringRoute(name) ==
  CHOOSE r \in ToSet(References(vs)) : Resolve(r.route, vs.namespace) = name

\* The routes that are served: where each comes from, its namer, and the error
\* pages and the policies that hold for it.
Served ==
  {[of |-> <<"route", i>>, route |-> vs.routes[i], namer |-> <<"vs">>,
    pages |-> vs.routes[i].errorPages, keys |-> ResolveAll(vs.routes[i].policies, vs.namespace)] :
      i \in {i \in DOMAIN vs.routes : ~IsVsr(vs.routes[i])}}
  \cup UNION {
    LET vsr == vsrs[i]
        from == ReferringRoute(vsr.name)
    IN {LET r == vsr.subroutes[j] IN
        [of |-> <<"subroute", i, j>>, route |-> r, namer |-> vsr.name,
         pages |-> IF r.errorPages # <<>> THEN r.errorPages ELSE from.errorPages,
         keys |-> IF r.policies # <<>> THEN ResolveAll(r.policies, vsr.namespace)
                  ELSE ResolveAll(from.policies, vs.namespace)] : j \in DOMAIN vsr.subroutes}
    : i \in DOMAIN vsrs}

\* What a client of an action gets: the upstream, and the answers instead of errors.
Declared(action, s) ==
  LET c == Clause(action)
  IN IF c.kind \in {"redirect", "return"} THEN [pass |-> Nil, answers |-> <<c.to>>]
     ELSE [pass |-> <<s.namer, c.to>>,
           answers |-> [i \in DOMAIN s.pages |->
                          IF s.pages[i].redirect # Nil THEN s.pages[i].redirect
                          ELSE s.pages[i].return]]

\* The first match all of whose conditions hold, else the target of the route.
DeclaredCase(r, true) ==
  LET holds(i) == \A j \in DOMAIN r.matches[i].conditions :
                    LET c == r.matches[i].conditions[j] IN (c.source \in true) # c.negative
      matching == {i \in DOMAIN r.matches : holds(i)}
  IN Cases(r)[IF matching = {} THEN Len(Cases(r)) ELSE Min(matching)]

-----------------------------------------------------------------------------
(* What NGINX does with the configuration *)

NamedLocations == cfg.errorPages \o cfg.routing.returns

Answer(page) ==
  IF \E n \in ToSet(NamedLocations) : n.name = page
    THEN (CHOOSE n \in ToSet(NamedLocations) : n.name = page).body
    ELSE page

LeadsTo(path, declared) ==
  \E l \in ToSet(cfg.routing.locations) :
    /\ l.path = path
    /\ declared = [pass |-> l.pass, answers |-> [i \in DOMAIN l.pages |-> Answer(l.pages[i])]]
    /\ l.pass # Nil => \E u \in ToSet(cfg.upstreams) : u.name = l.pass

CaseLeadsTo(to, case, s) ==
  IF case.splits = <<>> THEN LeadsTo(to, Declared(case.action, s))
  ELSE \E c \in ToSet(cfg.routing.splitClients) :
         /\ c.variable = to
         /\ Len(c.to) = Len(case.splits)
         /\ \A i \in DOMAIN c.to : LeadsTo(c.to[i], Declared(case.splits[i].action, s))

\* The value of the variable of a condition map, following the chain of maps.
Value(variable, true) ==
  LET maps == cfg.routing.maps
      value[v \in {maps[i].variable : i \in DOMAIN maps} \cup {<<"0">>, <<"1">>}] ==
        IF v \in {<<"0">>, <<"1">>} THEN v
        ELSE LET m == maps[CHOOSE i \in DOMAIN maps : maps[i].variable = v]
             IN value[IF m.source \in true THEN m.params.value ELSE m.params.default]
  IN value[variable]

\* The main map: parameter i asks for i - 1 zeros and a one, the last is the default.
Selected(main, true) ==
  LET ones == {i \in DOMAIN main.source : Value(main.source[i], true) = <<"1">>}
  IN main.params[IF ones = {} THEN Len(main.params) ELSE Min(ones)]

Sources(r) ==
  UNION {{r.matches[i].conditions[j].source : j \in DOMAIN r.matches[i].conditions} :
           i \in DOMAIN r.matches}

RouteLeads(s) ==
  LET r == s.route
  IN IF r.matches = <<>> /\ r.splits = <<>> THEN LeadsTo(r.path, Declared(r.action, s))
     ELSE \E d \in ToSet(cfg.routing.redirects) :
            /\ d.path = r.path
            /\ IF r.matches = <<>> THEN CaseLeadsTo(d.to, Cases(r)[1], s)
               ELSE \E k \in DOMAIN cfg.routing.maps :
                      /\ cfg.routing.maps[k].variable = d.to
                      /\ \A true \in SUBSET Sources(r) :
                           CaseLeadsTo(Selected(cfg.routing.maps[k], true),
                                       DeclaredCase(r, true), s)

NoNameTwice ==
  LET r == cfg.routing
  IN /\ Distinct([i \in DOMAIN r.locations |-> r.locations[i].path]
                 \o [i \in DOMAIN r.redirects |-> r.redirects[i].path])
     /\ Distinct([i \in DOMAIN r.maps |-> r.maps[i].variable]
                 \o [i \in DOMAIN r.splitClients |-> r.splitClients[i].variable])
     /\ Distinct([i \in DOMAIN NamedLocations |-> NamedLocations[i].name])
     /\ Distinct([i \in DOMAIN cfg.upstreams |-> cfg.upstreams[i].name])

\* The addresses that an upstream asks for: the cluster IP of its service, those of
\* its pods which the subselector selects, or all of them, or else the external
\* name, which takes NGINX Plus and a resolver.
Addresses(o) ==
  LET asked == {s \in DOMAIN Services : s = <<o.namespace, o.upstream.service>>}
      canResolve == IsPlus /\ IsResolverConfigured
  IN UNION {CASE o.upstream.useClusterIP -> {Services[s].clusterIP}
              [] ~o.upstream.useClusterIP /\ o.upstream.subselector -> Services[s].selected
              [] OTHER -> {a \in Services[s].pods \cup Services[s].externalName :
                             a \in Services[s].externalName => canResolve} : s \in asked}

\* The servers of an upstream are the addresses it asks for, or in NGINX the one
\* that answers 502 if there are none, and the API of NGINX Plus is told the same
\* ones that the file has.
ServersAsDeclared ==
  /\ \A o \in ToSet(OwnedUpstreams(vs, vsrs)) :
       \E u \in ToSet(cfg.upstreams) :
         /\ u.name = o.name
         /\ u.servers = IF Addresses(o) = {} /\ ~IsPlus THEN Server502 ELSE Addresses(o)
  /\ \A t \in ToSet(cfg.plus) :
       \E u \in ToSet(cfg.upstreams) : u.name = t.name /\ u.servers = t.servers
  /\ cfg.healthChecks \subseteq {u.name : u \in ToSet(cfg.upstreams)}

-----------------------------------------------------------------------------
(* Properties *)

\* The configuration generated for resources that the validator accepts routes
\* every request as the resources declare: following redirects, maps and split
\* clients as NGINX does from the path of a route, for any truth of the
\* conditions, leads to a location for the declared action of the declared
\* match and split, with the upstream and the error pages of its own resource;
\* no location, variable, upstream or named location has two definitions; and
\* every upstream has the servers it asks for.  The exceptions are the conflicts
\* that no validation catches, Ambiguous and MixesClusterIP
\* (GenerateVirtualServerConfig, generateSplits, generateMatchesConfig,
\* generateErrorPageLocations, validateRoute).
RoutesAsDeclared ==
  pc.at = "done" /\ ~Ambiguous =>
    /\ NoNameTwice
    /\ \A s \in Served : RouteLeads(s)
    /\ ~MixesClusterIP => ServersAsDeclared

\* All that a policy refers to can be used.
Sound(key) ==
  LET p == Policies[key]
  IN /\ \A i \in DOMAIN SecretsOfPolicy(p) :
          Usable(SecretsOfPolicy(p)[i].key, SecretsOfPolicy(p)[i].type)
     /\ ToSet(p.ap) \subseteq ApNames

FirstOfKind(keys, i) ==
  \A j \in 1..(i - 1) :
    keys[j] \in DOMAIN Policies => Policies[keys[j]].kind # Policies[keys[i]].kind

CanEnforce(keys, i, context) ==
  /\ keys[i] \in DOMAIN Policies
  /\ Policies[keys[i]].kind = "ingressMTLS" => context = "spec" /\ vs.tls # Nil
  /\ FirstOfKind(keys, i) =>
       Sound(keys[i]) /\ (Policies[keys[i]].kind = "oidc" => cfg.oidcKey = keys[i])

\* A context answers 500 exactly if one of its policies cannot be enforced, and
\* otherwise enforces them all, of most kinds the first.
Guarded(p, keys, context) ==
  IF \E i \in DOMAIN keys : ~CanEnforce(keys, i, context) THEN p.error
  ELSE /\ ~p.error
       /\ ToSet(p.applied) = {keys[i] : i \in {i \in DOMAIN keys :
                                Policies[keys[i]].kind \in Repeatable \/ FirstOfKind(keys, i)}}

\* A policy that is missing, invalid, in the wrong place or refers to a secret or
\* App Protect resource that cannot be used closes its server or route with a
\* 500, and in every other case all the policies of a route are enforced at each
\* of its locations: its own, or those of the route that refers to its
\* VirtualServerRoute, and OIDC of the server; a rate limit has one zone
\* (generatePolicies, addPoliciesCfgToLocation).
PoliciesEnforced ==
  pc.at = "done" /\ ~Ambiguous =>
    /\ Guarded(cfg.server, ResolveAll(vs.policies, vs.namespace), "spec")
    /\ \A l \in ToSet(cfg.routing.locations) :
         LET s == CHOOSE s \in Served : s.of = l.of
         IN /\ Guarded(l.policies, s.keys, "route")
            /\ cfg.server.oidc \/ HasKind(l.policies.applied, "oidc") => l.policies.oidc
            /\ ToSet(OfKind(l.policies.applied, "rateLimit")) \subseteq ToSet(cfg.zones)
    /\ Distinct(cfg.zones)

\* generatePolicies looks into the reference of each secret that a policy names
\* without asking whether there is one: createVirtualServerEx, which stops
\* collecting at the first error, has collected every one that is looked into.
NoNilSecretRef == pc.at # "panicked"
=============================================================================
