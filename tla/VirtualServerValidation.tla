---------------------- MODULE VirtualServerValidation ----------------------
(***************************************************************************)
(* What the VirtualServer validator accepts                                *)
(* (pkg/apis/configuration/validation/virtualserver.go), as far as the     *)
(* structure of the resources goes: how upstreams, policies, paths, routes *)
(* and actions refer to each other and how many of each there may be.  The *)
(* checks of a single string or number (a time, a size, a header name) are *)
(* left out, so every input here passes them.                              *)
(*                                                                         *)
(* A name in a reference has a namespace or "", which means the namespace  *)
(* of its owner.  A path is a pair, its type and its text, a sequence.      *)
(***************************************************************************)
EXTENDS Integers, FiniteSets, SequencesExt, FiniteSetsExt

CONSTANT Nil   \* what is not given

\* A reference without a namespace is to an object in the namespace of its owner.
Resolve(ref, namespace) == IF ref[1] = "" THEN <<namespace, ref[2]>> ELSE ref
ResolveAll(refs, namespace) == [i \in DOMAIN refs |-> Resolve(refs[i], namespace)]

Distinct(seq) == \A i, j \in DOMAIN seq : seq[i] = seq[j] => i = j

ValidatePolicies(refs, namespace) == Distinct(ResolveAll(refs, namespace))

\* rejectPlusResourcesInOSS and the combinations that validateUpstreams forbids.
ValidateUpstreams(upstreams, isPlus) ==
  /\ Distinct([i \in DOMAIN upstreams |-> upstreams[i].name])
  /\ \A i \in DOMAIN upstreams :
       /\ ~(upstreams[i].useClusterIP /\ upstreams[i].subselector)
       /\ upstreams[i].healthCheck => isPlus

Names(upstreams) == {upstreams[i].name : i \in DOMAIN upstreams}

\* An action is a set of clauses; exactly one of them may be given.
ValidateAction(action, names) ==
  /\ Cardinality(action) = 1
  /\ \A c \in action : c.kind \in {"pass", "proxy"} => c.to \in names

ValidateSplits(splits, names) ==
  /\ Len(splits) >= 2
  /\ \A i \in DOMAIN splits :
       splits[i].weight \in 1..99 /\ ValidateAction(splits[i].action, names)
  /\ FoldLeft(LAMBDA sum, s : sum + s.weight, 0, splits) = 100

\* Exactly one of an action and splits.
ValidateTarget(action, splits, names) ==
  \/ splits = <<>> /\ action # Nil /\ ValidateAction(action, names)
  \/ splits # <<>> /\ action = Nil /\ ValidateSplits(splits, names)

ValidateMatch(match, names) ==
  match.conditions # <<>> /\ ValidateTarget(match.action, match.splits, names)

ValidateErrorPage(page) == (page.return = Nil) # (page.redirect = Nil)

\* A route has exactly one of an action, splits and, in a VirtualServer, a
\* reference to a VirtualServerRoute; matches and error pages are optional.
ValidateRoute(r, names, isRouteFieldForbidden, namespace) ==
  /\ ValidatePolicies(r.policies, namespace)
  /\ \A i \in DOMAIN r.matches : ValidateMatch(r.matches[i], names)
  /\ \A i \in DOMAIN r.errorPages : ValidateErrorPage(r.errorPages[i])
  /\ \/ r.route = Nil /\ ValidateTarget(r.action, r.splits, names)
     \/ /\ r.route # Nil
        /\ ~isRouteFieldForbidden
        /\ r.action = Nil /\ r.splits = <<>>

Paths(routes) == [i \in DOMAIN routes |-> routes[i].path]

ValidateVirtualServer(vs, isPlus) ==
  /\ ValidatePolicies(vs.policies, vs.namespace)
  /\ ValidateUpstreams(vs.upstreams, isPlus)
  /\ \A i \in DOMAIN vs.routes :
       ValidateRoute(vs.routes[i], Names(vs.upstreams), FALSE, vs.namespace)
  /\ Distinct(Paths(vs.routes))

IsRegexOrExactMatch(path) == path[1] \in {"regex", "exact"}

\* validateVirtualServerRouteSubroutes, against the path of the route of the
\* VirtualServer that refers to the VirtualServerRoute.
ValidateSubroutes(vsr, vsPath) ==
  /\ \A i \in DOMAIN vsr.subroutes :
       ValidateRoute(vsr.subroutes[i], Names(vsr.upstreams), TRUE, vsr.namespace)
  /\ IF IsRegexOrExactMatch(vsPath)
       THEN Len(vsr.subroutes) = 1 /\ vsr.subroutes[1].path = vsPath
       ELSE /\ Distinct(Paths(vsr.subroutes))
            /\ \A i \in DOMAIN vsr.subroutes :
                 \/ IsRegexOrExactMatch(vsr.subroutes[i].path)
                 \/ IsPrefix(vsPath[2], vsr.subroutes[i].path[2])

\* ValidateVirtualServerRouteForVirtualServer
ValidateVirtualServerRoute(vsr, host, vsPath, isPlus) ==
  /\ vsr.host = host
  /\ ValidateUpstreams(vsr.upstreams, isPlus)
  /\ ValidateSubroutes(vsr, vsPath)
=============================================================================
