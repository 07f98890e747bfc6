----------------------------- MODULE Dependents -----------------------------
(***************************************************************************)
(* How the configuration follows the objects it depends on.  The config of *)
(* an Ingress, a VirtualServer or a TransportServer is generated from      *)
(* Secrets, Policies, App Protect resources, Services, Endpoints and the   *)
(* ConfigMap; when one of them changes, the controller finds the resources *)
(* that refer to it (reference_checkers.go), builds their extended         *)
(* resources (controller.go), and has the Configurator write their files   *)
(* and reload NGINX or, for endpoints on NGINX Plus, call its API          *)
(* (configurator.go, nginx/manager.go).  SPIFFE rotation (spiffe.go) and   *)
(* leader election (leader.go) run in goroutines of their own.             *)
(*                                                                         *)
(* Which resources are valid and hold their hosts is Configuration's       *)
(* subject: here every resource is, and its routes and minions are parts   *)
(* of it.  What a config file says is Ex: what it was generated from.      *)
(***************************************************************************)
EXTENDS AppProtect, SecretStore, ExternalStatus, WorkQueue

CONSTANTS
  Worlds,       \* name |-> a cluster to start from, and how users may edit it
  MaxFailures   \* bounds the reloads and API calls that go wrong

VARIABLES
  world,                   \* the name of this behaviour's world; it never changes
  cluster, lister, events, \* objects in the API server and in the listers
  queue, current, job,     \* the worker, the task it syncs, what is left of it
  configured,              \* the resources of the Configuration
  store, su,               \* the secret store and the status updater
  cfgParams,               \* the ConfigMap the Configurator generates from
  disk, svid,              \* config files, App Protect files; the SPIFFE files
  running, loading,        \* what NGINX has loaded, and has still to load
  reload, failures,        \* how the last reload ended
  rotating,                \* what the SPIFFE goroutine does next
  leader,                  \* leader election
  reported, seen,          \* Ingress |-> addresses, in the API server, the lister
  told, skipped            \* history: those reported last; they did not get there

cnf == <<store, su, cfgParams, configured>>
nginx == <<disk, running, loading, reload, failures>>
spiffe == <<svid, rotating>>
statuses == <<reported, seen, told, skipped>>
election == <<leader, statuses>>
worker == <<queue, current, job>>
allVars == <<apVars, world, cluster, lister, events, worker, cnf, nginx, spiffe, election>>

-----------------------------------------------------------------------------
(* Objects.  A world is a record: the initial objects and the orders in    *)
(* which the informers queue them, the objects that an edit may put, the   *)
(* keys that it may remove, the bound on edits, rotations and changes of   *)
(* the leader, and the command line.                                       *)

World == Worlds[world]

ResourceKinds == {"Ingress", "VirtualServer", "TransportServer"}

Key(o) == <<o.kind, o.name>>
At(set, key) == {o \in set : Key(o) = key}
OfKind(set, kind) == {o \in set : o.kind = kind}
Keys == {Key(o) : o \in World.objects \cup World.variants}

Names == {o.name : o \in OfKind(UNION {Worlds[w].objects \cup Worlds[w].variants : w \in DOMAIN Worlds}, "Secret")}

\* Two secrets whose namespaces and names join to the same file name would
\* overwrite each other; nothing in the code keeps them apart.
ASSUME NoFileNameCollision ==
  \A k, j \in Names : FileName(k) = FileName(j) => k = j

\* "A secret cannot change its type" (createSecretHandlers).
ASSUME TypesAreFixed ==
  \A w \in DOMAIN Worlds : \A s, t \in OfKind(Worlds[w].objects \cup Worlds[w].variants, "Secret") :
    s.name = t.name => s.type = t.type

\* The bounds, what the informers queue at the start (a key for each object), and
\* the App Protect objects.
ASSUME DependentsAssumption ==
  /\ MaxFailures \in Nat
  /\ \A w \in DOMAIN Worlds :
       LET objects == Worlds[w].objects \cup Worlds[w].variants
       IN /\ Worlds[w].events \in Nat
          /\ \A o, p \in Worlds[w].objects : Key(o) = Key(p) => o = p
          /\ \A order \in Worlds[w].orders :
               /\ order \in Seq({Key(o) : o \in objects})
               /\ Range(order) = {Key(o) : o \in Worlds[w].objects}
               /\ \A i, j \in DOMAIN order : order[i] = order[j] => i = j
          /\ OfKind(objects, "APPolicy") \subseteq APPolicies
          /\ OfKind(objects, "APLogConf") \subseteq APLogConfs
          /\ OfKind(objects, "APUserSig") \subseteq APUserSigs

\* What a secret is made of; minions, routes and TransportServers have no TLS.
ASSUME ReferencesAssumption ==
  \A w \in DOMAIN Worlds : \A o \in Worlds[w].objects \cup Worlds[w].variants :
    /\ o.kind = "Secret" =>
         o = [kind |-> o.kind, name |-> o.name, type |-> o.type, wellFormed |-> o.wellFormed, rev |-> o.rev]
    /\ o.kind \in ResourceKinds =>
         \A p \in {o} \cup o.parts : p.tls # {} => p.role \in {"Ingress", "Master", "VirtualServer"}

\* The controller watches one ConfigMap and one IngressLink, and no IngressLink
\* together with an external service (main).  An Ingress that was deleted is not
\* created again: a deletion and a creation that an informer joins into one
\* update are the subject of Controller.
ASSUME StatusSources ==
  \A w \in DOMAIN Worlds :
    LET objects == Worlds[w].objects \cup Worlds[w].variants
    IN /\ \A o, p \in objects : o.kind = p.kind /\ o.kind \in {"ConfigMap", "IngressLink"} => o.name = p.name
       /\ \A o, p \in objects : o.kind = "IngressLink" /\ p.kind = "Service" => p.name # Worlds[w].external
       /\ \A o \in Worlds[w].variants : o.kind = "Ingress" => Key(o) \notin Worlds[w].removable

\* Services have Endpoints as long as they exist, if they ever have any: users do
\* not remove them.  Minions and VirtualServerRoutes are parts of resources and no
\* resources themselves; an upstream that uses the cluster IP names a service.
ASSUME ServicesAssumption ==
  \A w \in DOMAIN Worlds :
    LET objects == Worlds[w].objects \cup Worlds[w].variants
    IN /\ Worlds[w].removable \subseteq {Key(o) : o \in objects}
       /\ \A o \in objects :
            /\ o.kind = "Endpoints" =>
                 Key(o) \notin Worlds[w].removable /\ \E e \in Worlds[w].objects : Key(e) = Key(o)
            /\ o.kind \in ResourceKinds =>
                 /\ o.role \in {"Ingress", "Master", "VirtualServer", "TransportServer"}
                 /\ \A p \in {o} \cup o.parts : p.clusterIP \subseteq p.services

Job(plan) == [built |-> FALSE, exes |-> <<>>, plan |-> plan]
IdleJob == Job(<<>>)
NoParams == [kind |-> "ConfigMap", name |-> "defaults", address |-> NoAddress, broken |-> FALSE]

-----------------------------------------------------------------------------
(* References.  A resource is a part of itself; the minions of a master    *)
(* and the VirtualServerRoutes of a VirtualServer are its other parts.     *)

Parts(r) == {r} \cup r.parts

IngressRoles == {"Ingress", "Master", "Minion"}
PolicyRoles == {"VirtualServer", "VirtualServerRoute"}

\* The reference checkers.  The secrets of policies are looked for elsewhere.
RefersToSecret(p, name) ==
  \/ p.role \in {"Ingress", "Master", "VirtualServer"} /\ name \in p.tls
  \/ World.plus /\ p.role \in IngressRoles /\ name \in p.jwt

\* The endpoints of an upstream that uses the cluster IP do not matter.
RefersToService(p, kind, name) ==
  name \in IF kind = "Endpoints" THEN p.services \ p.clusterIP ELSE p.services

RefersToPolicy(p, name) == p.role \in PolicyRoles /\ name \in p.policies

\* Only Ingresses have the annotations of App Protect, and minions must not.
RefersToAppProtect(p, key) == p.role \in {"Ingress", "Master"} /\ key \in p.ap

\* FindResourcesForService, ...Endpoints, ...Secret, ...Policy and
\* ...AppProtect*Annotation choose the checker.
RefersTo(p, key) ==
  CASE key[1] = "Secret" -> RefersToSecret(p, key[2])
    [] key[1] = "Policy" -> RefersToPolicy(p, key[2])
    [] key[1] \in {"APPolicy", "APLogConf"} -> RefersToAppProtect(p, key)
    [] key[1] \in {"Service", "Endpoints"} -> RefersToService(p, key[1], key[2])

\* Mutant: the minions and the routes are not looked at.
FindWholeResources(key) == {r \in configured : RefersTo(r, key)}

\* findResourcesForResourceReference
FindResources(key) == {r \in configured : \E p \in Parts(r) : RefersTo(p, key)}

\* getAllPolicies: the policies in the lister that are valid.
AllPolicies(objects) == {p \in OfKind(objects, "Policy") : p.valid}

\* findPoliciesForSecret, getWAFPoliciesForAppProtectPolicy and ...LogConf.
PoliciesFor(key) ==
  {p \in AllPolicies(lister) :
     IF key[1] = "Secret" THEN key[2] \in {u[1] : u \in p.secrets} ELSE key \in p.ap}

\* The resources that depend on a secret or on an App Protect resource.
FindDependents(key) ==
  FindResources(key) \cup
    UNION {FindResources(Key(p)) : p \in PoliciesFor(key)}

-----------------------------------------------------------------------------
(* Extended resources.  A view is what the listers, the secret store, the  *)
(* App Protect configuration and the Configurator hold.                    *)

ControllerView ==
  [secrets |-> {store.refs[k].secret : k \in {j \in DOMAIN store.refs : ValidateSecret(store.refs[j].secret)}},
   policies |-> AllPolicies(lister),
   ap |-> Objects1(policies, ValidKeys(policies)) \cup Objects1(logConfs, ValidKeys(logConfs)),
   services |-> OfKind(lister, "Service"),
   endpoints |-> OfKind(lister, "Endpoints"),
   params |-> cfgParams]

\* getPolicies: the policies of a resource that exist and are valid.
PoliciesOf(r, view) ==
  {p \in view.policies :
     \E q \in Parts(r) : q.role \in PolicyRoles /\ p.name \in q.policies}

\* The secrets that a config file names, with the type it needs: those of TLS
\* (createIngressEx, createVirtualServerEx) and those of policies (add*SecretRefs).
SecretsOf(r, view) ==
  (UNION {p.tls \X {"tls"} : p \in Parts(r)})
    \cup UNION {p.secrets : p \in PoliciesOf(r, view)}

\* The JWT keys of Ingresses: their file is named even when it is missing.
JWTKeys(r) == UNION {p.jwt : p \in {q \in Parts(r) : World.plus /\ q.role \in IngressRoles}}

\* The App Protect annotations (getAppProtect*) and WAF policies (addWAFPolicyRefs).
AppProtectOf(r, view) ==
  (UNION {p.ap : p \in {q \in Parts(r) : q.role \in {"Ingress", "Master"}}})
    \cup UNION {p.ap : p \in PoliciesOf(r, view)}

\* getEndpointsForIngressBackend and getEndpointsForUpstream, getServiceForUpstream.
EndpointsOf(r, view) ==
  LET pods == UNION {p.services \ p.clusterIP : p \in Parts(r)}
      cluster_ips == UNION {p.clusterIP : p \in Parts(r)}
      served(names) == {s \in view.services : s.name \in names}
  IN (UNION {{[name |-> s.name, ports |-> s.ports, addrs |-> e.addrs] :
                e \in {f \in view.endpoints : f.name = s.name}} : s \in served(pods)})
       \cup {[name |-> s.name, ports |-> s.ports, addrs |-> "clusterIP"] : s \in served(cluster_ips)}

\* What a config file says of a secret: its path, or for OIDC the secret itself.
Mention(s) == IF HasFile(s) THEN [s EXCEPT !.rev = "in its file"] ELSE s

\* createIngressEx, createMergeableIngresses, createVirtualServerEx and
\* createTransportServerEx; a TransportServer depends on no ConfigMap parameter.
Ex(r, view) ==
  [obj |-> r,
   policies |-> PoliciesOf(r, view),
   secrets |-> {Mention(s) : s \in {t \in view.secrets : <<t.name, t.type>> \in SecretsOf(r, view)}},
   ap |-> {Key(o) : o \in {a \in view.ap : Key(a) \in AppProtectOf(r, view)}},
   endpoints |-> EndpointsOf(r, view),
   params |-> IF r.kind = "TransportServer" THEN NoParams ELSE view.params]

\* GetSecret for each secret, then the Path of the JWT keys.
FetchSecrets(st, res, view) ==
  LET names == UNION {{u[1] : u \in SecretsOf(r, view)} \cup JWTKeys(r) : r \in res}
  IN SetPaths(GetSecrets(st, names), UNION {JWTKeys(r) : r \in res})

-----------------------------------------------------------------------------
(* Bounds.  The first event meets an idle controller that has started, and *)
(* reloads fail after it; the events that follow come at any time.         *)

MayHappen == events < World.events /\ (events = 0 => queue.items = <<>> /\ current = {})
MayFail == failures < MaxFailures /\ events > 0

-----------------------------------------------------------------------------
(* NGINX *)

\* A file that a config file names is missing: the reload fails.
Dangling(d, files) ==
  \E k \in DOMAIN d.conf :
    \/ \E s \in d.conf[k].secrets : HasFile(s) /\ FileName(s.name) \notin DOMAIN files
    \/ \E a \in d.conf[k].ap : a \notin DOMAIN d.ap

\* LocalManager.Reload.  NGINX may fail to reload, or load the configuration only
\* after verifyClient.WaitForCorrectVersion has given up.
Reload(d, files, sv) ==
  LET next == [disk |-> d, files |-> files, svid |-> sv]
  IN \/ /\ ~Dangling(d, files)
        /\ running' = next /\ loading' = {} /\ reload' = "ok"
        /\ UNCHANGED failures
     \/ /\ Dangling(d, files) \/ MayFail
        /\ failures' = IF Dangling(d, files) THEN failures ELSE failures + 1
        /\ reload' = "failed"
        /\ loading' \in IF Dangling(d, files) THEN {loading} ELSE {{}, {next}}
        /\ UNCHANGED running

\* The late reload.
Load ==
  /\ \E next \in loading :
       /\ running' = next
       /\ reload' = IF next.disk = disk THEN "ok" ELSE reload
  /\ loading' = {}
  /\ UNCHANGED <<apVars, world, cluster, lister, events, worker, cnf, disk, failures, spiffe, election>>

-----------------------------------------------------------------------------
(* Sync functions.  What is left of one is a plan: the calls of the        *)
(* Configurator and of the status updater that it has still to make.       *)

Step(op, res, arg) == [op |-> op, res |-> res, arg |-> arg]
Rewrite(res) == IF res = {} THEN <<>> ELSE <<Step("write", res, {})>>

Ingresses(res) == OfKind(res, "Ingress")

\* Mutant: the secrets of policies are forgotten.
SyncSecretIgnoresPolicies(key) ==
  LET stored == At(lister, key)
      special == {s \in stored : s.name = World.special /\ s.type = "tls" /\ ValidateSecret(s)}
  IN /\ store' = IF stored = {} THEN DeleteSecret(store, key[2])
                 ELSE AddOrUpdateSecret(store, CHOOSE s \in stored : TRUE)
     /\ job' = Job((IF special = {} THEN <<>> ELSE <<Step("special", {}, special)>>)
                           \o Rewrite(FindResources(key)))
     /\ UNCHANGED <<apVars, su, cfgParams, configured>>

\* syncSecret, handleSpecialSecretUpdate, handleSecretUpdate and
\* handleRegularSecretDeletion: a special secret is retained when it is deleted.
SyncSecret(key) ==
  LET stored == At(lister, key)
      special == {s \in stored : s.name = World.special /\ s.type = "tls" /\ ValidateSecret(s)}
  IN /\ store' = IF stored = {} THEN DeleteSecret(store, key[2])
                 ELSE AddOrUpdateSecret(store, CHOOSE s \in stored : TRUE)
     /\ job' = Job((IF special = {} THEN <<>> ELSE <<Step("special", {}, special)>>)
                           \o Rewrite(FindDependents(key)))
     /\ UNCHANGED <<apVars, su, cfgParams, configured>>

\* syncPolicy: only VirtualServers have policies.
SyncPolicy(key) ==
  /\ job' = Job(Rewrite(FindResources(key)))
  /\ UNCHANGED <<apVars, cnf>>

\* processAppProtectChanges: NGINX is reloaded even when nothing refers to the
\* resource; its file is removed when something does.
AppProtectPlan(change) ==
  IF change.op = "none" THEN <<>>
  ELSE LET key == <<change.kind, change.name>>
           res == FindDependents(key)
       IN <<Step("write", res, IF change.op = "Delete" /\ res # {} THEN {key} ELSE {})>>

SyncAppProtectPolicy(key) ==
  /\ IF At(lister, key) = {} THEN DeletePolicy(key[2])
     ELSE AddOrUpdatePolicy(CHOOSE o \in At(lister, key) : TRUE)
  /\ job' = Job(AppProtectPlan(apChange'))
  /\ UNCHANGED cnf

SyncAppProtectLogConf(key) ==
  /\ IF At(lister, key) = {} THEN DeleteLogConf(key[2])
     ELSE AddOrUpdateLogConf(CHOOSE o \in At(lister, key) : TRUE)
  /\ job' = Job(AppProtectPlan(apChange'))
  /\ UNCHANGED cnf

\* processAppProtectUserSigChange.  The policies that fell out of force keep
\* their files: RefreshAppProtectUserSigs is given their keys where
\* DeleteAppProtectResourceFile takes file names.
UserSigPlan(change) ==
  LET changed == change.PolicyAddsOrUpdates \cup change.PolicyDeletions
      res == UNION {FindDependents(<<"APPolicy", n>>) : n \in changed}
  IN <<Step("refresh", res, change.UserSigs)>>

SyncAppProtectUserSig(key) ==
  /\ IF At(lister, key) = {} THEN DeleteUserSig(key[2])
     ELSE AddOrUpdateUserSig(CHOOSE o \in At(lister, key) : TRUE)
  /\ job' = Job(UserSigPlan(apChange'))
  /\ UNCHANGED cnf

\* syncConfigMap and UpdateConfig: the parameters are taken over before the
\* templates are parsed, and a ConfigMap that is gone leaves the status alone.
SyncConfigMap(key) ==
  LET params == IF At(lister, key) = {} THEN NoParams ELSE CHOOSE o \in At(lister, key) : TRUE
      all == {r \in configured : r.kind # "TransportServer"}
  IN /\ cfgParams' = params
     /\ su' = IF At(lister, key) = {} THEN su ELSE SaveStatusFromExternalStatus(su, params.address)
     /\ job' = Job(<<Step(IF params.broken THEN "report" ELSE "config", all, {})>>)
     /\ UNCHANGED <<apVars, store, configured>>

\* syncService: first the status of all resources when the service is the
\* external one, then the resources that refer to it.
SyncService(key) ==
  LET external == key[2] = World.external
      addresses == UNION {{s.addresses} : s \in At(lister, key)}
  IN /\ su' = IF ~external THEN su
              ELSE SaveStatusFromExternalService(su, IF addresses = {} THEN <<>> ELSE CHOOSE a \in addresses : TRUE)
     /\ job' = Job((IF external THEN <<Step("report", Ingresses(configured), {})>> ELSE <<>>)
                           \o Rewrite(FindResources(key)))
     /\ UNCHANGED <<apVars, store, cfgParams, configured>>

\* syncIngressLink: an empty address counts as none.
SyncIngressLink(key) ==
  LET ips == {o.ip : o \in At(lister, key)} \ {NoAddress}
  IN /\ su' = IF ips = {} THEN ClearStatusFromIngressLink(su)
              ELSE SaveStatusFromIngressLink(su, CHOOSE ip \in ips : TRUE)
     /\ job' = Job(<<Step("report", Ingresses(configured), {})>>)
     /\ UNCHANGED <<apVars, store, cfgParams, configured>>

\* syncEndpoints: one call of the Configurator for each kind of resource.
SyncEndpoints(key) ==
  LET res == IF At(lister, key) = {} THEN {} ELSE FindResources(key)
      group(role) == LET g == {r \in res : r.role = role}
                     IN IF g = {} THEN <<>> ELSE <<Step("endpoints", g, {})>>
  IN /\ job' = Job(group("Ingress") \o group("Master") \o group("VirtualServer")
                           \o group("TransportServer"))
     /\ UNCHANGED <<apVars, cnf>>

\* syncIngress, syncVirtualServer and syncTransportServer of a valid resource.
SyncResource(key) ==
  LET old == At(configured, key)
      new == At(lister, key)
  IN /\ configured' = (configured \ old) \cup new
     /\ job' = Job(IF new = old THEN <<>>
                         ELSE IF new = {} THEN <<Step("delete", {}, {key})>>
                         ELSE Rewrite(new))
     /\ UNCHANGED <<apVars, store, su, cfgParams>>

\* sync takes syncLock, which keeps SPIFFE rotation out until it returns.
StartSync ==
  LET key == Head(queue.items)
  IN /\ current = {} /\ CanGet(queue) /\ rotating = "no"
     /\ queue' = Get(queue)
     /\ current' = {key}
     /\ \/ key[1] = "Secret" /\ SyncSecret(key)
        \/ key[1] = "Policy" /\ SyncPolicy(key)
        \/ key[1] = "APPolicy" /\ SyncAppProtectPolicy(key)
        \/ key[1] = "APLogConf" /\ SyncAppProtectLogConf(key)
        \/ key[1] = "APUserSig" /\ SyncAppProtectUserSig(key)
        \/ key[1] = "ConfigMap" /\ SyncConfigMap(key)
        \/ key[1] = "Service" /\ SyncService(key)
        \/ key[1] = "IngressLink" /\ SyncIngressLink(key)
        \/ key[1] = "Endpoints" /\ SyncEndpoints(key)
        \/ key[1] \in ResourceKinds /\ SyncResource(key)
     /\ UNCHANGED <<world, cluster, lister, events, nginx, spiffe, election>>

-----------------------------------------------------------------------------
(* The rest of a sync function *)

Doing(ops) == job.plan # <<>> /\ Head(job.plan).op \in ops
This == Head(job.plan)
Generating == {"write", "refresh", "config", "endpoints"}

\* createExtendedResources, once for all calls that the plan has left.
Build ==
  /\ Doing(Generating) /\ ~job.built
  /\ LET res == UNION {job.plan[i].res : i \in DOMAIN job.plan}
     IN /\ store' = FetchSecrets(store, res, ControllerView)
        /\ job' = [job EXCEPT !.built = TRUE,
                              !.exes = [k \in {Key(r) : r \in res} |->
                                          Ex(CHOOSE r \in At(res, k) : TRUE, ControllerView)]]
  /\ UNCHANGED <<apVars, world, cluster, lister, events, queue, current, su, cfgParams,
                 configured, nginx, spiffe, election>>

Override(map, new) ==
  [k \in DOMAIN map \cup DOMAIN new |-> IF k \in DOMAIN new THEN new[k] ELSE map[k]]

\* The App Protect files of the resources (updateApResources, updateApResourcesForVs).
ApFiles(exes) ==
  LET keys == UNION {exes[k].ap : k \in DOMAIN exes}
      objs == {o \in ControllerView.ap : Key(o) \in keys}
  IN [k \in keys |-> CHOOSE o \in objs : Key(o) = k]

\* addOrUpdateIngress, addOrUpdateMergeableIngress, addOrUpdateVirtualServer and
\* addOrUpdateTransportServer.
WriteConfigs(d, exes) ==
  [d EXCEPT !.conf = Override(@, exes), !.ap = Override(@, ApFiles(exes))]

\* DeleteAppProtectPolicy and DeleteAppProtectLogConf remove the file first.
RemoveApFiles(d, keys) == [d EXCEPT !.ap = [k \in DOMAIN @ \ keys |-> @[k]]]

\* RefreshAppProtectUserSigs clears the folder and writes all valid signatures.
WriteUserSigs(d, sigs) == [d EXCEPT !.sigs = sigs]

\* UpdateConfig writes the main config file.
WriteMainConfig(d) == [d EXCEPT !.params = cfgParams]

\* The files after a call of the Configurator.
Written(step) ==
  LET exes == [k \in {Key(r) : r \in step.res} |-> job.exes[k]]
  IN CASE step.op = "write" -> WriteConfigs(RemoveApFiles(disk, step.arg), exes)
       [] step.op = "refresh" -> WriteUserSigs(WriteConfigs(disk, exes), step.arg)
       [] step.op = "config" -> WriteConfigs(WriteMainConfig(disk), exes)
       [] step.op = "endpoints" -> WriteConfigs(disk, exes)

\* updateIngressWithStatus does not write what the copy in the lister has already,
\* though the copy may be older than what the API server has.  No addresses are
\* always written, for an empty slice is not equal to none.
Shown(k) == seen[k] = su.status /\ su.status # <<>>

\* The addresses are reported of some Ingresses, and written for some of those.
Tell(addresses, keys, written) ==
  /\ reported' = [k \in DOMAIN reported |-> IF k \in written THEN addresses ELSE reported[k]]
  /\ told' = [k \in DOMAIN told |-> IF k \in keys THEN addresses ELSE told[k]]
  /\ skipped' = (skipped \ keys) \cup {k \in keys \ written : reported[k] # addresses}
  /\ UNCHANGED seen

Exists(k) == At(cluster, k) # {}

\* updateResourcesStatusAndEvents and UpdateExternalEndpointsForResources, for
\* Ingresses: the leader reports their status.
ReportStatus(res) ==
  LET keys == {Key(r) : r \in {i \in Ingresses(res) : At(lister, Key(i)) # {}}}
  IN IF leader.is
       THEN /\ Tell(su.status, keys, {k \in keys : Exists(k) /\ ~Shown(k)})
            /\ leader' = [leader EXCEPT !.stale = @ \ keys]
       ELSE UNCHANGED election

\* AddOrUpdateResources, AddOrUpdateVirtualServers, AddOrUpdateAppProtectResource,
\* DeleteAppProtectPolicy, DeleteAppProtectLogConf, RefreshAppProtectUserSigs and
\* UpdateConfig: write the files, reload, report.
Write ==
  /\ Doing(Generating \ {"endpoints"}) /\ job.built
  /\ disk' = Written(This)
  /\ Reload(disk', store.files, svid)
  /\ ReportStatus(This.res)
  /\ job' = [job EXCEPT !.plan = Tail(@)]
  /\ UNCHANGED <<apVars, world, cluster, lister, events, queue, current, cnf, spiffe>>

\* verifyConfigVersion: NGINX runs the configuration that was written last.
VersionVerified == reload = "ok"

\* updatePlusEndpoints, updatePlusEndpointsForVirtualServer and
\* updatePlusEndpointsForTransportServer, through UpdateServersInPlus.
UpdatePlusEndpoints(keys) ==
  running' = [running EXCEPT !.disk.conf =
                [k \in DOMAIN @ |->
                   IF k \in keys
                     THEN [@[k] EXCEPT !.endpoints = job.exes[k].endpoints] ELSE @[k]]]

\* UpdateEndpoints, ...MergeableIngress, ...ForVirtualServers, ...ForTransportServers:
\* on NGINX Plus the endpoints alone are updated through the API; if that fails,
\* and without NGINX Plus, NGINX is reloaded.
UpdateEndpoints ==
  /\ Doing({"endpoints"}) /\ job.built
  /\ disk' = Written(This)
  /\ \/ /\ World.plus /\ VersionVerified
        /\ UpdatePlusEndpoints({Key(r) : r \in This.res})
        /\ UNCHANGED <<loading, reload, failures>>
     \/ Reload(disk', store.files, svid)
  /\ job' = [job EXCEPT !.plan = Tail(@)]
  /\ UNCHANGED <<apVars, world, cluster, lister, events, queue, current, cnf, spiffe, election>>

\* AddOrUpdateSpecialTLSSecrets
UpdateSpecialSecret ==
  /\ Doing({"special"})
  /\ disk' = [disk EXCEPT !.special = This.arg]
  /\ Reload(disk', store.files, svid)
  /\ job' = [job EXCEPT !.plan = Tail(@)]
  /\ UNCHANGED <<apVars, world, cluster, lister, events, queue, current, cnf, spiffe, election>>

\* DeleteIngress, DeleteVirtualServer and DeleteTransportServer.
DeleteConfig ==
  /\ Doing({"delete"})
  /\ disk' = [disk EXCEPT !.conf = [k \in DOMAIN @ \ This.arg |-> @[k]]]
  /\ Reload(disk', store.files, svid)
  /\ job' = [job EXCEPT !.plan = Tail(@)]
  /\ UNCHANGED <<apVars, world, cluster, lister, events, queue, current, cnf, spiffe, election>>

Report ==
  /\ Doing({"report"})
  /\ ReportStatus(This.res)
  /\ job' = [job EXCEPT !.plan = Tail(@)]
  /\ UNCHANGED <<apVars, world, cluster, lister, events, queue, current, cnf, nginx, spiffe>>

FinishSync ==
  /\ current # {} /\ job.plan = <<>>
  /\ queue' = Done(queue, CHOOSE k \in current : TRUE)
  /\ current' = {}
  /\ job' = IdleJob
  /\ UNCHANGED <<apVars, world, cluster, lister, events, cnf, nginx, spiffe, election>>

-----------------------------------------------------------------------------
(* The SPIFFE goroutine.  syncSVIDRotation waits for syncLock, which the    *)
(* worker holds while it syncs; AddOrUpdateSpiffeCerts writes the key, the *)
(* certificate and the bundle one after the other, and reloads NGINX.      *)

\* Mutant: the rotation does not take syncLock.
RotateUnlocked ==
  /\ World.spiffe /\ MayHappen /\ rotating = "no"
  /\ events' = events + 1
  /\ svid' = [svid EXCEPT !.key = @ + 1]
  /\ rotating' = "key written"
  /\ UNCHANGED <<apVars, world, cluster, lister, worker, cnf, nginx, election>>

RotateKey ==
  /\ World.spiffe /\ MayHappen /\ rotating = "no"
  /\ current = {}
  /\ events' = events + 1
  /\ svid' = [svid EXCEPT !.key = @ + 1]
  /\ rotating' = "key written"
  /\ UNCHANGED <<apVars, world, cluster, lister, worker, cnf, nginx, election>>

RotateCert ==
  /\ rotating = "key written"
  /\ svid' = [svid EXCEPT !.cert = svid.key]
  /\ rotating' = "cert written"
  /\ UNCHANGED <<apVars, world, cluster, lister, events, worker, cnf, nginx, election>>

RotateReload ==
  /\ rotating = "cert written"
  /\ Reload(disk, store.files, svid)
  /\ rotating' = "no"
  /\ UNCHANGED <<apVars, world, cluster, lister, events, worker, cnf, disk, svid, election>>

-----------------------------------------------------------------------------
(* The leader elector.  OnStartedLeading runs in a goroutine of its own: it *)
(* takes the Ingresses of the Configuration, and for each of them reads    *)
(* the status to report and writes it to the API server.                   *)

BecomeLeader ==
  /\ World.election /\ MayHappen
  /\ ~leader.is /\ leader.todo = {} /\ leader.held = {}
  /\ events' = events + 1
  /\ leader' = [leader EXCEPT !.is = TRUE, !.todo = {Key(r) : r \in Ingresses(configured)}]
  /\ UNCHANGED <<apVars, world, cluster, lister, worker, cnf, nginx, spiffe, statuses>>

\* The Ingress is in the lister, which shows the status already or does not.
LeaderReads(k) ==
  /\ At(lister, k) # {}
  /\ \/ /\ Shown(k)
        /\ leader' = [leader EXCEPT !.todo = @ \ {k}, !.stale = @ \ {k}]
        /\ Tell(su.status, {k}, {})
     \/ /\ ~Shown(k)
        /\ leader' = [leader EXCEPT !.todo = @ \ {k}, !.held = {[key |-> k, status |-> su.status]}]
        /\ UNCHANGED statuses

\* Mutant: an Ingress that is gone is tried again.
LeaderReadsForever ==
  /\ leader.held = {}
  /\ \E k \in leader.todo : LeaderReads(k)
  /\ UNCHANGED <<apVars, world, cluster, lister, events, worker, cnf, nginx, spiffe>>

LeaderReadsStatus ==
  /\ leader.held = {}
  /\ \E k \in leader.todo :
       \/ LeaderReads(k)
       \/ /\ At(lister, k) = {}
          /\ leader' = [leader EXCEPT !.todo = @ \ {k}]
          /\ UNCHANGED statuses
  /\ UNCHANGED <<apVars, world, cluster, lister, events, worker, cnf, nginx, spiffe>>

\* A conflict is retried with a fresh copy of the Ingress, and the same status.
LeaderWritesStatus ==
  /\ \E h \in leader.held :
       /\ Tell(h.status, {h.key}, {k \in {h.key} : Exists(k)})
       /\ leader' = [leader EXCEPT !.held = {},
                                   !.stale = IF h.status = su.status THEN @ \ {h.key} ELSE @ \cup {h.key}]
  /\ UNCHANGED <<apVars, world, cluster, lister, events, worker, cnf, nginx, spiffe>>

\* OnStoppedLeading changes nothing.
LoseLeadership ==
  /\ leader.is /\ World.election /\ MayHappen
  /\ events' = events + 1
  /\ leader' = [leader EXCEPT !.is = FALSE]
  /\ UNCHANGED <<apVars, world, cluster, lister, worker, cnf, nginx, spiffe, statuses>>

-----------------------------------------------------------------------------
(* Users and the informers *)

Edit(new) ==
  /\ MayHappen
  /\ cluster' = new /\ cluster' # cluster
  /\ events' = events + 1
  /\ reported' = [k \in DOMAIN reported |-> IF At(new, k) = {} THEN <<>> ELSE reported[k]]
  /\ told' = [k \in DOMAIN told |-> IF At(new, k) = {} THEN <<>> ELSE told[k]]
  /\ skipped' = {k \in skipped : At(new, k) # {}}
  /\ UNCHANGED <<apVars, world, lister, worker, cnf, nginx, spiffe, leader, seen>>

\* The endpoints controller of the cluster keeps Endpoints for every Service, and
\* removes them with it.
EndpointsKey(key) == IF key[1] = "Service" THEN <<"Endpoints", key[2]>> ELSE key

EditPut ==
  \E o \in World.variants :
    LET missing == IF At(cluster, EndpointsKey(Key(o))) = {}
                     THEN At(World.objects, EndpointsKey(Key(o))) \ At(World.objects, Key(o)) ELSE {}
    IN Edit((cluster \ At(cluster, Key(o))) \cup {o} \cup missing)

EditRemove ==
  \E key \in World.removable : Edit({o \in cluster : Key(o) \notin {key, EndpointsKey(key)}})

\* createServiceHandlers: an update counts when the ports change or when the
\* service is the external one.  The handlers of other kinds look at the spec or
\* the data, which is all that is modelled of an object.
Enqueued(key) ==
  \/ key[1] # "Service"
  \/ key[2] = World.external
  \/ {o.ports : o \in At(cluster, key)} # {o.ports : o \in At(lister, key)}

\* An informer brings its store up to date and calls the handlers.
Observe ==
  \E key \in Keys :
    /\ At(cluster, key) # At(lister, key)
    /\ lister' = (lister \ At(lister, key)) \cup At(cluster, key)
    /\ seen' = [k \in DOMAIN seen |-> IF k = key THEN reported[k] ELSE seen[k]]
    /\ queue' = IF Enqueued(key) THEN Add(queue, key) ELSE queue
    /\ UNCHANGED <<apVars, world, cluster, events, current, job, cnf, nginx, spiffe, leader,
                   reported, told, skipped>>

\* The update handler of Ingresses queues nothing when only the status changed.
ObserveStatus ==
  /\ \E key \in DOMAIN seen :
       /\ At(cluster, key) = At(lister, key) /\ seen[key] # reported[key]
       /\ seen' = [seen EXCEPT ![key] = reported[key]]
  /\ UNCHANGED <<apVars, world, cluster, lister, events, worker, cnf, nginx, spiffe, leader,
                 reported, told, skipped>>

-----------------------------------------------------------------------------
(* Specification *)

\* The caches are synced and their objects queued when the worker starts;
\* main has loaded the ConfigMap, the special secret and the first SVID.
Init ==
  /\ APInit
  /\ world \in DOMAIN Worlds
  /\ cluster = World.objects /\ lister = cluster /\ events = 0
  /\ \E order \in World.orders :
       queue = [NewQueue EXCEPT !.items = order, !.dirty = Range(order)]
  /\ current = {} /\ job = IdleJob
  /\ configured = {} /\ store = EmptyStore /\ su = NewUpdater
  /\ cfgParams = IF OfKind(cluster, "ConfigMap") = {} THEN NoParams
                 ELSE CHOOSE o \in OfKind(cluster, "ConfigMap") : TRUE
  /\ disk = [conf |-> <<>>, ap |-> <<>>, sigs |-> {}, params |-> cfgParams,
             special |-> {s \in cluster : s.kind = "Secret" /\ s.name = World.special}]
  /\ svid = [key |-> 0, cert |-> 0]
  /\ running = [disk |-> disk, files |-> <<>>, svid |-> svid] /\ loading = {}
  /\ reload = "ok" /\ failures = 0
  /\ rotating = "no"
  /\ leader = [is |-> ~World.election, todo |-> {}, held |-> {}, stale |-> {}]
  /\ reported = [k \in {j \in Keys : j[1] = "Ingress"} |-> <<>>]
  /\ seen = reported /\ told = reported /\ skipped = {}

Quiescent ==
  /\ lister = cluster /\ queue.items = <<>> /\ current = {} /\ rotating = "no"
  /\ loading = {} /\ leader.todo = {} /\ leader.held = {} /\ seen = reported

\* Edits are bounded, and the controller then has nothing left to do.
AllDone == Quiescent /\ UNCHANGED allVars

Work == StartSync \/ Build \/ Write \/ UpdateEndpoints \/ UpdateSpecialSecret
          \/ DeleteConfig \/ Report \/ FinishSync
Rotate == RotateCert \/ RotateReload
Lead == LeaderReadsStatus \/ LeaderWritesStatus

Next == \/ Work \/ Load \/ RotateKey \/ Rotate
        \/ BecomeLeader \/ Lead \/ LoseLeadership
        \/ EditPut \/ EditRemove \/ Observe \/ ObserveStatus \/ AllDone

\* The worker, the informers and the goroutines are scheduled, and a late reload
\* completes; nobody has to edit, rotate or elect.
Fairness ==
  /\ WF_allVars(Work) /\ WF_allVars(Load) /\ WF_allVars(Rotate) /\ WF_allVars(Lead)
  /\ WF_allVars(Observe \/ ObserveStatus)

Spec == Init /\ [][Next]_allVars /\ Fairness

-----------------------------------------------------------------------------
(* Properties *)

ByName(objects) ==
  [n \in {o.name : o \in objects} |-> CHOOSE o \in objects : o.name = n]

SigsInForce(objects) ==
  LET sigs == ByName(OfKind(objects, "APUserSig"))
  IN {sigs[n] : n \in Abs!Active(sigs)}

\* What the config should be generated from, given the objects in the API server.
IdealView ==
  LET pols == ByName(OfKind(cluster, "APPolicy"))
      sigs == ByName(OfKind(cluster, "APUserSig"))
      maps == OfKind(cluster, "ConfigMap")
  IN [secrets |-> {s \in OfKind(cluster, "Secret") : ValidateSecret(s)},
      policies |-> AllPolicies(cluster),
      ap |-> {pols[n] : n \in Abs!InForce(pols, sigs)}
               \cup {l \in OfKind(cluster, "APLogConf") : l.form = "ok"},
      services |-> OfKind(cluster, "Service"),
      endpoints |-> OfKind(cluster, "Endpoints"),
      params |-> IF maps = {} THEN NoParams ELSE CHOOSE o \in maps : TRUE]

Resources == {o \in cluster : o.kind \in ResourceKinds}

DependentsTypeOK ==
  /\ world \in DOMAIN Worlds
  /\ cluster \subseteq World.objects \cup World.variants
  /\ lister \subseteq World.objects \cup World.variants
  /\ \A k \in Keys : Cardinality(At(cluster, k)) <= 1 /\ Cardinality(At(lister, k)) <= 1
  /\ events \in 0 .. World.events /\ failures \in 0 .. MaxFailures
  /\ WellFormed(queue) /\ queue.processing = current /\ queue.dirty \subseteq Keys
  /\ Cardinality(current) <= 1 /\ (current = {} => job = IdleJob)
  /\ configured \subseteq World.objects \cup World.variants
  /\ DOMAIN disk.conf \subseteq Keys
  /\ reload \in {"ok", "failed"}
  /\ rotating \in {"no", "key written", "cert written"}
  /\ leader.is \in BOOLEAN /\ Cardinality(leader.held) <= 1

\* When every change has been worked off and the last reload succeeded, NGINX runs
\* with the config files, secret files, App Protect files and signatures that the
\* objects in the cluster call for: no sync function overlooked a dependent
\* resource, and no API call stood in for a reload that was needed.
\*   - A special secret that is gone or invalid is retained.
\*   - While the ConfigMap has a broken template, its parameters are half applied.
\*   - The deletion of a signature that was never stored clears all signatures.
ConfigReflectsDependents ==
  Quiescent /\ reload = "ok" /\ ~IdealView.params.broken =>
    /\ DOMAIN running.disk.conf = {Key(r) : r \in Resources}
    /\ running.disk.params = IdealView.params
    /\ running.disk.sigs \in {SigsInForce(cluster), {}}
    /\ \A s \in IdealView.secrets :
         s.name = World.special /\ s.type = "tls" => running.disk.special = {s}
    /\ \A r \in Resources :
         LET ex == Ex(r, IdealView)
         IN /\ running.disk.conf[Key(r)] = ex
            /\ \A a \in IdealView.ap : Key(a) \in ex.ap => running.disk.ap[Key(a)] = a
            /\ \A s \in IdealView.secrets :
                 HasFile(s) /\ (Mention(s) \in ex.secrets \/ s.name \in JWTKeys(r)) =>
                   running.files[FileName(s.name)] = s

\* Between two tasks, a config file names a file that does not exist only when a
\* policy of its resource has changed and is still to be synced: otherwise any
\* reload would fail, whatever it is for.
NoDanglingReference ==
  current = {} =>
    \A k \in DOMAIN disk.conf :
      Dangling([disk EXCEPT !.conf = [j \in {k} |-> disk.conf[j]]], store.files) =>
        \E p \in Parts(disk.conf[k].obj) : \E n \in p.policies :
          <<"Policy", n>> \in queue.dirty

\* The files of the secrets are those that the store says it has written.
SecretFilesCurrent == Current(store)

\* NGINX never runs with the key of one SVID and the certificate of another.
SVIDNotTorn ==
  /\ running.svid.key = running.svid.cert
  /\ \A next \in loading : next.svid.key = next.svid.cert

\* The addresses to report: what the sources in the cluster say.  The address of
\* a ConfigMap that was deleted stays in force.
ExpectedAddresses ==
  LET maps == OfKind(cluster, "ConfigMap")
      svcs == {s \in OfKind(cluster, "Service") : s.name = World.external}
      links == OfKind(cluster, "IngressLink")
  IN Reportable(IF maps = {} THEN su.externalStatusAddress ELSE (CHOOSE o \in maps : TRUE).address,
                IF svcs = {} THEN <<>> ELSE (CHOOSE s \in svcs : TRUE).addresses,
                IF links = {} THEN NoAddress ELSE (CHOOSE o \in links : TRUE).ip)

\* When every change has been worked off, the addresses that the leader reported
\* last for an Ingress are the current ones, unless OnStartedLeading reported
\* last, with addresses that it had read before they changed.  The API server has
\* them, unless the write was skipped: the copy in the lister had these addresses
\* when they were reported, and was older than what the API server had.
AddressesReported ==
  Quiescent /\ leader.is =>
    \A r \in Ingresses(Resources) :
      /\ \/ told[Key(r)] = ExpectedAddresses
         \/ ExpectedAddresses = <<>> /\ told[Key(r)] = <<NoAddress>>
         \/ Key(r) \in leader.stale
      /\ reported[Key(r)] = told[Key(r)] \/ Key(r) \in skipped

\* Once users stop editing, the controller comes to rest.
Settles == <>[]Quiescent
=============================================================================
