# A TLA+ verification of the NGINX Ingress Controller (kic-1.11.1)

The repository installs an Aspen Mesh service mesh on k3s clusters. Most of it
is installation: shell scripts, Helm charts, Ansible roles, manifests and
third-party code. The one program it carries as source, and builds, is the
NGINX Ingress Controller under `nginx/kic-1.11.1/`. This project is about that
program. Paths below are relative to `nginx/kic-1.11.1/` unless they start with
`docs` of the repository itself.

The controller watches Kubernetes objects (Ingresses, VirtualServers,
VirtualServerRoutes, TransportServers, a GlobalConfiguration, Services, Secrets
and more), decides which of them owns each host and each listener, writes one
NGINX config file for each owner, reloads NGINX and reports a status back.

## 1. Inventory

| Part | State | Operations | Interacts with |
|---|---|---|---|
| Configuration (`internal/k8s/configuration.go`) | stores of accepted objects; `hosts`, `listeners` with their owners; `hostProblems`, `listenerProblems` | AddOrUpdate/Delete for five kinds; each rebuilds ownership and returns changes and new problems | called by the sync loop under its lock |
| Collision resolution (`buildHostsAndResources`, `buildListenersAndTSConfigurations`, `buildMinionConfigs`) | holders found so far, `ValidHosts`/`ValidPaths` marks, warnings | take, displace, lose | part of every rebuild |
| Event handlers (`internal/k8s/handlers.go`) | none | on add, update, delete: enqueue or not | informers call them; they call `taskQueue.Enqueue` |
| Task queue (`internal/k8s/task_queue.go`, client-go `workqueue`) | `items`, `dirty`, `processing`, `shuttingDown`, `workerDone` | Enqueue, Requeue, worker, Shutdown | handlers, worker, termination |
| Sync loop (`internal/k8s/controller.go`) | `isNginxReady`, `ctx`; otherwise that of its parts | Run, Stop, sync and one sync for each kind, processChanges, processProblems | everything |
| Configurator (`internal/configs/configurator.go`) | config files, `ingresses`, `virtualServers`, `minions`, `tlsPassthroughPairs` | AddOrUpdate/Delete for each kind, UpdateConfig, UpdateTransportServers | sync loop, NGINX manager |
| NGINX manager (`internal/nginx/`) | config version | Start, Reload with verification, Quit | Configurator, termination |
| Status updater (`internal/k8s/status.go`) | status in the API server, copies in the listers | update the status of each kind | sync loop, leader election; its writes come back as events |
| Process (`cmd/nginx-ingress/main.go`) | signal and NGINX-exit channels | start, `handleTermination` | Run, Stop, NGINX manager |
| Secret store (`internal/k8s/secrets/store.go`) | references by key, each with a `Path` or not; secret files | AddOrUpdateSecret, DeleteSecret, GetSecret (writes the file) | syncs of Secrets; every extended resource that is built |
| App Protect configuration (`internal/k8s/appprotect/`) | policies, log configurations, signatures, each with its validity | AddOrUpdate/Delete for three kinds, with reconciliation | syncs of App Protect resources; annotations and WAF policies |
| Reference checkers (`internal/k8s/reference_checkers.go`) | none | which resource refers to a Secret, Service, Policy, App Protect resource | `Configuration.FindResourcesFor...` |
| Config generation (`internal/configs/virtualserver.go` and others) | none; the indexes of one generation | resources to NGINX configuration | Configurator |
| SPIFFE controller (`internal/k8s/spiffe.go`) | SVID files | rotation, in a goroutine of its own | `syncLock`, NGINX manager |
| Leader election (`internal/k8s/leader.go`) | who leads | `OnStartedLeading`, in a goroutine of its own | status updater |

Hard behaviours. Any number of objects of three kinds contend for one host, in
any order of arrival, while they change, become invalid, change class and
vanish; a rebuild must give the same result whatever the order, and the
*difference* between two rebuilds is all that reaches the file system. Updates
arrive while a sync runs; several coalesce into one task; deletions arrive as
tombstones; syncs fail and are retried; a reload fails after the files were
written, or takes effect after the controller gave up; the controller's own
status writes wake it up; a Secret, a Policy or an App Protect resource that many
configs depend on changes, becomes invalid or goes while they are being synced;
an SVID is rotated and a leader elected concurrently; a SIGTERM or the death
of NGINX meets the process at any of these points. `PROJECT.json` lists each of
these hazards at its line.

What makes each part correct:

- *Configuration*: the senior claimant owns a host or listener; nobody is
  dropped silently; the returned changes turn the old files into the new ones
  without a collision in between; a loser hears of it from the operation that
  demoted it.
- *Collision loop*: its result does not depend on the order of visits.
- *Queue and sync loop*: no update is lost; the config converges; the queue
  stays consistent with the worker.
- *Termination*: the worker closes its channel once; NGINX quits after the last
  sync; shutdown ends.
- *Secret store*: the files are those of the valid secrets that were asked for,
  with their current data.
- *App Protect configuration*: what is in force is a function of the stored
  objects, not of the history of the calls.
- *Dependents*: when all has been worked off, NGINX runs with what the objects
  in the cluster call for; no file names a file that is gone; a rotation never
  tears an SVID; the addresses that were reported last are the current ones.
- *Config generation*: requests are routed as the resources declare, and a
  policy is enforced or closes its route.
- *End to end*: NGINX serves the senior claimant of each host and listener that
  is in the API server, and the states that were reported last are true.

## 2. Plan

Done, in this order: `Seniority`, `Sorting`, `Configuration`, `Arbitration` (ownership);
`WorkQueue`, `Lifecycle` (process); `Controller` (ownership end to end, with the
TLS passthrough map); `SecretStore`, `AppProtect` with `AppProtectAbstract`,
`ExternalStatus`; `Dependents`, which composes these three with the work queue,
NGINX, SPIFFE rotation and leader election; `VirtualServerValidation` and
`VirtualServerConfig` (generation). The proofs are in section 6.

Left, in this order:

1. An abstract specification "each host and listener is served by its senior
   claimant" over the API server objects and the running config only, and
   `Controller` shown to implement it.
2. Generation for mergeable Ingresses (`internal/configs/ingress.go`): locations
   and upstreams of minions in the server of their master.
3. The statuses of Policies, and those that `OnStartedLeading` restores for
   custom resources from events.

## 3. Modules and how they correspond to the code

**Seniority** is `chooseObjectMetaWinner`. `Holder(S)` is the claimant that wins
against all others in `S`; `Senior` is the order the properties are stated with.

**Sorting** is the sorting of keys that makes what the controller does
independent of the order of Go maps (`Sorted`), and filtering (`Subsequence`). Both are
defined without recursion, so that they can be reasoned about.

**Arbitration** is the claim loop itself, one claim at a time: `Begin` is an
iteration of the outer loop, `Claim` one of the inner loop with the three
outcomes of the code (`Take`, `Displace`, `Lose`). Claimants come in any order,
because `buildListenersAndTSConfigurations` ranges over a Go map. The other two
loops visit sorted keys, which is one of these orders. `granted` and `warned`
are the `ValidHosts`/`ValidPaths` marks and the warnings.

**Configuration** has one action for each of the exported operations. An object
carries the verdicts of its class check and of its validator, so an update with
a rejected version is an ordinary update. What the validators guarantee for an
accepted object (one host for a VirtualServer or a mergeable Ingress, a host
exactly for TLS passthrough) is `ValidationAssumption`. `RebuildHosts` and
`RebuildListeners` compute the new ownership with `Holder` instead of the loop:
`OrderIndependent` in `Arbitration` is the justification. `HostChanges`
and `ListenerChanges` follow the code: detect removed, updated and added hosts by
comparing metadata (`IsEqual`), list the changes in sorted order, squash them,
refresh the resources of host changes. A config file is `Content(r)`: the specs
behind the resource and what they were granted, neither metadata nor warnings.
`Apply` is what the Configurator does with a change, `Applied` what is left after a
sequence of them: for each resource its last change counts.

**WorkQueue** is the client-go queue as operators on a record.

**Lifecycle** interleaves the goroutines of the process: informers (`List`,
`Observe`), handlers (`Handle`), `Run` (`RunStarts`, `CachesSynced`,
`RunReturns`), the worker under `wait.Until` (`Until`, `GetTask`, `Sync`,
`SyncError`, `FinishSync`, `Quit`) and `handleTermination` (`Terminate`,
`Cancel`, `ShutdownQueue`, `WorkerAcks`, `Exit`). An object is a version number
and a sync loads the version the lister has at that time. The store of an
informer is updated before its handlers are told, which is what makes
`HasSynced` true too early for `isNginxReady`. Panics (closing a closed channel,
calling a nil `lbc.cancel`) are states.

**Controller** extends `Configuration` with everything around it: users edit the
API server, `Observe` updates a lister and runs the handler of the kind with its
own idea of a relevant difference, the worker syncs, `ProcessChange` applies one
change, reloads and writes statuses, `UpdateTransportServers`
and `ReloadTransportServers` are the GlobalConfiguration variant (one file after the
other, updates first, and a single reload after the last),
`FinishSync` reports problems and calls Done. `WriteStatus` compares with the
lister's copy (`seen`) as `status.go` does: it skips a write that the copy makes look
redundant, however old the copy is, and nothing waits for it to catch up. Two history
variables say what came of that: `told` is the state that was reported last, `skipped`
the keys for which it did not reach the API server (`status`). `passthrough` is the TLS passthrough map file:
`PassthroughAfter` is what the Configurator does to `tlsPassthroughPairs` for a
change, and `FilesReflectConfiguration` covers the map with the files.

**SecretStore** is the local secret store as operators on a record, with the
files that the Configurator writes for it. File names are namespace and name
joined by a dash, as the code joins them. `SetPaths` is the write of
`addOrUpdateIngress` into a reference that it shares with the store.

**AppProtect** has one action for each of the six operations. Errors are kept
the way the code keeps them (`IsValid` and `ErrorMsg` as one field), `Reconcile`
is `reconcileUserSigs`, `Verify` is `verifyPolicies`. **AppProtectAbstract** is
what it promises: `active` and `inForce` are functions of the stored objects. The
refinement mapping (`Abs` in `AppProtect`) forgets the error fields: the stored
objects, and the names of the entries without an error.

**ExternalStatus** is the part of `statusUpdater` that chooses the address to
report, as operators on a record.

**Dependents** composes `AppProtect`, `SecretStore`, `ExternalStatus` and
`WorkQueue`. A `world` of the constant `Worlds` gives the initial objects, the
edits that users may make and the command line; it never changes, and worlds do
not interact. A task is synced in the steps of the code: `StartSync` takes the
task, changes the store, the App Protect configuration or the status updater and
finds the dependents (the sync function of the kind); `Build` creates the
extended resources, which fetches secrets; then one step for each call of the
Configurator (`Write`, `UpdateEndpoints`, `UpdateSpecialSecret`, `DeleteConfig`) or
status updater (`Report`); `FinishSync` is Done. What a config file says is
`Ex(r, view)`: what it was generated from. A reload fails if a file that is named
is missing, and may fail otherwise; `loading` is a configuration that NGINX loads
after `WaitForCorrectVersion` gave up (`Load`). The SPIFFE goroutine
(`RotateKey`, `RotateCert`, `RotateReload`) excludes syncs through `syncLock`; the
leader elector (`BecomeLeader`, `LeaderReadsStatus`, `LeaderWritesStatus`,
`LoseLeadership`) does not. `reported` are the addresses that an Ingress has in the API
server, `seen` those in the lister (`ObserveStatus` brings them there), and both the
worker and the elector skip a write if the lister shows the addresses already
(`Shown`); `told` and `skipped` are as in `Controller`. Which resources are valid and own
their hosts is the subject of `Controller`: here all are.

**VirtualServerValidation** and **VirtualServerConfig** follow one VirtualServer
through validation (`Accept`, `Reject`), `createVirtualServerEx` (`CreateEx`) and
`GenerateVirtualServerConfig` (`GenerateServer`, then a step for each route and
subroute). Names that the code formats, `split_0_1` or `@error_page_2_0`, are
tuples of the numbers in them, so that a name used twice is seen. The second half
of the module reads the generated configuration the way NGINX does (redirects,
maps, split clients, named locations) to state the properties. A reference that
the code would dereference although it is nil is the state `"panicked"`.

`MCConfiguration`, `MCArbitration`, `MCLifecycle`, `MCController`, `MCDependents`
and `MCGeneration` give the constants their values. The `...Proofs` modules hold the theorems. Definitions
marked *Mutant* are deliberately wrong variants of the definition that follows
them; each breaks at least one property when put in its place, and none is used
otherwise.

## 4. Runs

| Run | Instance | Shows |
|---|---|---|
| `configuration` | Two families of objects that are never stored together (`OneFamily`). Hosts: five Ingress names (masters, minions, a two-host Ingress, an invalid and a foreign version), a VirtualServer with a route, a VirtualServerRoute; two hosts. Listeners: four TransportServers (one TLS passthrough), a VirtualServer, five GlobalConfigurations, two of them invalid | `HostOwnership`, `ListenerOwnership`, `NothingDropped`, `ChangesComplete`, `NoTransientCollision`, `LoserTold` after every history |
| `arbitration` | Five claimants: two of the same age, one without claims, one that claims the same path twice | the loop agrees with `Holder` in every order |
| `process` | Two objects, versions up to 3 (Init has version 1, so two edits), one failing sync, SIGTERM or NGINX exit at any time | safety of queue and shutdown, convergence, termination |
| `web` | All five kinds, four edits, one failing reload, status events that lag | end-to-end results for hosts and statuses |
| `streams` | Two TransportServers that compete for a listener and for a TLS passthrough host, two GlobalConfigurations, four edits, status events that lag | files and passthrough map, end-to-end results for listeners, and quiescence |
| `dependents` | Seven worlds: `secrets` (TLS, JWT, OIDC secrets, policies, a VirtualServer with a route, an Ingress), `appProtect` (signatures that share a tag, a policy that needs one, an annotation and a WAF policy), `plus` and `oss` (services and endpoints with and without the NGINX Plus API), `spiffe` (with a ConfigMap), `service` and `link` (sources of the status address, leader election); two or three events each, one failing or late reload, status events that lag | `ConfigReflectsDependents`, `NoDanglingReference`, `SecretFilesCurrent`, `SVIDNotTorn`, `AddressesReported`, `Settles`, and the refinement `APRefines` |
| `generation` | Four families of VirtualServers: routing (all pairs of seven shapes of routes with error pages, in the VirtualServer and in a VirtualServerRoute), policies (all pairs of twelve references, on the server and on routes, good and bad), upstreams, and odd ones that are rejected or conflict | `RoutesAsDeclared`, `PoliciesEnforced`, `NoNilSecretRef` |
| `edited_ts`, `recreated`, `tombstone`, `ready`, `stale_status` | one disagreement each | see section 5 |

Why the bounds are enough. `Configuration` is finite without a bound:
`configuration` covers every history of either family of objects, of any length (the
constraint `OneFamily` makes the states of the two families a sum instead of a
product: what the kinds of the two have in common, a host that a TransportServer and
a VirtualServer ask for, is in the second family). Every rule
of the code compares two claimants at a time, or a claimant with its older
version, so two hosts, two listeners and two or three claimants for each are
where it can go wrong; the instances contain ties in age, cross-kind collisions
and invalid versions. `Lifecycle` needs two tasks (one in the queue while another
is processed) and an edit during a sync, another after it. `Controller`
needs four edits for "create two rivals, change one, delete the other".
`AllTypeOK` and the other invariants of `web` and `streams` are checked in every
interleaving of those edits with the worker. In `dependents` the first event
meets a controller that has worked off its start in either of two orders
(resources first, or what they depend on first), the others come at any time:
two events are what "the secret goes while the policy that names it is being
synced" takes, three are needed with a rotation or an election, and one failure
is enough to have files and running configuration differ when the next change
comes. In `generation` every counter of the generator is advanced by one route
before it is used by the next; two routes with two cases of two splits reach
every combination of counters.

`CHECK_DEADLOCK FALSE`: the claim loop ends; the process exits or panics; the
controller rests when the edit bound is used up. `Configuration` never stops and
is checked for deadlock; in `Dependents` and `VirtualServerConfig` the only stop
is a named one (`AllDone`, `Finished`), so that they are checked for deadlock too.

**Fairness.** `Lifecycle!FairSpec`: weak fairness for each informer and its
handler, for Run, the worker and the termination goroutine (the Go scheduler
runs every runnable goroutine; the reflector lists again after a broken watch),
and for noticing that NGINX exited (the channel is read by `handleTermination`).
Edits, SIGTERM, failing syncs and the death of NGINX are never forced.
`Controller!FairSpec`: weak fairness for each informer and the worker.
`Dependents!Spec`: weak fairness for the worker, the informers, the goroutine of a
rotation that has begun and that of a leader that has started, and for a late
reload; nobody has to edit, rotate or elect.

**Skipped statuses.** `hasVsStatusChanged`, its TransportServer sibling and
`updateIngressWithStatus` compare with the copy in the lister, so a report that
overtakes the event of the worker's previous write may be skipped although the API
server has something else. The models let that happen whenever the code does; no step
waits for an event. So `StatusCurrent`, the state shown at rest is the one the object
is in, is false (`stale_status`). What holds, is checked in `web` and proved is in
`StatusTruthful`: the state that was reported *last* is the right one, and the API
server shows it unless that very write was skipped. `ValidMeansRunning` and
`AddressesReported` have the same exception. VirtualServerRoutes are always
written and never excepted.

**What is excepted in `Dependents`.** `ConfigReflectsDependents` is stated for
states at rest whose last reload succeeded. The code retains a special TLS
secret that is gone or invalid; applies the parameters of a ConfigMap with a
broken template half; and clears all signatures when one is deleted that it
never stored: the property says so in its comment. `AddressesReported` excepts
Ingresses whose status `OnStartedLeading` wrote last from addresses that it had
read before they changed (`leader.stale`), and the address of a ConfigMap that was
deleted stays in force. Of the addresses that were reported last it excepts a write that was
skipped: when the address goes from A to B and back to A before the event of B has
come back, the lister's copy still says A, and the Ingress keeps B in the API server.
`NoDanglingReference` admits a config file that names a
missing file while one of its policies is still queued.

**What is excepted in `VirtualServerConfig`.** `Ambiguous`: two resources define
one path, or one VirtualServerRoute is referred to twice; nothing rejects it. It
counts as referred to twice also when only one of the two references fits it, since
the other one can still hand its policies down to it; `Odd` has such an input.
`MixesClusterIP`: two upstreams of one service of which one uses the cluster IP
share an entry of the Endpoints map.

**Failed reloads.** `NginxServesSenior`, `NginxServesListeners` and
`StatusTruthful` are stated for histories without a failed reload: the code
makes no attempt to repeat a reload. `ValidMeansRunning` holds with them.

## 5. Where the code and its documentation disagree

Each of these is a run that ends in a counterexample.

- `edited_ts`: a TransportServer edited from the TLS passthrough listener to a
  TCP listener gets an AddOrUpdate followed by a Delete, because
  `AddOrUpdateTransportServer` concatenates two change lists. Its file is removed
  while it owns its listener.
- `recreated`: an object deleted and created again before its task is synced
  keeps its old file: `compareObjectMetas` compares namespace, name and
  generation, not the UID. The instances of the other runs give every object a
  generation that tells its specs apart, as the API server does for one object.
- `tombstone`: the Ingress handler (and six others) enqueues the
  `DeletedFinalStateUnknown` itself, which `newTask` does not know; the deletion
  is lost.
- `ready`: `isNginxReady` can be set before the objects of the initial lists have
  been enqueued.
- `stale_status`: a VirtualServer that was synced before its VirtualServerRoute is
  shown as Warning, and then, with the route, as Valid. If the route is deleted and
  synced before the event of the second write, the third report, Warning again,
  equals the copy in the lister and is not written: the API server keeps Valid, which
  the documentation calls the current state of the resource.

Seen while reading, without a run:

- `docs-web/configuration/handling-host-and-listener-collisions.md:7` says that
  the lexicographically smallest UID wins among objects of the same age;
  `configuration.go:52` picks the greatest. The models follow the code.
- `updateIngressWithStatus` (`status.go:129`) skips a write in the same way as
  `UpdateVirtualServerStatus`: an Ingress can keep an address that is not in force any more.
- Two multi-host Ingresses can trade hosts so that an update is written before
  its rival has given up a host: `NoTransientCollision` is about the files of
  objects with at most one host, whatever else is stored, and proved if no accepted
  Ingress has two.
- `rebuildListeners` looks up new TransportServer configurations under a key
  without the kind, so its changes are never refreshed.
- A SIGTERM that arrives before the worker has started leaves `Shutdown` waiting
  for a channel nobody closes; one before `Run` calls a nil `lbc.cancel`.
  `RunningShutdownCompletes` is therefore stated for a worker that has started.
- `objectMetaToFileName` can map two Ingresses, or two Secrets, to one file; a
  failed reload after a delete is only logged. For Secrets the assumption is
  named (`NoFileNameCollision`).
- The deletion of a signature that was never stored returns an empty
  `UserSigChange`, and `RefreshAppProtectUserSigs` clears the signature folder.
- `processAppProtectUserSigChange` passes keys where
  `DeleteAppProtectResourceFile` takes file names, so the files of policies that
  fell out of force stay. Nothing refers to them any more.
- `isReqSatisfiedByUserSig`: a signature with a revision time does not meet a
  requirement without bounds.
- `docs-web/configuration/virtualserver-and-virtualserverroute-resources.md:350`
  says that a subroute with an exact or regex path must have the same path as the
  route that refers to its VirtualServerRoute; under a route with a prefix path
  the validator accepts any exact or regex path.

## 6. Proofs

All proofs are for arbitrary constants that satisfy the named assumptions; none
of the bounds of section 4 is used.

- **OperatorProofs.** Facts about the operators that the modules share.
  `WinsIsTotalOrder`: among objects with distinct UIDs,
  `Wins` is a strict total order. `SeniorExists`: a non-empty set of them has a
  member that wins against all others, so the `CHOOSE` in `Holder` is well
  defined. The argument takes the least creation time and, among those objects,
  the greatest UID. It exists because UIDs are bounded by `MaxUID`: they are
  strings of a fixed length.
  `AddOK` and its siblings state what `Add`, `Get`, `Done` and `ShutDown` do to a
  well-formed queue; `LifecycleProofs`, `ControllerProofs` and `DependentsProofs` use
  them.
- **ConfigurationProofs.** `StoresInvariant` (`StoresOK`: accepted objects, one
  for each key) is inductive. `HostOwnership` is not: it needs `StoresOK`,
  because the claimants of a host are distinct API objects only if no key is
  stored twice. The proof shows that the host map built from stores that satisfy
  `StoresOK` is right (`HostsBuiltNow`, with `HostHolder` from `SeniorExists`),
  in the next state too (`HostsBuiltNext`), and that every action rebuilds the
  hosts or leaves alone everything they depend on. The interesting cases are
  GlobalConfiguration updates and TransportServers without TLS passthrough,
  where `hosts` is *not* rebuilt. `ListenerOwnership` goes the same way and
  needs that a stored GlobalConfiguration has no listener name twice.
  `InStepInvariant` is the strongest of them: hosts, listeners and both sets of
  problems are always those that the stored objects determine, although most
  operations rebuild only a part of them.
  Assumptions: `ObjectsAssumption` and `ValidationAssumption`.
- **ChangesProofs.** What an operation returns. From `InStep` follows `Maps`: an owner of
  several hosts is the same resource under each of them, and no resource owns both a host
  and a listener. On such maps, `CreateResourceChanges` lists a delete for
  every resource that lost a host and an update for every resource that is new or
  differs, squashing keeps the last of them (`SquashedTransforms`), and
  refreshing replaces a resource by its current version: the
  final change of each resource is an update exactly if it still owns something.
  That is `ChangesCompleteTheorem`, with two hypotheses. `VersionsTold`: metadata
  tells the versions of an object apart; `recreated` is the run that shows what
  happens otherwise. `HostOwnersStay`: no step turns a TransportServer
  that owns a host into one that owns a listener; that is what `edited_ts` does.
  `NoTransientCollisionTheorem` is about the order of the changes. After any prefix of
  them, a config file is that of an old owner that no change so far is about, or that of a new
  owner. Two of the same kind bind different names (`OwnersBind`). An old and a new
  one could only collide over a name that moved, and `YieldsFirst` says that its old
  owner is changed before its new one is updated. Deletes come first
  (`CreateOrder`), and updates are in the order of the first change of each
  resource (`SquashOrder`): the order is wrong only if the new owner has lost a name itself
  while the old one stays (`NoExchange` excludes it). One operation stores at most one
  new version (`OneStored`), so with one name for each object no two can
  exchange names. The hypothesis is `OneHostEach`: each accepted Ingress has one host, as the
  other kinds have; two Ingresses with several hosts really collide (section 5).
  `NothingDroppedInvariant` compares, kind by kind, the conditions for a problem
  with those for being in service; `LoserToldTheorem` follows from it in two states.
  Both, and `TypeCorrect`, hold without those hypotheses.
- **ControllerProofs.** `ControllerRefinesConfiguration` (`AllSpec => Spec`) brings in
  everything that is proved about the Configuration. `FilesReflectConfiguration` is not
  inductive: during a sync the files are behind. `FilesOK` says by how much: the
  changes that are left to apply (`Rest`) turn the files into those of the owners,
  whether they are applied in their order or, for a GlobalConfiguration, updates
  first. The passthrough map has the pairs of the files at every moment, which
  needs that no TransportServer loses its host without a delete (`NoPairLeft`).
  `NginxServesSenior` and `NginxServesListeners` combine it with three more
  invariants. `RunningOK`: without failed reloads NGINX runs the files, except within
  the changes of a GlobalConfiguration. `LoadedOK`: the stores hold, under each key,
  what the lister holds of it, unless a task for the key is pending; every
  handler's idea of a relevant difference and the coalescing of tasks enter
  here. `ForwardOK`: the API server is never behind a lister, nor a lister
  behind the stores, in the generations of an object. Hypotheses:
  `VersionsTold`, `NamesKept` (no name is used again; `recreated` is the reason)
  and `PassthroughKept` (no TransportServer is edited from TLS passthrough to another
  listener). `HostOwnersStayInvariant` derives the hypothesis of
  `ChangesCompleteTheorem` from the last two. `MCConfiguration` and
  `MCController` assert these hypotheses of the instances that the passing runs check.

  `StatusTruthful` and `ValidMeansRunning` speak of states at rest, but what a status
  shows then was written by some earlier sync, often one of another object. `ReportsOK`
  is the invariant that carries it through. `StatusOK`: the status of a stored object is
  `Right` (without failed reloads it is the one the Configuration implies; if it is
  Valid, the object is in service and NGINX runs its config), or the worker has still
  to report it with an update (`DueUpdate`) or a problem (`DueProblem`). That a sync keeps
  this is the heart of the proof: whoever owns something afterwards is updated, or had
  the same object, attached objects and warnings before (`UpdatedOrKept`); whoever is
  stored and not in service afterwards gets a problem, or had one before
  (`NewProblemTold`). `PlanOK` says what the changes and the problems of the current task
  are about, so that a delete never leaves the status of an object that was
  served wrong: its owner is updated later in the same sync, or told. `FilesDue` links the files to it: a
  reload that comes between two changes loads the config of an owner, or that
  owner's update is due. `RejectedOK`: a rejected object that no task is pending for
  is shown as Invalid, or the error is due, as a problem or with the only change for
  its key (`OncePerLoser`, `ErrorMarked`). `AliveOK`: what is stored and exists is in the lister, or
  the status would not be written. All of this is about `told`, what was reported last;
  `SkippedOK` says that the API server has it, unless the write is among `skipped`, and
  `WriteStatusSkips` that a report keeps it so, whatever copy it was compared with.
- **ArbitrationProofs.** `HeldBySenior` is inductive together with `TypeOK`: what
  has been claimed so far is held by the senior claimant so far.
  `OrderIndependence` follows at the end of the loop, where everything has been
  claimed, and links the loop to `Holder`. `GrantedOrWarned` is preserved by the
  three outcomes of a claim, the claimant that displaces itself included.
- **LifecycleProofs.** `LifecycleType` rests on these lemmas, part by part (`QueueOK`, `InformersOK`, `ProcessOK`). `NoLostUpdate` needs `NotListed` (the lister of an informer
  that has not listed yet is empty) and, as a hypothesis,
  `AllEnqueue`: no task is of a kind whose handler enqueues the tombstone. That
  hypothesis is exactly what the `tombstone` run shows to be necessary.
  `WorkerDoneClosedOnce` and `QuietBeforeQuit` follow from `StopOrder`, which
  relates the place of the termination handler to the context, the queue and the
  worker.

- **AppProtectProofs.** The refinement is not inductive by itself. The invariant
  `APInv` adds what ties an entry to its object: an entry is the one its creation
  gave except for the error (`SigsOK`, `PoliciesOK`), and the error is one of
  those that the code can reach from there. `ReconcileActive` shows that
  `Reconcile` leaves exactly the active signatures valid *whatever* it finds in
  the errors of well-formed ones, which is why no history can make the
  bookkeeping drift; `VerifyInForce` is the same for policies. `APStep` takes the
  six operations one by one. `APInvariant`, `APRefinement` and `NoDuplicateTag`
  follow. Assumption: `APAssumption` (UIDs differ).
- **DependentsProofs.** `WorkerOK` (one task at most, consistent with the queue,
  all objects from the world) is inductive with the lemmas on the queue.
  `ControllerRefinesAppProtect`: with `WorkerOK`, every step of the controller is
  an operation of `AppProtect` or leaves it alone, so what is proved of the
  component holds in the composition. `SVIDNotTorn` needs `RotationOK`: while a
  rotation is under way no task is current (`syncLock`), so no reload can see the
  key without the certificate. `SecretFilesCurrent` needs that every secret the
  store holds is one of the world, for which `NoFileNameCollision` and
  `TypesAreFixed` are assumed; `Current` is preserved by each operation of the store
  on such secrets.

  `DependentsTypeCorrect` adds what the other results rest on (`TypesOK`): one version of an
  object in the API server and in a lister, a plan of calls about objects of the
  world, config files with their keys only.

  `NoDanglingReference` is not inductive: in the middle of a sync, files are gone that
  config files name. `RefsOK` says when: every config file is about to be
  rewritten or deleted by a call that is left in the plan, or waits for a policy that is
  queued, or names only files that exist *and* that the reference checkers would
  find from it now (`Justified`). The last part is what makes the invariant
  inductive: a secret or an App Protect resource that goes is then found from every config
  file that names it (`JustifiedFound`), a policy that changes in the lister and would
  hide such a file is queued by the informer in the same step
  (`ObservedPolicies`), and its sync rewrites whoever waited for it (`WaitingFound`).
  `ExesOK` says the same of the extended resources that are built and not yet
  written, `CallsOK` that only the first call of a plan removes App Protect files.
  `ReferencesAssumption` is what the validators guarantee of an accepted resource:
  minions, routes and TransportServers have no TLS secret.

  `ConfigReflectsDependents` compares the contents of all files, where
  `NoDanglingReference` compares names. Its invariant, `ReflectsInv`, follows an object
  from the lister to NGINX. `KnownOK`: the Configuration, the secret store, the App
  Protect configuration and the Configurator hold what the lister holds of each
  key, unless the key is queued. `MainOK`: the main config file, the signatures and
  the special secret are those that the controller knows, unless a call that is left
  writes them, and no call that is left removes what is in force. `ConfOK`: the config
  file of a resource says what the controller's view says of it, and the files that it
  needs have the current contents, unless a call that is left generates it or a policy
  of it is queued (`ConfServed`); its endpoints are those of the lister, unless a
  service of it or its Endpoints are still to be synced or seen (`EndpointsServed`,
  `Late`); the same of extended resources that are built and not yet written
  (`BuiltServed`). `NginxOK`: after a successful reload, and when no call that reloads
  is left and no policy waits (`Debt`), NGINX runs with these files, endpoints set
  through the API of NGINX Plus included, and so does a configuration that it loads
  late. The core of the argument is `SyncSame`: whatever a sync changes, a
  resource for which the view changes is among those that its plan reloads, because the
  reference checkers find it (`NeededFound`), also through policies and, for a signature,
  through the App Protect policies that come in or fall out of force. An informer that changes
  a policy changes the view before any sync; it queues the policy in the same step
  (`ObserveSame`). At rest, the controller's view is `IdealView` (`ViewAtRest`; the App Protect
  part is `APInv`), and nothing is late: that needs `EndpointsThere`, a
  service keeps its Endpoints, which `ServicesAssumption` states of the worlds. If
  Endpoints could go while their service stays, `syncEndpoints` would return without
  finding the resources, and the old addresses would stay in the config file.

  `AddressesReported` needs `AddressInv`. `SourcesOK`: the status
  updater knows each of the three sources as the lister has it, or the task that
  tells it is queued, and its status is the one that the known sources call for.
  `ConfiguredOK` and `LifeOK`: an Ingress of the lister is configured or queued, and one
  that was removed does not come back. `ElectionOK`: the leader elector writes
  statuses of Ingresses only, and the API server has the addresses that were told,
  unless that write was skipped. `ReportedOK`: the addresses told last of a configured Ingress are those
  of the updater, unless a call that is left reports them, the elector has still to
  write them or wrote them from what it read before (`leader.stale`). `StatusSources` names
  what is assumed: one ConfigMap and one IngressLink are watched, an IngressLink excludes an
  external service (`main`), and an Ingress that was deleted is not created again (an
  informer may join the two events into one update; `recreated` shows what that does
  to ownership).

Only model-checked: every liveness property (`Converges`,
`RunningShutdownCompletes`, `Quiesces`, `Settles`), because fairness and ENABLED are out of
the proof system's reach; and `VirtualServerConfig`, whose generator is folds over
sequences and would need induction over data.

## 7. What is not modelled, and why

- Generation for Ingresses and TransportServers, the text templates, annotations
  and the keys of the ConfigMap: data, not control. A file is a record of what it
  is made from.
- Field validation beyond structure and what ownership rests on: one Boolean for
  each object, or passed by every input of `generation`.
- The statuses of Policies, and what `OnStartedLeading` restores from events for
  custom resources.
- The poll of the config version: its two outcomes, and a late load, are modelled.
- Pods that come and go without a change of Endpoints, for upstreams with a
  subselector: the controller has no handler for pods.
- Two replicas: the other one is only visible as leadership that comes and goes.
- The start of the SPIFFE client, NGINX Plus and App Protect set-up in `main.go`.
- Metrics, generated clients and API types.
- The scripts, charts and roles of the repository around the controller.
