---------------------------- MODULE Controller ----------------------------
(***************************************************************************)
(* The sync loop of the LoadBalancerController (internal/k8s/controller.go) *)
(* around a Configuration: users edit objects in the API server, informers *)
(* bring them to the listers and the handlers enqueue tasks (handlers.go), *)
(* the worker syncs one task at a time, applies the changes one by one     *)
(* through the Configurator (internal/configs/configurator.go), which      *)
(* writes the config files and reloads NGINX, and reports the status of    *)
(* VirtualServers, VirtualServerRoutes and TransportServers (status.go).   *)
(*                                                                         *)
(* The informer updates its lister and notifies its handler in one step:   *)
(* Lifecycle takes them apart.  The config that NGINX runs is the set of   *)
(* files it has last loaded; a reload may fail.                            *)
(***************************************************************************)
EXTENDS Configuration, WorkQueue

CONSTANTS
  MaxEdits,     \* bounds the edits of the users
  MaxFailures   \* bounds the reloads that fail

VARIABLES
  cluster,      \* the objects in the API server
  used,         \* the UIDs it has given out
  edits,
  lister,       \* the objects in the stores of the informers
  status, seen, \* key |-> state, in the API server and in the listers
  told,         \* key |-> the state that was reported last (a history variable),
  skipped,      \*   and the keys for which it did not get to the API server
  queue, worker, current,
  cursor,       \* the change processChanges is at
  files,        \* the config files
  passthrough,  \* the TLS passthrough map file: the hosts of TransportServers
  running,      \* the config files NGINX has loaded
  failures

api  == <<cluster, used, edits>>
nginx == <<files, passthrough, running, failures>>
allVars == <<vars, api, lister, status, seen, told, skipped, queue, worker, current, cursor, nginx>>

ASSUME ControllerAssumption ==
  MaxEdits \in Nat /\ MaxFailures \in Nat

GlobalConfigurationKey == <<"GlobalConfiguration", 0>>
GlobalConfigurationObjects ==
  {[kind |-> "GlobalConfiguration", name |-> 0, listeners |-> gc] : gc \in GlobalConfigurations}

Keys == {Key(o) : o \in Objects} \cup
        (IF GlobalConfigurations = {} THEN {} ELSE {GlobalConfigurationKey})
StatusKeys == {Key(o) : o \in Objects \ Ingresses}

At(set, key) == {o \in set : Key(o) = key}
Exists(set, key) == At(set, key) # {}

-----------------------------------------------------------------------------
(* The API server *)

Edited(set) ==
  /\ edits < MaxEdits /\ edits' = edits + 1
  /\ cluster' = set
  /\ UNCHANGED <<vars, lister, seen, queue, worker, current, cursor, nginx>>

\* A new object starts at generation 1, with a new UID.
Create(o) ==
  /\ ~Exists(cluster, Key(o)) /\ o.generation = 1 /\ o.uid \notin used
  /\ used' = used \cup {o.uid}
  /\ Edited(cluster \cup {o})
  /\ UNCHANGED <<status, told, skipped>>

Update(o) ==
  /\ \E p \in At(cluster, Key(o)) : p.uid = o.uid /\ p.generation < o.generation
  /\ Edited((cluster \ At(cluster, Key(o))) \cup {o})
  /\ UNCHANGED <<used, status, told, skipped>>

EditGlobalConfiguration(gc) ==
  /\ gc \notin cluster
  /\ Edited((cluster \ At(cluster, Key(gc))) \cup {gc})
  /\ UNCHANGED <<used, status, told, skipped>>

Delete(key) ==
  /\ Exists(cluster, key)
  /\ Edited(cluster \ At(cluster, key))
  /\ status' = [k \in StatusKeys |-> IF k = key THEN "none" ELSE status[k]]
  /\ told' = [k \in StatusKeys |-> IF k = key THEN "none" ELSE told[k]]
  /\ skipped' = skipped \ {key}
  /\ UNCHANGED used

-----------------------------------------------------------------------------
(* The informers and the handlers *)

SpecOf(o) ==
  [class |-> o.class, valid |-> o.valid, routes |-> o.routes, config |-> ConfigSpec(o)]

StatusOf(f, key) == IF key \in StatusKeys THEN f[key] ELSE "none"

\* UpdateFunc: which differences make the handler of the kind enqueue.
HasChanges(old, cur) ==
  CASE cur.kind \in {"VirtualServer", "VirtualServerRoute"} -> SpecOf(old) # SpecOf(cur)
    [] cur.kind = "TransportServer" -> old # cur \/ seen[Key(cur)] # status[Key(cur)]
    [] OTHER -> old # cur

MustEnqueue(key) ==
  \/ Exists(lister, key) # Exists(cluster, key)
  \/ \E old \in At(lister, key), cur \in At(cluster, key) : HasChanges(old, cur)

Observe(key) ==
  /\ \/ At(lister, key) # At(cluster, key)
     \/ StatusOf(seen, key) # StatusOf(status, key)
  /\ lister' = (lister \ At(lister, key)) \cup At(cluster, key)
  /\ seen' = [k \in StatusKeys |-> IF k = key THEN status[k] ELSE seen[k]]
  /\ queue' = IF MustEnqueue(key) THEN Add(queue, key) ELSE queue
  /\ UNCHANGED <<vars, api, status, told, skipped, worker, current, cursor, nginx>>

-----------------------------------------------------------------------------
(* The worker *)

GetTask ==
  /\ worker = "idle" /\ CanGet(queue)
  /\ current' = Head(queue.items)
  /\ queue' = Get(queue)
  /\ worker' = "sync"
  /\ UNCHANGED <<vars, api, lister, status, seen, told, skipped, cursor, nginx>>

Synced ==
  /\ worker = "sync"
  /\ worker' = "changes" /\ cursor' = 1
  /\ UNCHANGED <<api, lister, status, seen, told, skipped, queue, current, nginx>>

SyncIngress ==
  /\ current[1] = "Ingress"
  /\ \/ \E o \in At(lister, current) : AddOrUpdateIngress(o)
     \/ ~Exists(lister, current) /\ DeleteIngress(current)
  /\ Synced

SyncVirtualServer ==
  /\ current[1] = "VirtualServer"
  /\ \/ \E o \in At(lister, current) : AddOrUpdateVirtualServer(o)
     \/ ~Exists(lister, current) /\ DeleteVirtualServer(current)
  /\ Synced

SyncVirtualServerRoute ==
  /\ current[1] = "VirtualServerRoute"
  /\ \/ \E o \in At(lister, current) : AddOrUpdateVirtualServerRoute(o)
     \/ ~Exists(lister, current) /\ DeleteVirtualServerRoute(current)
  /\ Synced

SyncTransportServer ==
  /\ current[1] = "TransportServer"
  /\ \/ \E o \in At(lister, current) : AddOrUpdateTransportServer(o)
     \/ ~Exists(lister, current) /\ DeleteTransportServer(current)
  /\ Synced

SyncGlobalConfiguration ==
  /\ current[1] = "GlobalConfiguration"
  /\ \/ \E gc \in At(lister, current) : AddOrUpdateGlobalConfiguration(gc.listeners)
     \/ ~Exists(lister, current) /\ DeleteGlobalConfiguration
  /\ Synced

\* Mutant: a failed reload is not reported.
StateAfterUnchecked(warnings, ok) == IF warnings = {} THEN "Valid" ELSE "Warning"

\* The state reported after an AddOrUpdate.
StateAfter(warnings, ok) ==
  CASE ~ok                    -> "Invalid"
    [] ok /\ warnings # {}    -> "Warning"
    [] ok /\ warnings = {}    -> "Valid"

NoStates == [k \in {} |-> "none"]

\* The states that updateVirtualServerStatusAndEvents and its siblings report:
\* the resource first, then the VirtualServerRoutes of a VirtualServer.
StatesOnUpdate(r, ok) ==
  [k \in {ResourceKey(r)} \cup {Key(o) : o \in ToSet(r.attached)} |->
     IF k = ResourceKey(r) THEN StateAfter(r.warnings, ok) ELSE StateAfter({}, ok)]

\* A resource that is deleted because its class changed is not reported.
StatesOnDelete(c, ok) ==
  IF Exists(lister, ResourceKey(c.resource)) /\ (c.error \/ c.resource.warnings # {})
    THEN [k \in {ResourceKey(c.resource)} |-> IF c.error \/ ~ok THEN "Invalid" ELSE "Warning"]
    ELSE NoStates

\* Mutant: problems change no status.
ProblemStatesIgnored == NoStates

\* processProblems
ProblemStates ==
  [k \in {p.key : p \in problems} |->
     IF \E p \in problems : p.key = k /\ p.isError THEN "Invalid" ELSE "Warning"]

\* The states are reported of what is in the lister, and still exists.  A status
\* is compared with the copy in the lister and not written if that shows it
\* already, with the same message, which is always the same for Valid; the copy
\* may be older than what the API server has.  A VirtualServerRoute is always
\* written.
WriteStatus(states) ==
  LET reported == {k \in StatusKeys \cap DOMAIN states : Exists(lister, k) /\ Exists(cluster, k)}
      shown    == {k \in reported : k[1] # "VirtualServerRoute" /\ seen[k] = states[k]}
  IN \E written \in SUBSET reported :
       /\ reported \ written \subseteq shown
       /\ \A k \in written \cap shown : states[k] # "Valid"
       /\ status' = [k \in StatusKeys |-> IF k \in written THEN states[k] ELSE status[k]]
       /\ told' = [k \in StatusKeys |-> IF k \in reported THEN states[k] ELSE told[k]]
       /\ skipped' = (skipped \ reported) \cup {k \in reported \ written : status[k] # states[k]}
       /\ UNCHANGED seen

\* Reload: NGINX loads the files as they are now.  An error means that it keeps
\* what it runs, or that it has loaded them but not confirmed the new config
\* version in time.
Reload(ok) ==
  \/ ok /\ running' = files' /\ UNCHANGED failures
  \/ /\ ~ok /\ failures < MaxFailures
     /\ failures' = failures + 1
     /\ running' \in {running, files'}

\* Mutant: the host of a TransportServer that is deleted stays in the map file.
PassthroughAfterKeeps(pairs, c) ==
  LET o == c.resource.obj
  IN IF o.kind # "TransportServer" \/ o.hosts = {} \/ c.op = "Delete" THEN pairs
     ELSE {p \in pairs : p.key # Key(o)} \cup {[key |-> Key(o), host |-> h] : h \in o.hosts}

\* addOrUpdateTransportServer sets the pair of a TransportServer with a host and
\* leaves one without a host alone; deleteTransportServer removes the pair.
PassthroughAfter(pairs, c) ==
  LET o == c.resource.obj
      others == {p \in pairs : p.key # Key(o)}
  IN CASE o.kind # "TransportServer" -> pairs
       [] o.kind = "TransportServer" /\ c.op = "Delete" -> others
       [] OTHER -> IF o.hosts = {} THEN pairs
                   ELSE others \cup {[key |-> Key(o), host |-> h] : h \in o.hosts}

ProcessChange ==
  /\ worker = "changes" /\ current # GlobalConfigurationKey
  /\ cursor <= Len(changes)
  /\ LET c == changes[cursor]
     IN /\ files' = Apply(files, c)
        /\ passthrough' = PassthroughAfter(passthrough, c)
        /\ \E ok \in BOOLEAN :
             /\ Reload(ok)
             /\ WriteStatus(IF c.op = "AddOrUpdate" THEN StatesOnUpdate(c.resource, ok)
                                                     ELSE StatesOnDelete(c, ok))
  /\ cursor' = cursor + 1
  /\ UNCHANGED <<vars, api, lister, queue, worker, current>>

\* The order in which UpdateTransportServers writes and removes the files.
UpdatesFirst(cs) ==
  Subsequence(cs, {i \in DOMAIN cs : cs[i].op = "AddOrUpdate"})
    \o Subsequence(cs, {i \in DOMAIN cs : cs[i].op = "Delete"})

\* processChangesFromGlobalConfiguration: all files first, and no reload between.
UpdateTransportServers ==
  /\ worker = "changes" /\ current = GlobalConfigurationKey
  /\ cursor <= Len(changes)
  /\ LET c == UpdatesFirst(changes)[cursor]
     IN /\ files' = Apply(files, c)
        /\ passthrough' = PassthroughAfter(passthrough, c)
  /\ cursor' = cursor + 1
  /\ UNCHANGED <<vars, api, lister, status, seen, told, skipped, queue, worker, current,
                 running, failures>>

\* Then one reload, also when nothing changed, and the states of the updates.
ReloadTransportServers ==
  /\ worker = "changes" /\ current = GlobalConfigurationKey
  /\ cursor = Len(changes) + 1
  /\ UNCHANGED <<files, passthrough>>
  /\ LET updated == {c.resource : c \in {d \in ToSet(changes) : d.op = "AddOrUpdate"}}
     IN \E ok \in BOOLEAN :
          /\ Reload(ok)
          /\ WriteStatus([k \in {ResourceKey(r) : r \in updated} |->
               StateAfter((CHOOSE r \in updated : ResourceKey(r) = k).warnings, ok)])
  /\ cursor' = cursor + 1
  /\ UNCHANGED <<vars, api, lister, queue, worker, current>>

\* Mutant: a task is queued again after its sync.
FinishSyncRequeues ==
  /\ worker = "changes"
  /\ cursor > Len(changes) + (IF current = GlobalConfigurationKey THEN 1 ELSE 0)
  /\ WriteStatus(ProblemStates)
  /\ queue' = Add(Done(queue, current), current)
  /\ worker' = "idle"
  /\ UNCHANGED <<vars, api, lister, current, cursor, nginx>>

FinishSync ==
  /\ worker = "changes"
  /\ cursor > Len(changes) + (IF current = GlobalConfigurationKey THEN 1 ELSE 0)
  /\ WriteStatus(ProblemStates)
  /\ queue' = Done(queue, current)
  /\ worker' = "idle"
  /\ UNCHANGED <<vars, api, lister, current, cursor, nginx>>

-----------------------------------------------------------------------------
AllInit ==
  /\ Init
  /\ cluster = {} /\ used = {} /\ edits = 0
  /\ lister = {}
  /\ status = [k \in StatusKeys |-> "none"] /\ seen = status /\ told = status /\ skipped = {}
  /\ queue = NewQueue /\ worker = "idle" /\ current \in Keys /\ cursor = 1
  /\ files = {} /\ passthrough = {} /\ running = {} /\ failures = 0

Edit ==
  \/ \E o \in Objects : Create(o) \/ Update(o)
  \/ \E gc \in GlobalConfigurationObjects : EditGlobalConfiguration(gc)
  \/ \E key \in Keys : Delete(key)

Work ==
  \/ GetTask
  \/ SyncIngress \/ SyncVirtualServer \/ SyncVirtualServerRoute
  \/ SyncTransportServer \/ SyncGlobalConfiguration
  \/ ProcessChange \/ UpdateTransportServers \/ ReloadTransportServers \/ FinishSync

AllNext == Edit \/ (\E key \in Keys : Observe(key)) \/ Work

AllSpec == AllInit /\ [][AllNext]_allVars

\* The informers and the worker are goroutines that keep running.
FairSpec ==
  AllSpec /\ (\A key \in Keys : WF_allVars(Observe(key))) /\ WF_allVars(Work)

-----------------------------------------------------------------------------
(* Properties *)

\* Nothing is left to observe or to sync.
Quiescent ==
  /\ lister = cluster
  /\ \A k \in StatusKeys : seen[k] = status[k]
  /\ worker = "idle" /\ queue.items = <<>>

AllTypeOK ==
  /\ TypeOK
  /\ cluster \subseteq Objects \cup GlobalConfigurationObjects
  /\ \A o, p \in cluster : Key(o) = Key(p) => o = p
  /\ \A o, p \in lister : Key(o) = Key(p) => o = p
  /\ {status, told} \subseteq [StatusKeys -> {"none", "Valid", "Warning", "Invalid"}]
  /\ skipped \subseteq StatusKeys
  /\ queue \in Queues(Keys) /\ WellFormed(queue)
  /\ worker \in {"idle", "sync", "changes"}

\* No name is used again: an object keeps its UID and its creation timestamp in
\* all its versions.
NamesKept ==
  \A o, p \in Objects : Key(o) = Key(p) => o.uid = p.uid /\ o.created = p.created

\* Once a version of a TransportServer asks for a TLS passthrough host, so do
\* all later ones.
PassthroughKept ==
  \A o, p \in {ts \in TransportServers : Accepted(ts)} :
    Key(o) = Key(p) /\ o.generation <= p.generation /\ o.listener.protocol = TLSPassthrough
      => p.listener.protocol = TLSPassthrough

\* "The IC needs to ensure that at any point in time the NGINX config on the
\* filesystem reflects the state of the objects in the Configuration": between
\* two syncs, whatever order the edits arrived in and however they coalesced
\* in the queue, the files are those of the current owners, in their current
\* versions, and the TLS passthrough map leads each host that a TransportServer
\* owns to that TransportServer, and no other host anywhere.
FilesReflectConfiguration ==
  worker = "idle" =>
    /\ files = Files(hosts, listeners)
    /\ passthrough = {[key |-> ResourceKey(hosts[h]), host |-> h] :
                        h \in {g \in DOMAIN hosts : hosts[g].obj.kind = "TransportServer"}}

\* End to end: once everything is synced, every host that an accepted object
\* in the API server asks for is bound by the config of the senior one of
\* them, by no other, and no other host is bound.
NginxServesSenior ==
  LET Claimants(h) == {o \in cluster : /\ o.kind # "GlobalConfiguration"
                                       /\ o.kind # "VirtualServerRoute"
                                       /\ Accepted(o) /\ ~IsMinion(o) /\ h \in o.hosts}
      Hosts        == UNION {o.hosts : o \in cluster \cap Objects}
      Bound        == {b \in UNION {Binds(f) : f \in running} : b[1] = "host"}
  IN Quiescent /\ failures = 0 =>
       /\ Bound = {<<"host", h>> : h \in {g \in Hosts : Claimants(g) # {}}}
       /\ \A h \in Hosts : \A f \in running :
            <<"host", h>> \in Binds(f) =>
              \E o \in Claimants(h) :
                /\ f.key = Key(o)
                /\ \A p \in Claimants(h) \ {o} : Senior(o, p)

\* The same for listeners: a listener is bound by the senior TransportServer
\* that fits the GlobalConfiguration in the API server, on its port.
NginxServesListeners ==
  LET gc     == UNION {ToSet(o.listeners) : o \in
                  {p \in cluster : /\ p.kind = "GlobalConfiguration"
                                   /\ ValidateGlobalConfiguration(p.listeners)}}
      Fits(l) == {o \in cluster \cap TransportServers :
                    Accepted(o) /\ o.listener = [name |-> l.name, protocol |-> l.protocol]}
  IN Quiescent /\ failures = 0 =>
       /\ \A l \in gc : Fits(l) # {} =>
            \E f \in running : /\ <<"listener", l.name>> \in Binds(f) /\ f.port = l.port
                               /\ \E o \in Fits(l) : /\ f.key = Key(o)
                                                     /\ \A p \in Fits(l) \ {o} : Senior(o, p)
       /\ \A f \in running : \A b \in Binds(f) :
            b[1] = "listener" => \E l \in gc : b[2] = l.name /\ Fits(l) # {}

\* The state that an object should show: Invalid if its validator rejects it,
\* Valid if it is served, as it is specified now, without warnings, and Warning
\* otherwise.
Expected(o) ==
  LET WarningsOf(p) ==
        UNION {hosts[h].warnings : h \in {g \in DOMAIN hosts : hosts[g].obj = p}}
      Served == {p \in InService : Key(p) = Key(o) /\ SpecOf(p) = SpecOf(o)}
  IN IF ~o.valid THEN "Invalid"
     ELSE IF \E p \in Served : WarningsOf(p) = {} THEN "Valid" ELSE "Warning"

\* Once everything is synced and no reload has failed, the state that was
\* reported last of each object is the one it should show, and the API server
\* has it, unless the write was skipped: the copy in the lister showed that state
\* when it was reported, and was older than what the API server had
\* (UpdateVirtualServerStatus and its siblings in status.go).
StatusTruthful ==
  Quiescent /\ failures = 0 =>
    \A o \in cluster \cap (Objects \ Ingresses) :
      o.class => /\ told[Key(o)] = Expected(o)
                 /\ status[Key(o)] = told[Key(o)] \/ Key(o) \in skipped

\* The same without that exception, for the status is the "current state of the
\* resource" (reporting-resources-status.md).  It fails.
StatusCurrent ==
  Quiescent /\ failures = 0 =>
    \A o \in cluster \cap (Objects \ Ingresses) :
      o.class => status[Key(o)] = Expected(o)

\* Also when reloads fail: an object that is shown as Valid is part of the
\* config that NGINX runs, in its current version, unless a later report on it
\* was skipped.
ValidMeansRunning ==
  Quiescent =>
    \A o \in cluster \cap (VirtualServers \cup TransportServers) :
      o.class /\ status[Key(o)] = "Valid" /\ Key(o) \notin skipped =>
        \E f \in running : f.key = Key(o) /\ f.spec = ConfigSpec(o)

\* The status updates of the controller come back to it as events; the loop
\* they close dies out once the users stop editing.
Quiesces == <>[]Quiescent
=============================================================================
