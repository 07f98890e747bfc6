----------------------------- MODULE Lifecycle -----------------------------
(***************************************************************************)
(* The life of the Ingress Controller process: LoadBalancerController.Run  *)
(* and Stop and the sync loop (internal/k8s/controller.go, task_queue.go), *)
(* the event handlers (handlers.go) and the termination handler            *)
(* (cmd/nginx-ingress/main.go).                                            *)
(*                                                                         *)
(* Its goroutines are: the informers, one for each task here, which keep   *)
(* the listers up to date and notify the handlers later; Run; the worker,  *)
(* which wait.Until calls; and handleTermination.  A version 0 stands for  *)
(* an object that does not exist, and a new version for a difference that  *)
(* the UpdateFunc of the kind does not filter out.  What a sync does to    *)
(* the Configuration is the subject of Configuration and Controller: here  *)
(* it loads the version that the lister has.                               *)
(***************************************************************************)
EXTENDS WorkQueue, Naturals, Sequences

CONSTANTS
  Tasks,      \* records [kind, name]
  MaxEdits,   \* bounds the versions of the objects
  MaxErrors   \* bounds the syncs that fail and are requeued

VARIABLES
  cluster,    \* task |-> the version the API server has
  edits,      \* the newest version
  listed,     \* the tasks whose informer has done its initial list
  lister,     \* task |-> the version in the store of its informer
  pending,    \* task |-> the notifications its handler has not seen yet
  queue,      \* syncQueue
  run,        \* where Run is
  cancelled,  \* lbc.ctx is done
  worker,     \* where the worker goroutine is
  current,    \* the task it has got
  workerDone, \* the channel is closed
  loaded,     \* task |-> the version in the NGINX config
  synced,     \* the tasks that have been synced at all
  errors,
  isNginxReady,
  term,       \* where handleTermination is
  nginx,      \* "up" or "down"
  panic

informers == <<cluster, edits, listed, lister, pending>>
syncing   == <<worker, current, workerDone, loaded, synced, errors, isNginxReady>>
stopping  == <<term, nginx>>
vars == <<informers, queue, run, cancelled, syncing, stopping, panic>>

ASSUME LifecycleAssumption == MaxEdits \in Nat /\ MaxErrors \in Nat

Init ==
  /\ cluster \in [Tasks -> {0, 1}]
  /\ edits = 1
  /\ listed = {}
  /\ lister = [t \in Tasks |-> 0]
  /\ pending = [t \in Tasks |-> <<>>]
  /\ queue = NewQueue
  /\ run = "new" /\ cancelled = FALSE
  /\ worker = "none" /\ current \in Tasks /\ workerDone = FALSE
  /\ loaded = [t \in Tasks |-> 0] /\ synced = {} /\ errors = 0
  /\ isNginxReady = FALSE
  /\ term = "watching" /\ nginx = "up"
  /\ panic = "none"

\* os.Exit, or a panic: nothing runs any more.
Alive == term # "exited" /\ panic = "none"

-----------------------------------------------------------------------------
(* The API server and the informers *)

\* A user creates, changes or deletes an object.
Edit(t) ==
  /\ Alive /\ edits < MaxEdits
  /\ edits' = edits + 1
  /\ \E v \in {0, edits + 1} \ {cluster[t]} : cluster' = [cluster EXCEPT ![t] = v]
  /\ UNCHANGED <<listed, lister, pending, queue, run, cancelled, syncing, stopping, panic>>

Notify(t, event) == pending' = [pending EXCEPT ![t] = Append(@, event)]

\* The initial list: HasSynced holds as soon as the store has its objects.
List(t) ==
  /\ Alive /\ run # "new" /\ ~cancelled /\ t \notin listed
  /\ listed' = listed \cup {t}
  /\ lister' = [lister EXCEPT ![t] = cluster[t]]
  /\ IF cluster[t] = 0 THEN UNCHANGED pending ELSE Notify(t, "object")
  /\ UNCHANGED <<cluster, edits, queue, run, cancelled, syncing, stopping, panic>>

\* The informer learns the current version, by a watch event or by listing
\* again after the watch broke.  A deletion found by listing comes as a
\* cache.DeletedFinalStateUnknown.
Observe(t) ==
  /\ Alive /\ t \in listed /\ ~cancelled /\ lister[t] # cluster[t]
  /\ lister' = [lister EXCEPT ![t] = cluster[t]]
  /\ \/ Notify(t, "object")
     \/ cluster[t] = 0 /\ Notify(t, "tombstone")
  /\ UNCHANGED <<cluster, edits, listed, queue, run, cancelled, syncing, stopping, panic>>

-----------------------------------------------------------------------------
(* The handlers *)

\* The kinds whose DeleteFunc enqueues what it was given, not the object it
\* took out of a DeletedFinalStateUnknown: newTask does not know that type.
EnqueueAsGiven ==
  {"ConfigMap", "Endpoints", "Ingress", "Secret",
   "APPolicy", "APLogConf", "APUserSig"}

Enqueue(t, event) ==
  IF event = "tombstone" /\ t.kind \in EnqueueAsGiven THEN queue ELSE Add(queue, t)

Handle(t) ==
  /\ Alive /\ pending[t] # <<>>
  /\ pending' = [pending EXCEPT ![t] = Tail(@)]
  /\ queue' = Enqueue(t, Head(pending[t]))
  /\ UNCHANGED <<cluster, edits, listed, lister, run, cancelled, syncing, stopping, panic>>

-----------------------------------------------------------------------------
(* Run *)

RunStarts ==
  /\ Alive /\ run = "new"
  /\ run' = "waiting"
  /\ UNCHANGED <<informers, queue, cancelled, syncing, stopping, panic>>

\* WaitForCacheSync polls the caches before it looks at the context.
CachesSynced ==
  /\ Alive /\ run = "waiting" /\ listed = Tasks
  /\ run' = "started"
  /\ worker' = "spawned"
  /\ UNCHANGED <<informers, queue, cancelled, current, workerDone, loaded, synced,
                 errors, isNginxReady, stopping, panic>>

RunReturns ==
  /\ Alive /\ run \in {"waiting", "started"} /\ cancelled
  /\ run' = "returned"
  /\ UNCHANGED <<informers, queue, cancelled, syncing, stopping, panic>>

-----------------------------------------------------------------------------
(* The worker *)

\* wait.Until calls the worker, again when it returns, until the context is
\* done: it may be done before the first call.
Until ==
  /\ Alive /\ worker \in {"spawned", "returned"}
  /\ worker' = IF cancelled THEN "finished" ELSE "get"
  /\ UNCHANGED <<informers, queue, run, cancelled, current, workerDone, loaded, synced,
                 errors, isNginxReady, stopping, panic>>

GetTask ==
  /\ Alive /\ worker = "get" /\ CanGet(queue)
  /\ current' = Head(queue.items)
  /\ queue' = Get(queue)
  /\ worker' = "sync"
  /\ UNCHANGED <<informers, run, cancelled, workerDone, loaded, synced, errors,
                 isNginxReady, stopping, panic>>

\* Mutant: the worker returns without closing the channel.
QuitSilently ==
  /\ Alive /\ worker = "get" /\ MustQuit(queue)
  /\ worker' = "returned"
  /\ UNCHANGED <<informers, queue, run, cancelled, current, workerDone, loaded, synced,
                 errors, isNginxReady, stopping, panic>>

\* Closing a closed channel panics.
Quit ==
  /\ Alive /\ worker = "get" /\ MustQuit(queue)
  /\ worker' = "returned"
  /\ workerDone' = TRUE
  /\ panic' = IF workerDone THEN "close of closed channel" ELSE panic
  /\ UNCHANGED <<informers, queue, run, cancelled, current, loaded, synced, errors,
                 isNginxReady, stopping>>

\* sync reads the lister when it runs, not when the task was enqueued.
Sync ==
  /\ Alive /\ worker = "sync"
  /\ loaded' = [loaded EXCEPT ![current] = lister[current]]
  /\ synced' = synced \cup {current}
  /\ worker' = "done"
  /\ UNCHANGED <<informers, queue, run, cancelled, current, workerDone, errors,
                 isNginxReady, stopping, panic>>

\* The lister returned an error.
SyncError ==
  /\ Alive /\ worker = "sync" /\ errors < MaxErrors
  /\ errors' = errors + 1
  /\ queue' = Add(queue, current)
  /\ worker' = "done"
  /\ UNCHANGED <<informers, run, cancelled, current, workerDone, loaded, synced,
                 isNginxReady, stopping, panic>>

\* The end of sync sets isNginxReady, then the worker calls Done.
FinishSync ==
  /\ Alive /\ worker = "done"
  /\ isNginxReady' = (isNginxReady \/ queue.items = <<>>)
  /\ queue' = Done(queue, current)
  /\ worker' = "get"
  /\ UNCHANGED <<informers, run, cancelled, current, workerDone, loaded, synced,
                 errors, stopping, panic>>

-----------------------------------------------------------------------------
(* handleTermination *)

NginxDies ==
  /\ Alive /\ nginx = "up" /\ term = "watching"
  /\ nginx' = "down"
  /\ UNCHANGED <<informers, queue, run, cancelled, syncing, term, panic>>

\* A SIGTERM, or NGINX exited.
Terminate ==
  /\ Alive /\ term = "watching"
  /\ term' = "stop"
  /\ UNCHANGED <<informers, queue, run, cancelled, syncing, nginx, panic>>

\* Mutant: the context is not cancelled before the queue is shut down.
CancelMissing ==
  /\ Alive /\ term = "stop"
  /\ term' = "shutdown"
  /\ UNCHANGED <<informers, queue, run, cancelled, syncing, nginx, panic>>

\* Stop: lbc.cancel is nil until Run has set it.
Cancel ==
  /\ Alive /\ term = "stop"
  /\ IF run = "new"
       THEN panic' = "nil cancel" /\ UNCHANGED <<cancelled, term>>
       ELSE cancelled' = TRUE /\ term' = "shutdown" /\ UNCHANGED panic
  /\ UNCHANGED <<informers, queue, run, syncing, nginx>>

\* Mutant: Shutdown does not wait for the worker.
ShutdownQueueOnly ==
  /\ Alive /\ term = "shutdown"
  /\ queue' = ShutDown(queue)
  /\ term' = "quit"
  /\ UNCHANGED <<informers, run, cancelled, syncing, nginx, panic>>

ShutdownQueue ==
  /\ Alive /\ term = "shutdown"
  /\ queue' = ShutDown(queue)
  /\ term' = "wait"
  /\ UNCHANGED <<informers, run, cancelled, syncing, nginx, panic>>

WorkerAcks ==
  /\ Alive /\ term = "wait" /\ workerDone
  /\ term' = "quit"
  /\ UNCHANGED <<informers, queue, run, cancelled, syncing, nginx, panic>>

\* NGINX is told to quit, unless it has exited already; then the process exits.
Exit ==
  /\ Alive /\ term = "quit"
  /\ nginx' = "down"
  /\ term' = "exited"
  /\ UNCHANGED <<informers, queue, run, cancelled, syncing, panic>>

-----------------------------------------------------------------------------
Informers == \E t \in Tasks : List(t) \/ Observe(t) \/ Handle(t)
Runs == RunStarts \/ CachesSynced \/ RunReturns
Worker == Until \/ GetTask \/ Quit \/ Sync \/ SyncError \/ FinishSync
Stops == Cancel \/ ShutdownQueue \/ WorkerAcks \/ Exit

Next ==
  \/ \E t \in Tasks : Edit(t)
  \/ Informers \/ Runs \/ Worker
  \/ NginxDies \/ Terminate \/ Stops

\* Every goroutine is scheduled, an informer whose watch broke lists again,
\* and the exit of NGINX is noticed; edits and signals need never happen.
Fairness ==
  /\ \A t \in Tasks : /\ WF_vars(List(t)) /\ WF_vars(Observe(t))
                      /\ WF_vars(Handle(t))
  /\ WF_vars(Runs) /\ WF_vars(Worker) /\ WF_vars(Stops)
  /\ WF_vars(nginx = "down" /\ Terminate)

Spec == Init /\ [][Next]_vars
FairSpec == Spec /\ Fairness

-----------------------------------------------------------------------------
(* Properties *)

\* The work queue is consistent: every queued task is dirty and queued once,
\* and only the task of the running sync is processing.
QueueOK ==
  /\ queue \in Queues(Tasks)
  /\ WellFormed(queue)
  /\ queue.processing = IF worker \in {"sync", "done"} THEN {current} ELSE {}

InformersOK ==
  /\ cluster \in [Tasks -> Nat] /\ edits \in Nat
  /\ lister \in [Tasks -> Nat] /\ listed \subseteq Tasks
  /\ pending \in [Tasks -> Seq({"object", "tombstone"})]

\* There is a worker only after Run has started it.
ProcessOK ==
  /\ run \in {"new", "waiting", "started", "returned"} /\ cancelled \in BOOLEAN
  /\ run \in {"new", "waiting"} => worker = "none"
  /\ worker \in {"none", "spawned", "get", "sync", "done", "returned", "finished"}
  /\ current \in Tasks /\ workerDone \in BOOLEAN
  /\ loaded \in [Tasks -> Nat] /\ synced \subseteq Tasks
  /\ errors \in Nat /\ isNginxReady \in BOOLEAN
  /\ term \in {"watching", "stop", "shutdown", "wait", "quit", "exited"}
  /\ nginx \in {"up", "down"}
  /\ panic \in {"none", "nil cancel", "close of closed channel"}

\* The types of the variables, and the consistency of the work queue.
TypeOK == QueueOK /\ InformersOK /\ ProcessOK

\* However edits, notifications and syncs interleave, an update is never
\* forgotten: while NGINX does not run the version the lister has, either the
\* handler has yet to hear of it, or the task is marked in the queue (also
\* when it was enqueued during its own sync), or it is about to be synced.
NoLostUpdate ==
  \A t \in Tasks :
    \/ loaded[t] = lister[t]
    \/ pending[t] # <<>>
    \/ t \in queue.dirty
    \/ worker = "sync" /\ current = t
    \/ queue.shuttingDown

\* wait.Until never calls the worker again once it has quit: the second call
\* would close workerDone twice.  It rests on Stop cancelling the context
\* before it shuts down the queue.
WorkerDoneClosedOnce == panic # "close of closed channel"

\* NGINX is told to quit only when no sync can be reloading it, and every
\* task enqueued before the shutdown has been synced.
QuietBeforeQuit ==
  term \in {"quit", "exited"} =>
    worker \in {"returned", "finished"} /\ queue.dirty = {}

\* Unless the process is stopped, the NGINX config catches up with the API
\* server once the edits stop.
Converges ==
  <>[](term # "watching" \/ \A t \in Tasks : loaded[t] = cluster[t])

\* A shutdown that finds the worker running comes to its end.
RunningShutdownCompletes ==
  (term # "watching" /\ worker \in {"get", "sync", "done"}) ~> term = "exited"

\* "The endpoint returns a success code when NGINX has loaded all the config
\* after the startup" (-ready-status): when isNginxReady is set, every object
\* that the initial lists found has been synced.
ReadyWhenLoaded ==
  [][~isNginxReady /\ isNginxReady' =>
       \A t \in listed : lister[t] = 1 => t \in synced]_vars
=============================================================================
