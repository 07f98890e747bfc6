-------------------------- MODULE LifecycleProofs --------------------------
(***************************************************************************)
(* Proofs about Lifecycle, for any tasks, edits and errors: the work queue *)
(* stays consistent, no update is lost, and the shutdown order is safe.    *)
(***************************************************************************)
EXTENDS Lifecycle, OperatorProofs

-----------------------------------------------------------------------------
(* Types *)

LEMMA TypeInit == Init => TypeOK
<1> SUFFICES ASSUME Init PROVE TypeOK
  OBVIOUS
<1>1. QueueOK
  BY DEF Init, QueueOK, NewQueue, Queues, WellFormed
<1>2. InformersOK
  BY DEF Init, InformersOK
<1>3. ProcessOK
  BY DEF Init, ProcessOK
<1> QED BY <1>1, <1>2, <1>3 DEF TypeOK

\* Steps that leave the queue alone, and what its consistency depends on.
LEMMA SameQueue ==
  ASSUME QueueOK, queue' = queue, current' = current,
         (worker' \in {"sync", "done"}) <=> (worker \in {"sync", "done"})
  PROVE  QueueOK'
  BY DEF QueueOK, Queues, WellFormed

LEMMA QueueStep == TypeOK /\ [Next]_vars => QueueOK'
<1> SUFFICES ASSUME TypeOK, [Next]_vars PROVE QueueOK'
  OBVIOUS
<1> USE DEF informers, syncing, stopping
<1>0. QueueOK /\ queue \in Queues(Tasks) /\ WellFormed(queue) /\ current \in Tasks
  BY DEF TypeOK, QueueOK, ProcessOK
<1>1. ASSUME NEW t \in Tasks, Handle(t) PROVE QueueOK'
  <2>1. queue' \in Queues(Tasks) /\ WellFormed(queue') /\ queue'.processing = queue.processing
    BY <1>0, <1>1, AddOK DEF Handle, Enqueue
  <2> QED BY <1>0, <1>1, <2>1 DEF Handle, QueueOK
<1>2. CASE GetTask
  BY <1>0, <1>2, GetOK DEF GetTask, QueueOK
<1>3. CASE SyncError
  <2>1. queue' \in Queues(Tasks) /\ WellFormed(queue') /\ queue'.processing = queue.processing
    BY <1>0, <1>3, AddOK DEF SyncError
  <2> QED BY <1>0, <1>3, <2>1 DEF SyncError, QueueOK
<1>4. CASE FinishSync
  BY <1>0, <1>4, DoneOK DEF FinishSync, QueueOK
<1>5. CASE ShutdownQueue
  BY <1>0, <1>5, ShutDownOK DEF ShutdownQueue, QueueOK
<1>6. CASE /\ UNCHANGED <<queue, current>>
           /\ (worker' \in {"sync", "done"}) <=> (worker \in {"sync", "done"})
  BY <1>0, <1>6, SameQueue
<1>7. \/ \E t \in Tasks : Handle(t)
      \/ GetTask \/ SyncError \/ FinishSync \/ ShutdownQueue
      \/ /\ UNCHANGED <<queue, current>>
         /\ (worker' \in {"sync", "done"}) <=> (worker \in {"sync", "done"})
  BY DEF Next, Informers, Runs, Worker, Stops, Edit, List, Observe, RunStarts, CachesSynced,
         RunReturns, Until, Quit, Sync, NginxDies, Terminate, Cancel, WorkerAcks, Exit, vars,
         TypeOK, ProcessOK
<1> QED BY <1>1, <1>2, <1>3, <1>4, <1>5, <1>6, <1>7

LEMMA InformersStep == InformersOK /\ [Next]_vars => InformersOK'
<1> SUFFICES ASSUME InformersOK, [Next]_vars PROVE InformersOK'
  OBVIOUS
<1> USE DEF informers, syncing, stopping
<1>0. ASSUME NEW t \in Tasks, NEW e \in {"object", "tombstone"}, Notify(t, e)
      PROVE  pending' \in [Tasks -> Seq({"object", "tombstone"})]
  <2>1. pending[t] \in Seq({"object", "tombstone"})
    BY DEF InformersOK
  <2>2. Append(pending[t], e) \in Seq({"object", "tombstone"})
    BY <2>1
  <2> QED BY <1>0, <2>2 DEF Notify, InformersOK
<1>1. ASSUME NEW t \in Tasks, Edit(t) PROVE InformersOK'
  <2>1. PICK v \in {0, edits + 1} : cluster' = [cluster EXCEPT ![t] = v]
    BY <1>1 DEF Edit
  <2>2. v \in Nat /\ edits' \in Nat
    BY <1>1 DEF InformersOK, Edit
  <2> QED BY <1>1, <2>1, <2>2 DEF Edit, InformersOK
<1>2. ASSUME NEW t \in Tasks, List(t) PROVE InformersOK'
  <2>1. pending' \in [Tasks -> Seq({"object", "tombstone"})]
    BY <1>0, <1>2 DEF List, InformersOK
  <2> QED BY <1>2, <2>1 DEF List, InformersOK
<1>3. ASSUME NEW t \in Tasks, Observe(t) PROVE InformersOK'
  <2>1. pending' \in [Tasks -> Seq({"object", "tombstone"})]
    BY <1>0, <1>3 DEF Observe
  <2> QED BY <1>3, <2>1 DEF Observe, InformersOK
<1>4. ASSUME NEW t \in Tasks, Handle(t) PROVE InformersOK'
  <2>1. pending[t] \in Seq({"object", "tombstone"}) /\ pending[t] # <<>>
    BY <1>4 DEF Handle, InformersOK
  <2>2. Tail(pending[t]) \in Seq({"object", "tombstone"})
    BY <2>1
  <2> QED BY <1>4, <2>2 DEF Handle, InformersOK
<1>5. CASE UNCHANGED informers
  BY <1>5 DEF InformersOK
<1>6. (\E t \in Tasks : Edit(t) \/ List(t) \/ Observe(t) \/ Handle(t)) \/ UNCHANGED informers
  BY DEF Next, Informers, Runs, Worker, Stops, RunStarts, CachesSynced, RunReturns, Until,
         GetTask, Quit, Sync, SyncError, FinishSync, NginxDies, Terminate, Cancel,
         ShutdownQueue, WorkerAcks, Exit, vars
<1> QED BY <1>1, <1>2, <1>3, <1>4, <1>5, <1>6

LEMMA ProcessStep == TypeOK /\ [Next]_vars => ProcessOK'
<1> SUFFICES ASSUME TypeOK, [Next]_vars PROVE ProcessOK'
  OBVIOUS
<1> USE DEF informers, syncing, stopping
<1>0. ProcessOK /\ lister \in [Tasks -> Nat]
  BY DEF TypeOK, InformersOK
<1>1. CASE UNCHANGED <<run, cancelled, syncing, stopping, panic>>
  <2>1. /\ run' = run /\ cancelled' = cancelled /\ worker' = worker /\ current' = current
        /\ workerDone' = workerDone /\ loaded' = loaded /\ synced' = synced
        /\ errors' = errors /\ isNginxReady' = isNginxReady
        /\ term' = term /\ nginx' = nginx /\ panic' = panic
    BY <1>1
  <2>2. /\ run' \in {"new", "waiting", "started", "returned"} /\ cancelled' \in BOOLEAN
        /\ run' \in {"new", "waiting"} => worker' = "none"
        /\ worker' \in {"none", "spawned", "get", "sync", "done", "returned", "finished"}
    BY <1>0, <2>1 DEF ProcessOK
  <2>3. /\ current' \in Tasks /\ workerDone' \in BOOLEAN
        /\ loaded' \in [Tasks -> Nat] /\ synced' \subseteq Tasks
        /\ errors' \in Nat /\ isNginxReady' \in BOOLEAN
    BY <1>0, <2>1 DEF ProcessOK
  <2>4. /\ term' \in {"watching", "stop", "shutdown", "wait", "quit", "exited"}
        /\ nginx' \in {"up", "down"}
        /\ panic' \in {"none", "nil cancel", "close of closed channel"}
    BY <1>0, <2>1 DEF ProcessOK
  <2> QED
    BY <2>2, <2>3, <2>4 DEF ProcessOK
<1>2. ASSUME NEW t \in Tasks, Edit(t) \/ List(t) \/ Observe(t) \/ Handle(t) PROVE ProcessOK'
  <2>1. CASE Edit(t)
    BY <1>1, <2>1 DEF Edit
  <2>2. CASE List(t)
    BY <1>1, <2>2 DEF List
  <2>3. CASE Observe(t)
    BY <1>1, <2>3 DEF Observe
  <2>4. CASE Handle(t)
    BY <1>1, <2>4 DEF Handle
  <2> QED
    BY <1>2, <2>1, <2>2, <2>3, <2>4
<1>3. CASE Runs
  <2>1. CASE RunStarts
    BY <1>0, <2>1 DEF RunStarts, ProcessOK
  <2>2. CASE CachesSynced
    BY <1>0, <2>2 DEF CachesSynced, ProcessOK
  <2>3. CASE RunReturns
    BY <1>0, <2>3 DEF RunReturns, ProcessOK
  <2> QED
    BY <1>3, <2>1, <2>2, <2>3 DEF Runs
<1>4. CASE Until \/ Quit
  <2>1. CASE Until
    BY <1>0, <2>1 DEF Until, ProcessOK
  <2>2. CASE Quit
    BY <1>0, <2>2 DEF Quit, ProcessOK
  <2> QED
    BY <1>4, <2>1, <2>2
<1>5. CASE GetTask
  <2>1. current' \in Tasks
    BY <1>5, GetOK DEF GetTask, TypeOK, QueueOK
  <2> QED BY <1>0, <1>5, <2>1 DEF GetTask, ProcessOK
<1>6. CASE Sync
  BY <1>0, <1>6 DEF Sync, ProcessOK
<1>7. CASE SyncError
  <2>1. errors \in Nat /\ errors' = errors + 1
    BY <1>0, <1>7 DEF SyncError, ProcessOK
  <2>2. errors' \in Nat
    BY <2>1
  <2> QED BY <1>0, <1>7, <2>2 DEF SyncError, ProcessOK
<1>8. CASE FinishSync
  BY <1>0, <1>8 DEF FinishSync, ProcessOK
<1>9. CASE NginxDies \/ Terminate \/ Stops
  BY <1>0, <1>9 DEF NginxDies, Terminate, Stops, Cancel, ShutdownQueue, WorkerAcks, Exit,
                    ProcessOK
<1>10. CASE UNCHANGED vars
  BY <1>1, <1>10 DEF vars
<1> QED
  BY <1>2, <1>3, <1>4, <1>5, <1>6, <1>7, <1>8, <1>9, <1>10 DEF Next, Informers, Worker

LEMMA TypeStep == TypeOK /\ [Next]_vars => TypeOK'
  BY QueueStep, InformersStep, ProcessStep DEF TypeOK

\* The state is always well typed, and the work queue consistent: a task is
\* queued once, exactly when it is dirty and not the task of the running sync.
THEOREM LifecycleType == Spec => []TypeOK
  BY TypeInit, TypeStep, PTL DEF Spec
-----------------------------------------------------------------------------
(* No lost update *)

\* NoLostUpdate needs to know that a lister is empty before its first list.
NotListed == \A t \in Tasks \ listed : lister[t] = 0

\* The handlers of these tasks enqueue every notification.
AllEnqueue == \A t \in Tasks : t.kind \notin EnqueueAsGiven

LEMMA NotEmpty ==
  \A s \in Seq({"object", "tombstone"}) : \A e \in {"object", "tombstone"} : Append(s, e) # <<>>
  OBVIOUS

LEMMA NotListedStep == TypeOK /\ NotListed /\ [Next]_vars => NotListed'
<1> SUFFICES ASSUME TypeOK, NotListed, [Next]_vars PROVE NotListed'
  OBVIOUS
<1> USE DEF informers, syncing, stopping
<1>1. ASSUME NEW t \in Tasks, List(t) PROVE NotListed'
  BY <1>1 DEF List, NotListed, TypeOK, InformersOK
<1>2. ASSUME NEW t \in Tasks, Observe(t) PROVE NotListed'
  BY <1>2 DEF Observe, NotListed, TypeOK, InformersOK
<1>3. CASE UNCHANGED <<listed, lister>>
  BY <1>3 DEF NotListed
<1>4. UNCHANGED <<listed, lister>> \/ \E t \in Tasks : List(t) \/ Observe(t)
  BY DEF Next, Informers, Runs, Worker, Stops, Edit, Handle, RunStarts, CachesSynced,
         RunReturns, Until, GetTask, Quit, Sync, SyncError, FinishSync, NginxDies,
         Terminate, Cancel, ShutdownQueue, WorkerAcks, Exit, vars
<1> QED BY <1>1, <1>2, <1>3, <1>4

LEMMA NoLostUpdateStep ==
  ASSUME AllEnqueue
  PROVE  TypeOK /\ NotListed /\ NoLostUpdate /\ [Next]_vars => NoLostUpdate'
<1> SUFFICES ASSUME TypeOK, NotListed, NoLostUpdate, [Next]_vars PROVE NoLostUpdate'
  OBVIOUS
<1> USE DEF informers, syncing, stopping
<1>0. QueueOK
  BY DEF TypeOK
<1>1. ASSUME NEW t \in Tasks, List(t) PROVE NoLostUpdate'
  <2>1. CASE cluster[t] = 0
    <3>1. lister' = lister /\ pending' = pending
      BY <1>1, <2>1 DEF List, NotListed, TypeOK, InformersOK
    <3> QED BY <1>1, <3>1 DEF List, NoLostUpdate
  <2>2. CASE cluster[t] # 0
    <3>0. pending[t] \in Seq({"object", "tombstone"}) /\ DOMAIN pending = Tasks /\ DOMAIN lister = Tasks
      BY DEF TypeOK, InformersOK
    <3>1. pending'[t] # <<>> /\ \A u \in Tasks \ {t} : pending'[u] = pending[u] /\ lister'[u] = lister[u]
      BY <1>1, <2>2, <3>0, NotEmpty DEF List, Notify
    <3> QED BY <1>1, <3>1 DEF List, NoLostUpdate
  <2> QED BY <2>1, <2>2
<1>2. ASSUME NEW t \in Tasks, Observe(t) PROVE NoLostUpdate'
  <2>0. pending[t] \in Seq({"object", "tombstone"}) /\ DOMAIN pending = Tasks /\ DOMAIN lister = Tasks
    BY DEF TypeOK, InformersOK
  <2>1. pending'[t] # <<>> /\ \A u \in Tasks \ {t} : pending'[u] = pending[u] /\ lister'[u] = lister[u]
    BY <1>2, <2>0, NotEmpty DEF Observe, Notify
  <2> QED BY <1>2, <2>1 DEF Observe, NoLostUpdate
<1>3. ASSUME NEW t \in Tasks, Handle(t) PROVE NoLostUpdate'
  <2>1. queue' = Add(queue, t)
    BY <1>3 DEF Handle, Enqueue, AllEnqueue
  <2>2. /\ queue.dirty \subseteq queue'.dirty
        /\ queue.shuttingDown \/ t \in queue'.dirty
        /\ queue'.shuttingDown = queue.shuttingDown
    BY <1>0, <2>1, AddOK DEF QueueOK
  <2>3. \A u \in Tasks \ {t} : pending'[u] = pending[u]
    BY <1>3 DEF Handle, TypeOK, InformersOK
  <2> QED BY <1>3, <2>2, <2>3 DEF Handle, NoLostUpdate
<1>4. CASE GetTask
  <2>1. queue'.dirty = queue.dirty \ {current'} /\ queue'.shuttingDown = queue.shuttingDown
    BY <1>0, <1>4, GetOK DEF GetTask, QueueOK
  <2> QED BY <1>4, <2>1 DEF GetTask, NoLostUpdate
<1>5. CASE Sync
  BY <1>5 DEF Sync, NoLostUpdate, TypeOK, ProcessOK
<1>6. CASE SyncError
  <2>0. queue \in Queues(Tasks) /\ WellFormed(queue) /\ current \in Tasks
    BY <1>0 DEF QueueOK, TypeOK, ProcessOK
  <2>1. /\ queue.dirty \subseteq queue'.dirty
        /\ queue.shuttingDown \/ current \in queue'.dirty
        /\ queue'.shuttingDown = queue.shuttingDown
    BY <1>6, <2>0, AddOK DEF SyncError
  <2> QED BY <1>6, <2>1 DEF SyncError, NoLostUpdate
<1>7. CASE FinishSync
  <2>0. queue \in Queues(Tasks) /\ WellFormed(queue) /\ current \in Tasks
    BY <1>0 DEF QueueOK, TypeOK, ProcessOK
  <2>1. queue.processing = {current}
    BY <1>0, <1>7 DEF QueueOK, FinishSync
  <2>2. queue'.dirty = queue.dirty /\ queue'.shuttingDown = queue.shuttingDown
    BY <1>7, <2>0, <2>1, DoneOK DEF FinishSync
  <2> QED BY <1>7, <2>2 DEF FinishSync, NoLostUpdate
<1>8. CASE ShutdownQueue
  BY <1>0, <1>8, ShutDownOK DEF ShutdownQueue, NoLostUpdate, QueueOK
<1>9. CASE UNCHANGED <<lister, pending, queue, current, loaded>> /\ worker # "sync"
  BY <1>9 DEF NoLostUpdate
<1>10. CASE UNCHANGED <<lister, pending, queue, current, loaded, worker>>
  BY <1>10 DEF NoLostUpdate
<1>11. \/ \E t \in Tasks : List(t) \/ Observe(t) \/ Handle(t)
       \/ GetTask \/ Sync \/ SyncError \/ FinishSync \/ ShutdownQueue
       \/ UNCHANGED <<lister, pending, queue, current, loaded>> /\ worker # "sync"
       \/ UNCHANGED <<lister, pending, queue, current, loaded, worker>>
  BY DEF Next, Informers, Runs, Worker, Stops, Edit, RunStarts, CachesSynced, RunReturns,
         Until, Quit, NginxDies, Terminate, Cancel, WorkerAcks, Exit, vars,
         TypeOK, ProcessOK
<1> QED
  BY <1>1, <1>2, <1>3, <1>4, <1>5, <1>6, <1>7, <1>8, <1>9, <1>10, <1>11

\* For every set of objects whose handlers enqueue what they are told, every
\* interleaving of informers, handlers and worker, and every requeue: an
\* update that NGINX does not run yet is on its way.
THEOREM NoLostUpdateInvariant == ASSUME AllEnqueue PROVE Spec => []NoLostUpdate
<1>1. Init => NotListed /\ NoLostUpdate
  BY DEF Init, NotListed, NoLostUpdate
<1> QED
  BY <1>1, TypeInit, TypeStep, NotListedStep, NoLostUpdateStep, PTL DEF Spec

-----------------------------------------------------------------------------
(* Shutdown *)

\* Why the worker is not called again: the order in which Stop cancels the
\* context, shuts down the queue and waits.
StopOrder ==
  /\ term \in {"shutdown", "wait", "quit", "exited"} => cancelled
  /\ queue.shuttingDown => term \in {"wait", "quit", "exited"}
  /\ worker = "returned" => cancelled /\ workerDone
  /\ workerDone => /\ worker \in {"returned", "finished"}
                   /\ queue.dirty = {} /\ queue.shuttingDown
  /\ term \in {"quit", "exited"} => workerDone
  /\ WorkerDoneClosedOnce

LEMMA StopOrderStep == TypeOK /\ StopOrder /\ [Next]_vars => StopOrder'
<1> SUFFICES ASSUME TypeOK, StopOrder, [Next]_vars PROVE StopOrder'
  OBVIOUS
<1> USE DEF informers, syncing, stopping, WorkerDoneClosedOnce
<1>0. QueueOK
  BY DEF TypeOK
<1>1. CASE UNCHANGED <<queue, cancelled, worker, workerDone, term, panic>>
  BY <1>1 DEF StopOrder
<1>2. ASSUME NEW t \in Tasks, Edit(t) \/ List(t) \/ Observe(t) PROVE StopOrder'
  BY <1>1, <1>2 DEF Edit, List, Observe
<1>3. ASSUME NEW t \in Tasks, Handle(t) PROVE StopOrder'
  <2>1. queue.shuttingDown => queue' = queue
    BY <1>0, <1>3, AddOK DEF Handle, Enqueue, QueueOK
  <2>2. queue'.shuttingDown = queue.shuttingDown
    BY <1>0, <1>3, AddOK DEF Handle, Enqueue, QueueOK
  <2> QED BY <1>3, <2>1, <2>2 DEF Handle, StopOrder
<1>4. CASE RunStarts \/ RunReturns \/ NginxDies
  BY <1>1, <1>4 DEF RunStarts, RunReturns, NginxDies
<1>5. CASE CachesSynced
  BY <1>5 DEF CachesSynced, StopOrder, TypeOK, ProcessOK
<1>6. CASE Until
  BY <1>6 DEF Until, StopOrder
<1>7. CASE GetTask
  BY <1>0, <1>7, GetOK DEF GetTask, StopOrder, QueueOK
<1>8. CASE Quit
  <2>1. queue.dirty = {} /\ queue.shuttingDown
    BY <1>0, <1>8, QuitOK DEF Quit, QueueOK
  <2> QED BY <1>8, <2>1 DEF Quit, StopOrder
<1>9. CASE Sync
  BY <1>9 DEF Sync, StopOrder
<1>10. CASE SyncError \/ FinishSync
  <2>0. queue \in Queues(Tasks) /\ WellFormed(queue) /\ current \in Tasks
    BY <1>0 DEF QueueOK, TypeOK, ProcessOK
  <2>1. queue.processing = {current} /\ ~workerDone
    BY <1>0, <1>10 DEF QueueOK, FinishSync, SyncError, StopOrder
  <2>2. queue'.shuttingDown = queue.shuttingDown
    BY <1>10, <2>0, <2>1, AddOK, DoneOK DEF SyncError, FinishSync
  <2>3. /\ UNCHANGED <<cancelled, workerDone, term, panic>>
        /\ worker' \in {"done", "get"}
    BY <1>10 DEF SyncError, FinishSync
  <2> QED BY <2>1, <2>2, <2>3 DEF StopOrder
<1>11. CASE Terminate
  BY <1>11 DEF Terminate, StopOrder
<1>12. CASE Cancel
  BY <1>12 DEF Cancel, StopOrder
<1>13. CASE ShutdownQueue
  BY <1>0, <1>13, ShutDownOK DEF ShutdownQueue, StopOrder, QueueOK
<1>14. CASE WorkerAcks \/ Exit
  BY <1>14 DEF WorkerAcks, Exit, StopOrder
<1>15. CASE UNCHANGED vars
  BY <1>1, <1>15 DEF vars
<1> QED
  BY <1>2, <1>3, <1>4, <1>5, <1>6, <1>7, <1>8, <1>9, <1>10, <1>11, <1>12,
     <1>13, <1>14, <1>15 DEF Next, Informers, Runs, Worker, Stops

LEMMA StopOrderInvariant == Spec => []StopOrder
<1>1. Init => StopOrder
  BY DEF Init, StopOrder, WorkerDoneClosedOnce, NewQueue
<1> QED BY <1>1, TypeInit, TypeStep, StopOrderStep, PTL DEF Spec

\* workerDone is never closed twice, whenever the termination arrives.
THEOREM WorkerDoneInvariant == Spec => []WorkerDoneClosedOnce
<1>1. StopOrder => WorkerDoneClosedOnce
  BY DEF StopOrder
<1> QED BY <1>1, StopOrderInvariant, PTL

\* NGINX is told to quit after the last sync, with nothing left to sync.
THEOREM QuietBeforeQuitInvariant == Spec => []QuietBeforeQuit
<1>1. StopOrder => QuietBeforeQuit
  BY DEF StopOrder, QuietBeforeQuit
<1> QED BY <1>1, StopOrderInvariant, PTL
=============================================================================
