----------------------------- MODULE WorkQueue -----------------------------
(***************************************************************************)
(* The work queue of client-go (util/workqueue/queue.go) that carries the  *)
(* tasks of the Ingress Controller: a task is queued at most once, and one *)
(* that is added again while it is processed waits until it is done.       *)
(***************************************************************************)
EXTENDS Naturals, Sequences

NewQueue == [items |-> <<>>, dirty |-> {}, processing |-> {}, shuttingDown |-> FALSE]

Queues(T) ==
  [items : Seq(T), dirty : SUBSET T, processing : SUBSET T, shuttingDown : BOOLEAN]

\* A task is in items, once, exactly when it is dirty and not being processed.
WellFormed(q) ==
  /\ \A i, j \in DOMAIN q.items : q.items[i] = q.items[j] => i = j
  /\ \A i \in DOMAIN q.items : q.items[i] \in q.dirty \ q.processing
  /\ \A t \in q.dirty \ q.processing : \E i \in DOMAIN q.items : q.items[i] = t

\* Mutant: a task that is being processed is queued all the same.
AddAlways(q, t) ==
  IF q.shuttingDown \/ t \in q.dirty THEN q
    ELSE [q EXCEPT !.dirty = @ \cup {t}, !.items = Append(@, t)]

\* Mutant: a task that is being processed is not marked again.
AddUnlessProcessing(q, t) ==
  IF q.shuttingDown \/ t \in q.dirty \/ t \in q.processing THEN q
    ELSE [q EXCEPT !.dirty = @ \cup {t}, !.items = Append(@, t)]

Add(q, t) ==
  IF q.shuttingDown \/ t \in q.dirty THEN q
    ELSE [q EXCEPT !.dirty = @ \cup {t},
                   !.items = IF t \in q.processing THEN @ ELSE Append(@, t)]

\* Get blocks until there is a task, or the queue is shutting down.
CanGet(q) == q.items # <<>>

MustQuit(q) == q.items = <<>> /\ q.shuttingDown

Get(q) ==
  LET t == Head(q.items)
  IN [q EXCEPT !.items = Tail(@), !.processing = @ \cup {t}, !.dirty = @ \ {t}]

\* Mutant: a task added while it was processed is not queued again.
DoneForgets(q, t) == [q EXCEPT !.processing = @ \ {t}]

Done(q, t) ==
  [q EXCEPT !.processing = @ \ {t},
            !.items = IF t \in q.dirty THEN Append(@, t) ELSE @]

ShutDown(q) == [q EXCEPT !.shuttingDown = TRUE]
=============================================================================
