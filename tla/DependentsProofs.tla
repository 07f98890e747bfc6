-------------------------- MODULE DependentsProofs --------------------------
(***************************************************************************)
(* Proofs about Dependents, for any worlds: the worker and the queue stay  *)
(* consistent, the App Protect configuration inside the controller         *)
(* implements its abstract specification, NGINX never runs with half of a  *)
(* rotated SVID, the files of the secrets stay current, the addresses of   *)
(* the Ingresses are reported, no config file names a missing file for     *)
(* longer than a policy of its resource waits to be synced, and at rest    *)
(* NGINX runs with what the objects of the cluster call for.               *)
(***************************************************************************)
EXTENDS Dependents, AppProtectProofs, OperatorProofs, SequenceTheorems, TLAPS

-----------------------------------------------------------------------------
(* The secret store: its operations keep the secret files current, for any   *)
(* secrets whose names join to different file names and whose types do not   *)
(* change.                                                                   *)

\* What the operations rely on: TypesAreFixed and NoFileNameCollision.
SecretsOK(S) ==
  \A s, t \in S :
    /\ FileName(s.name) = FileName(t.name) => s.name = t.name
    /\ s.name = t.name => s.type = t.type

\* A store of secrets of S.
IsStore(st, S) ==
  /\ st = [refs |-> st.refs, files |-> st.files]
  /\ st.refs = [k \in DOMAIN st.refs |-> st.refs[k]]
  /\ st.files = [f \in DOMAIN st.files |-> st.files[f]]
  /\ \A k \in DOMAIN st.refs :
       /\ st.refs[k] = [secret |-> st.refs[k].secret, path |-> st.refs[k].path]
       /\ st.refs[k].path \in BOOLEAN
       /\ st.refs[k].secret \in S /\ st.refs[k].secret.name = k

\* A new store has no secrets and no files.
LEMMA EmptyStoreOK ==
  ASSUME NEW S
  PROVE  IsStore(EmptyStore, S) /\ Current(EmptyStore)
<1>1. /\ EmptyStore.refs = <<>> /\ EmptyStore.files = <<>>
      /\ EmptyStore = [refs |-> <<>>, files |-> <<>>]
  BY DEF EmptyStore
<1>2. \A f : f = <<>> => DOMAIN f = {} /\ f = [k \in DOMAIN f |-> f[k]]
  OBVIOUS
<1> HIDE DEF EmptyStore
<1>3. IsStore(EmptyStore, S)
  BY <1>1, <1>2 DEF IsStore
<1>4. OnDisk(EmptyStore) = {}
  BY <1>1, <1>2 DEF OnDisk
<1> QED
  BY <1>1, <1>2, <1>3, <1>4 DEF Current

\* Different keys have different files.
LEMMA FilesDiffer ==
  ASSUME NEW S, SecretsOK(S), NEW st, IsStore(st, S)
  PROVE  /\ \A k, j \in DOMAIN st.refs : FileName(k) = FileName(j) => k = j
         /\ \A s \in S : \A k \in DOMAIN st.refs : FileName(s.name) = FileName(k) => s.name = k
         /\ \A s \in S : s.name \in DOMAIN st.refs => s.type = st.refs[s.name].secret.type
<1>1. \A k \in DOMAIN st.refs : st.refs[k].secret \in S /\ st.refs[k].secret.name = k
  BY DEF IsStore
<1>2. \A s \in S : \A k \in DOMAIN st.refs : FileName(s.name) = FileName(k) => s.name = k
  BY <1>1 DEF SecretsOK
<1> QED
  BY <1>1, <1>2 DEF SecretsOK

\* AddOrUpdateSecret keeps the files of the store current.
LEMMA AddOrUpdateSecretOK ==
  ASSUME NEW S, SecretsOK(S), NEW st, IsStore(st, S), Current(st), NEW s \in S
  PROVE  IsStore(AddOrUpdateSecret(st, s), S) /\ Current(AddOrUpdateSecret(st, s))
<1> DEFINE had == s.name \in DOMAIN st.refs /\ st.refs[s.name].path
           ok == ValidateSecret(s)
           entry == [secret |-> s, path |-> had /\ ok /\ HasFile(s)]
           new == AddOrUpdateSecret(st, s)
<1>1. /\ new.refs = SetKey(st.refs, s.name, entry)
      /\ new.files = IF ~had THEN st.files
                     ELSE IF ok THEN WriteSecret(st.files, s) ELSE UnsetKey(st.files, FileName(s.name))
      /\ new = [refs |-> new.refs, files |-> new.files]
  BY DEF AddOrUpdateSecret
<1>2. /\ entry = [secret |-> entry.secret, path |-> entry.path]
      /\ entry.secret = s /\ (entry.path <=> had /\ ok /\ HasFile(s)) /\ entry.path \in BOOLEAN
  OBVIOUS
<1> HIDE DEF new, entry
<1>3. /\ DOMAIN new.refs = DOMAIN st.refs \cup {s.name}
      /\ new.refs = [k \in DOMAIN new.refs |-> new.refs[k]]
      /\ new.refs[s.name] = entry
      /\ \A k \in DOMAIN st.refs : k # s.name => new.refs[k] = st.refs[k]
  BY <1>1 DEF SetKey
<1>4. new.files = [f \in DOMAIN new.files |-> new.files[f]]
  <2>1. new.files \in {st.files, SetKey(st.files, FileName(s.name), s), UnsetKey(st.files, FileName(s.name))}
    BY <1>1 DEF WriteSecret
  <2>2. CASE new.files = st.files
    BY <2>2 DEF IsStore
  <2>3. CASE new.files = SetKey(st.files, FileName(s.name), s)
    BY <2>3 DEF SetKey
  <2>4. CASE new.files = UnsetKey(st.files, FileName(s.name))
    BY <2>4 DEF UnsetKey
  <2> QED
    BY <2>1, <2>2, <2>3, <2>4
<1>5. IsStore(new, S)
  <2>1. \A k \in DOMAIN st.refs :
          /\ st.refs[k] = [secret |-> st.refs[k].secret, path |-> st.refs[k].path]
          /\ st.refs[k].path \in BOOLEAN
          /\ st.refs[k].secret \in S /\ st.refs[k].secret.name = k
    BY DEF IsStore
  <2>2. ASSUME NEW k \in DOMAIN new.refs
        PROVE  /\ new.refs[k] = [secret |-> new.refs[k].secret, path |-> new.refs[k].path]
               /\ new.refs[k].path \in BOOLEAN
               /\ new.refs[k].secret \in S /\ new.refs[k].secret.name = k
    <3>1. CASE k = s.name
      BY <1>2, <1>3, <3>1
    <3>2. CASE k # s.name
      BY <1>3, <2>1, <3>2
    <3> QED
      BY <3>1, <3>2
  <2>3. new = [refs |-> new.refs, files |-> new.files]
    BY <1>1, Zenon
  <2> QED
    BY <1>3, <1>4, <2>2, <2>3 DEF IsStore
<1>6. OnDisk(new) = (OnDisk(st) \ {s.name}) \cup (IF had /\ ok /\ HasFile(s) THEN {s.name} ELSE {})
  BY <1>2, <1>3 DEF OnDisk
<1>7. \A k \in OnDisk(st) : k # s.name => FileName(k) # FileName(s.name)
  BY FilesDiffer DEF OnDisk
<1>8. CASE ~had
  <2>1. s.name \notin OnDisk(st)
    BY <1>8 DEF OnDisk
  <2>2. OnDisk(new) = OnDisk(st) /\ new.files = st.files
    BY <2>1, <1>1, <1>6, <1>8
  <2> QED
    BY <2>1, <2>2, <1>3, <1>5 DEF Current, OnDisk, new
<1>9. CASE had /\ ok /\ HasFile(s)
  <2>1. OnDisk(new) = OnDisk(st) \cup {s.name}
    BY <1>6, <1>9
  <2>2. new.files = SetKey(st.files, FileName(s.name), s)
    BY <1>1, <1>9 DEF WriteSecret
  <2>3. /\ DOMAIN new.files = DOMAIN st.files \cup {FileName(s.name)}
        /\ new.files[FileName(s.name)] = s
        /\ \A f \in DOMAIN st.files : f # FileName(s.name) => new.files[f] = st.files[f]
    BY <2>2 DEF SetKey
  <2>4. DOMAIN new.files = {FileName(k) : k \in OnDisk(new)}
    BY <2>1, <2>3 DEF Current
  <2>5. \A k \in OnDisk(new) : new.files[FileName(k)] = new.refs[k].secret
    BY <2>1, <2>3, <1>2, <1>3, <1>7 DEF Current, OnDisk
  <2> QED
    BY <2>4, <2>5, <1>5 DEF Current, new
<1>10. CASE had /\ ok /\ ~HasFile(s)
  <2>1. s.name \notin OnDisk(st)
    BY <1>10, FilesDiffer DEF OnDisk, HasFile
  <2>2. OnDisk(new) = OnDisk(st) /\ new.files = st.files
    BY <2>1, <1>1, <1>6, <1>10 DEF WriteSecret
  <2> QED
    BY <2>1, <2>2, <1>3, <1>5 DEF Current, OnDisk, new
<1>11. CASE had /\ ~ok
  <2>1. OnDisk(new) = OnDisk(st) \ {s.name}
    BY <1>6, <1>11
  <2>2. /\ DOMAIN new.files = DOMAIN st.files \ {FileName(s.name)}
        /\ \A f \in DOMAIN new.files : new.files[f] = st.files[f]
    BY <1>1, <1>11 DEF UnsetKey
  <2>3. DOMAIN new.files = {FileName(k) : k \in OnDisk(new)}
    BY <2>1, <2>2, <1>7 DEF Current
  <2>4. \A k \in OnDisk(new) : new.files[FileName(k)] = new.refs[k].secret
    BY <2>1, <2>2, <2>3, <1>3 DEF Current, OnDisk
  <2> QED
    BY <2>3, <2>4, <1>5 DEF Current, new
<1> QED
  BY <1>8, <1>9, <1>10, <1>11

\* DeleteSecret removes the file with the secret.
LEMMA DeleteSecretOK ==
  ASSUME NEW S, SecretsOK(S), NEW st, IsStore(st, S), Current(st), NEW key
  PROVE  IsStore(DeleteSecret(st, key), S) /\ Current(DeleteSecret(st, key))
<1> DEFINE new == DeleteSecret(st, key)
<1>1. CASE key \notin DOMAIN st.refs
  BY <1>1 DEF DeleteSecret
<1>2. CASE key \in DOMAIN st.refs
  <2>1. /\ new.refs = UnsetKey(st.refs, key)
        /\ new.files = IF st.refs[key].path THEN UnsetKey(st.files, FileName(key)) ELSE st.files
        /\ new = [refs |-> new.refs, files |-> new.files]
    BY <1>2 DEF DeleteSecret
  <2> HIDE DEF new
  <2>2. /\ DOMAIN new.refs = DOMAIN st.refs \ {key}
        /\ new.refs = [k \in DOMAIN new.refs |-> new.refs[k]]
        /\ \A k \in DOMAIN new.refs : new.refs[k] = st.refs[k]
    BY <2>1 DEF UnsetKey
  <2>3. new.files = [f \in DOMAIN new.files |-> new.files[f]]
    BY <2>1 DEF UnsetKey, IsStore
  <2>4. IsStore(new, S)
    BY <2>1, <2>2, <2>3 DEF IsStore
  <2>5. OnDisk(new) = OnDisk(st) \ {key}
    BY <2>2 DEF OnDisk
  <2>6. \A k \in OnDisk(st) : k # key => FileName(k) # FileName(key)
    BY <1>2, FilesDiffer DEF OnDisk
  <2>7. CASE st.refs[key].path
    <3>1. /\ DOMAIN new.files = DOMAIN st.files \ {FileName(key)}
          /\ \A f \in DOMAIN new.files : new.files[f] = st.files[f]
      BY <2>1, <2>7 DEF UnsetKey
    <3>2. DOMAIN new.files = {FileName(k) : k \in OnDisk(new)}
      BY <3>1, <2>5, <2>6 DEF Current
    <3>3. \A k \in OnDisk(new) : new.files[FileName(k)] = new.refs[k].secret
      BY <3>1, <3>2, <2>2, <2>5 DEF Current, OnDisk
    <3> QED
      BY <3>2, <3>3, <2>4 DEF Current, new
  <2>8. CASE ~st.refs[key].path
    <3>1. OnDisk(new) = OnDisk(st) /\ new.files = st.files
      BY <2>1, <2>5, <2>8 DEF OnDisk
    <3> QED
      BY <3>1, <2>2, <2>4 DEF Current, OnDisk, new
  <2> QED
    BY <2>7, <2>8
<1> QED
  BY <1>1, <1>2

\* GetSecret writes the files that are missing.
LEMMA GetSecretsOK ==
  ASSUME NEW S, SecretsOK(S), NEW st, IsStore(st, S), Current(st), NEW keys
  PROVE  LET new == GetSecrets(st, keys)
         IN /\ IsStore(new, S) /\ Current(new)
            /\ \A k \in keys \cap DOMAIN new.refs :
                 ValidateSecret(new.refs[k].secret) /\ HasFile(new.refs[k].secret) => new.refs[k].path
<1> DEFINE written == {k \in keys \cap DOMAIN st.refs :
                         /\ ValidateSecret(st.refs[k].secret) /\ ~st.refs[k].path
                         /\ HasFile(st.refs[k].secret)}
           owners(f) == {k \in written : FileName(k) = f}
           new == GetSecrets(st, keys)
<1>1. /\ new.refs = [k \in DOMAIN st.refs |->
                       IF k \in written THEN [st.refs[k] EXCEPT !.path = TRUE] ELSE st.refs[k]]
      /\ new.files = [f \in DOMAIN st.files \cup {FileName(k) : k \in written} |->
                        IF owners(f) = {} THEN st.files[f]
                        ELSE st.refs[CHOOSE k \in owners(f) : TRUE].secret]
      /\ new = [refs |-> new.refs, files |-> new.files]
  BY DEF GetSecrets
<1>2. written \subseteq DOMAIN st.refs
  OBVIOUS
<1>3. \A k \in written : owners(FileName(k)) = {k}
  BY <1>2, FilesDiffer
<1>4. \A k \in DOMAIN st.refs :
        k \in written <=> /\ k \in keys /\ ValidateSecret(st.refs[k].secret)
                          /\ ~st.refs[k].path /\ HasFile(st.refs[k].secret)
  OBVIOUS
<1>5. \A f : owners(f) # {} => f \in {FileName(k) : k \in written}
  OBVIOUS
<1> HIDE DEF new, written, owners
<1>6. /\ DOMAIN new.refs = DOMAIN st.refs
      /\ new.refs = [k \in DOMAIN new.refs |-> new.refs[k]]
      /\ new.files = [f \in DOMAIN new.files |-> new.files[f]]
      /\ DOMAIN new.files = DOMAIN st.files \cup {FileName(k) : k \in written}
  BY <1>1
<1>7. ASSUME NEW k \in DOMAIN st.refs
      PROVE  /\ new.refs[k] = [secret |-> st.refs[k].secret, path |-> new.refs[k].path]
             /\ new.refs[k].secret = st.refs[k].secret
             /\ new.refs[k].path \in BOOLEAN
             /\ new.refs[k].path <=> st.refs[k].path \/ k \in written
  <2>1. st.refs[k] = [secret |-> st.refs[k].secret, path |-> st.refs[k].path] /\ st.refs[k].path \in BOOLEAN
    BY DEF IsStore
  <2>2. CASE k \in written
    <3>1. new.refs[k] = [st.refs[k] EXCEPT !.path = TRUE]
      BY <1>1, <2>2
    <3>2. new.refs[k] = [secret |-> st.refs[k].secret, path |-> TRUE]
      BY <3>1, <2>1
    <3> QED
      BY <3>2, <2>2
  <2>3. CASE k \notin written
    <3>1. new.refs[k] = st.refs[k]
      BY <1>1, <2>3
    <3> QED
      BY <3>1, <2>1, <2>3
  <2> QED
    BY <2>2, <2>3
<1>8. IsStore(new, S)
  <2>1. \A k \in DOMAIN st.refs : st.refs[k].secret \in S /\ st.refs[k].secret.name = k
    BY DEF IsStore
  <2>2. new = [refs |-> new.refs, files |-> new.files]
    BY <1>1, Zenon
  <2>3. \A k \in DOMAIN new.refs :
          /\ new.refs[k] = [secret |-> new.refs[k].secret, path |-> new.refs[k].path]
          /\ new.refs[k].path \in BOOLEAN
          /\ new.refs[k].secret \in S /\ new.refs[k].secret.name = k
    <3> TAKE k \in DOMAIN new.refs
    <3>1. k \in DOMAIN st.refs
      BY <1>6
    <3> QED
      BY <3>1, <2>1, <1>7
  <2> QED
    BY <2>2, <2>3, <1>6 DEF IsStore
<1>9. OnDisk(new) = OnDisk(st) \cup written
  BY <1>2, <1>4, <1>6, <1>7 DEF OnDisk
<1>10. \A k \in written : new.files[FileName(k)] = st.refs[k].secret
  BY <1>1, <1>3
<1>11. \A k \in OnDisk(st) : owners(FileName(k)) = {}
  <2> SUFFICES ASSUME NEW k \in OnDisk(st), NEW j \in written, FileName(j) = FileName(k)
               PROVE  FALSE
    BY DEF owners
  <2>1. j = k
    BY <1>2, FilesDiffer DEF OnDisk
  <2> QED
    BY <2>1, <1>2, <1>4 DEF OnDisk
<1>12. \A k \in OnDisk(st) : new.files[FileName(k)] = st.refs[k].secret
  BY <1>1, <1>6, <1>11 DEF Current
<1>13. Current(new)
  <2>1. DOMAIN new.files = {FileName(k) : k \in OnDisk(new)}
    BY <1>6, <1>9 DEF Current
  <2>2. \A k \in OnDisk(new) : new.files[FileName(k)] = new.refs[k].secret
    BY <1>2, <1>7, <1>9, <1>10, <1>12 DEF OnDisk
  <2> QED
    BY <2>1, <2>2 DEF Current
<1>14. \A k \in keys \cap DOMAIN new.refs :
         ValidateSecret(new.refs[k].secret) /\ HasFile(new.refs[k].secret) => new.refs[k].path
  BY <1>4, <1>6, <1>7
<1> QED
  BY <1>8, <1>13, <1>14 DEF new

\* The Configurator sets the Path of JWT keys after GetSecret: a valid one has its
\* file by then.
LEMMA SetPathsOK ==
  ASSUME NEW S, NEW st, IsStore(st, S), Current(st), NEW keys,
         \A k \in keys \cap DOMAIN st.refs :
           ValidateSecret(st.refs[k].secret) /\ HasFile(st.refs[k].secret) => st.refs[k].path
  PROVE  IsStore(SetPaths(st, keys), S) /\ Current(SetPaths(st, keys))
<1> DEFINE new == SetPaths(st, keys)
<1>1. /\ new.refs = [k \in DOMAIN st.refs |->
                       IF k \in keys THEN [st.refs[k] EXCEPT !.path = TRUE] ELSE st.refs[k]]
      /\ new.files = st.files
      /\ new = [refs |-> new.refs, files |-> new.files]
  BY DEF SetPaths
<1> HIDE DEF new
<1>2. /\ DOMAIN new.refs = DOMAIN st.refs
      /\ new.refs = [k \in DOMAIN new.refs |-> new.refs[k]]
  BY <1>1
<1>3. ASSUME NEW k \in DOMAIN st.refs
      PROVE  /\ new.refs[k] = [secret |-> st.refs[k].secret, path |-> new.refs[k].path]
             /\ new.refs[k].secret = st.refs[k].secret
             /\ new.refs[k].path \in BOOLEAN
             /\ new.refs[k].path <=> st.refs[k].path \/ k \in keys
  <2>1. st.refs[k] = [secret |-> st.refs[k].secret, path |-> st.refs[k].path] /\ st.refs[k].path \in BOOLEAN
    BY DEF IsStore
  <2>2. CASE k \in keys
    <3>1. new.refs[k] = [st.refs[k] EXCEPT !.path = TRUE]
      BY <1>1, <2>2
    <3>2. new.refs[k] = [secret |-> st.refs[k].secret, path |-> TRUE]
      BY <3>1, <2>1
    <3> QED
      BY <3>2, <2>2
  <2>3. CASE k \notin keys
    <3>1. new.refs[k] = st.refs[k]
      BY <1>1, <2>3
    <3> QED
      BY <3>1, <2>1, <2>3
  <2> QED
    BY <2>2, <2>3
<1>4. IsStore(new, S)
  <2>1. st.files = [f \in DOMAIN st.files |-> st.files[f]]
        /\ \A k \in DOMAIN st.refs : st.refs[k].secret \in S /\ st.refs[k].secret.name = k
    BY DEF IsStore
  <2>2. new.files = [f \in DOMAIN new.files |-> new.files[f]]
    BY <2>1, <1>1
  <2>3. \A k \in DOMAIN new.refs :
          /\ new.refs[k] = [secret |-> new.refs[k].secret, path |-> new.refs[k].path]
          /\ new.refs[k].path \in BOOLEAN
          /\ new.refs[k].secret \in S /\ new.refs[k].secret.name = k
    <3> TAKE k \in DOMAIN new.refs
    <3>1. k \in DOMAIN st.refs
      BY <1>2
    <3> QED
      BY <3>1, <2>1, <1>3
  <2> QED
    BY <2>2, <2>3, <1>1, <1>2 DEF IsStore
<1>5. OnDisk(new) = OnDisk(st)
  BY <1>2, <1>3 DEF OnDisk
<1>6. Current(new)
  <2>1. new.files = st.files
    BY <1>1
  <2>2. \A k \in OnDisk(st) : new.refs[k].secret = st.refs[k].secret
    BY <1>3 DEF OnDisk
  <2> QED
    BY <2>1, <2>2, <1>5 DEF Current
<1> QED
  BY <1>4, <1>6 DEF new

-----------------------------------------------------------------------------
(* The controller *)

ObjectsOf(w) == Worlds[w].objects \cup Worlds[w].variants

\* The API server and the listers hold objects of the world, and the worker
\* holds one task of the queue or none.
WorkerOK ==
  /\ world \in DOMAIN Worlds
  /\ cluster \subseteq ObjectsOf(world) /\ lister \subseteq ObjectsOf(world)
  /\ queue \in Queues(Keys) /\ WellFormed(queue)
  /\ queue.processing = current
  /\ current = {} \/ \E k \in Keys : current = {k}
  /\ current = {} => job.plan = <<>>

\* What NGINX runs with, or has still to load.
IsConfig(c) == c = [disk |-> c.disk, files |-> c.files, svid |-> c.svid]

\* syncLock: the rotation of the SVID and a sync exclude each other.
RotationOK ==
  /\ rotating \in {"no", "key written", "cert written"}
  /\ rotating # "no" => current = {}
  /\ rotating # "key written" => svid.key = svid.cert
  /\ svid = [key |-> svid.key, cert |-> svid.cert]
  /\ \A c \in {running} \cup loading : IsConfig(c)

-----------------------------------------------------------------------------
(* The worker *)

\* The keys are those of the objects of the world.
LEMMA KeysOfWorld == Keys = {Key(o) : o \in ObjectsOf(world)}
BY DEF Keys, World, ObjectsOf

\* The worker starts with the initial objects queued.
LEMMA WorkerInit == Init => WorkerOK
<1> SUFFICES ASSUME Init PROVE WorkerOK
  OBVIOUS
<1>1. world \in DOMAIN Worlds /\ cluster = World.objects /\ lister = cluster /\ current = {}
      /\ job.plan = <<>>
  BY DEF Init, IdleJob, Job
<1>2. PICK order \in World.orders : queue = [NewQueue EXCEPT !.items = order, !.dirty = Range(order)]
  BY DEF Init
<1>3. order \in Seq(Keys) /\ \A i, j \in DOMAIN order : order[i] = order[j] => i = j
  BY <1>1, DependentsAssumption DEF DependentsAssumption, World, Keys
<1>4. queue = [items |-> order, dirty |-> Range(order), processing |-> {}, shuttingDown |-> FALSE]
  BY <1>2 DEF NewQueue
<1>5. Range(order) = {order[i] : i \in DOMAIN order} /\ Range(order) \subseteq Keys
  BY <1>3 DEF Range
<1>6. queue \in Queues(Keys)
  BY <1>3, <1>4, <1>5 DEF Queues
<1>7. WellFormed(queue)
  BY <1>3, <1>4, <1>5 DEF WellFormed
<1> QED
  BY <1>1, <1>4, <1>6, <1>7 DEF WorkerOK, ObjectsOf, World

\* Steps that leave the queue and the objects alone.
LEMMA SameWorker ==
  ASSUME WorkerOK, UNCHANGED <<world, cluster, lister, queue, current>>,
         current # {} \/ UNCHANGED job
  PROVE  WorkerOK'
BY DEF WorkerOK, Keys, World, ObjectsOf

\* The calls of a sync function that has begun.
LEMMA BusyWorker ==
  ASSUME WorkerOK, NEW ops, Doing(ops)
  PROVE  current # {}
BY DEF WorkerOK, Doing

\* Taking a task from the queue.
LEMMA StartSyncOK ==
  ASSUME WorkerOK, StartSync
  PROVE  /\ WorkerOK'
         /\ Head(queue.items) \in Keys /\ current = {} /\ rotating = "no"
<1>1. /\ current = {} /\ CanGet(queue) /\ rotating = "no"
      /\ queue' = Get(queue) /\ current' = {Head(queue.items)}
      /\ UNCHANGED <<world, cluster, lister>>
  BY DEF StartSync
<1>2. /\ Head(queue.items) \in Keys
      /\ queue' \in Queues(Keys) /\ WellFormed(queue') /\ queue'.processing = {Head(queue.items)}
  BY <1>1, GetOK DEF WorkerOK
<1>3. Keys' = Keys
  BY <1>1 DEF Keys, World
<1> QED
  BY <1>1, <1>2, <1>3 DEF WorkerOK

\* Done puts a task that was marked meanwhile back.
LEMMA FinishSyncOK ==
  ASSUME WorkerOK, FinishSync
  PROVE  WorkerOK'
<1>1. PICK k \in Keys : current = {k}
  BY DEF WorkerOK, FinishSync
<1>2. queue' = Done(queue, k)
  <2>1. (CHOOSE j \in current : TRUE) = k
    BY <1>1
  <2> QED
    BY <2>1 DEF FinishSync
<1>3. queue' \in Queues(Keys) /\ WellFormed(queue') /\ queue'.processing = {}
  BY <1>1, <1>2, DoneOK DEF WorkerOK
<1>4. current' = {} /\ job'.plan = <<>> /\ UNCHANGED <<world, cluster, lister>>
  BY DEF FinishSync, IdleJob, Job
<1>5. Keys' = Keys
  BY <1>4 DEF Keys, World
<1> QED
  BY <1>3, <1>4, <1>5 DEF WorkerOK

\* An informer queues the key of an object of the world.
LEMMA ObserveOK ==
  ASSUME WorkerOK, Observe
  PROVE  WorkerOK'
<1>1. PICK key \in Keys :
        /\ lister' = (lister \ At(lister, key)) \cup At(cluster, key)
        /\ queue' = IF Enqueued(key) THEN Add(queue, key) ELSE queue
        /\ UNCHANGED <<world, cluster, current, job>>
  BY DEF Observe
<1>2. queue' \in Queues(Keys) /\ WellFormed(queue') /\ queue'.processing = queue.processing
  BY <1>1, AddOK DEF WorkerOK
<1>3. Keys' = Keys
  BY <1>1 DEF Keys, World
<1>4. lister' \subseteq ObjectsOf(world)
  BY <1>1 DEF WorkerOK, At
<1> QED
  BY <1>1, <1>2, <1>3, <1>4 DEF WorkerOK

\* Users put and remove objects of the world.
LEMMA EditOK ==
  ASSUME WorkerOK, EditPut \/ EditRemove
  PROVE  WorkerOK'
<1>1. /\ cluster' \subseteq ObjectsOf(world)
      /\ UNCHANGED <<world, lister, queue, current, job>>
  <2>1. CASE EditPut
    BY <2>1 DEF EditPut, Edit, At, WorkerOK, ObjectsOf, World, worker
  <2>2. CASE EditRemove
    BY <2>2 DEF EditRemove, Edit, WorkerOK, worker
  <2> QED
    BY <2>1, <2>2
<1>2. Keys' = Keys
  BY <1>1 DEF Keys, World
<1> QED
  BY <1>1, <1>2 DEF WorkerOK

\* Every step keeps the worker consistent with its queue.
LEMMA WorkerStep ==
  ASSUME WorkerOK, [Next]_allVars
  PROVE  WorkerOK'
<1>1. CASE StartSync
  BY <1>1, StartSyncOK
<1>2. CASE Build \/ Write \/ UpdateEndpoints \/ UpdateSpecialSecret \/ DeleteConfig \/ Report
  <2>1. current # {}
    BY <1>2, BusyWorker DEF Build, Write, UpdateEndpoints, UpdateSpecialSecret, DeleteConfig, Report
  <2>2. UNCHANGED <<world, cluster, lister, queue, current>>
    BY <1>2 DEF Build, Write, UpdateEndpoints, UpdateSpecialSecret, DeleteConfig, Report
  <2> QED
    BY <2>1, <2>2, SameWorker
<1>3. CASE FinishSync
  BY <1>3, FinishSyncOK
<1>4. CASE Load \/ RotateKey \/ Rotate
  <2>1. UNCHANGED <<world, cluster, lister, queue, current, job>>
    BY <1>4 DEF Load, RotateKey, Rotate, RotateCert, RotateReload, worker
  <2> QED
    BY <2>1, SameWorker
<1>5. CASE BecomeLeader \/ Lead \/ LoseLeadership \/ ObserveStatus
  <2>1. UNCHANGED <<world, cluster, lister, queue, current, job>>
    BY <1>5 DEF BecomeLeader, Lead, LeaderReadsStatus, LeaderWritesStatus, LoseLeadership,
         ObserveStatus, worker
  <2> QED
    BY <2>1, SameWorker
<1>6. CASE EditPut \/ EditRemove
  BY <1>6, EditOK
<1>7. CASE Observe
  BY <1>7, ObserveOK
<1>8. CASE AllDone \/ UNCHANGED allVars
  <2>1. UNCHANGED <<world, cluster, lister, queue, current, job>>
    BY <1>8 DEF AllDone, allVars, worker
  <2> QED
    BY <2>1, SameWorker
<1> QED
  BY <1>1, <1>2, <1>3, <1>4, <1>5, <1>6, <1>7, <1>8 DEF Next, Work

\* The worker and its queue stay consistent with each other and with the objects
\* of the cluster, whatever the informers, the leader elector and the SPIFFE
\* goroutine do meanwhile (taskQueue.worker, sync).
THEOREM WorkerInvariant == Spec => []WorkerOK
<1>1. Init => WorkerOK
  BY WorkerInit
<1>2. WorkerOK /\ [Next]_allVars => WorkerOK'
  BY WorkerStep
<1> QED
  BY <1>1, <1>2, PTL DEF Spec

-----------------------------------------------------------------------------
(* App Protect *)

\* The keys and the objects that the App Protect syncs are given.
LEMMA StoredObject ==
  ASSUME WorkerOK, NEW key \in Keys
  PROVE  /\ key[1] = "APPolicy" => key[2] \in PolicyNames
         /\ key[1] = "APLogConf" => key[2] \in LogConfNames
         /\ key[1] = "APUserSig" => key[2] \in UserSigNames
         /\ At(lister, key) # {} =>
              LET o == CHOOSE o \in At(lister, key) : TRUE
              IN /\ key[1] = "APPolicy" => o \in APPolicies
                 /\ key[1] = "APLogConf" => o \in APLogConfs
                 /\ key[1] = "APUserSig" => o \in APUserSigs
<1>1. \A o \in ObjectsOf(world) :
        /\ o.kind = "APPolicy" => o \in APPolicies
        /\ o.kind = "APLogConf" => o \in APLogConfs
        /\ o.kind = "APUserSig" => o \in APUserSigs
  BY DependentsAssumption DEF DependentsAssumption, WorkerOK, ObjectsOf, OfKind
<1>2. PICK o \in ObjectsOf(world) : key = <<o.kind, o.name>>
  BY KeysOfWorld DEF Key
<1>3. \A p \in At(lister, key) : p \in ObjectsOf(world) /\ p.kind = key[1]
  BY DEF At, Key, WorkerOK
<1> QED
  BY <1>1, <1>2, <1>3 DEF PolicyNames, LogConfNames, UserSigNames

\* A task of the worker is one operation of the App Protect configuration or none.
LEMMA SyncIsOperation ==
  ASSUME WorkerOK, StartSync
  PROVE  [APNext]_apVars
<1> DEFINE key == Head(queue.items)
           o == CHOOSE o \in At(lister, key) : TRUE
<1>1. key \in Keys
  BY StartSyncOK
<1>2. \/ UNCHANGED apVars
      \/ key[1] = "APPolicy" /\ SyncAppProtectPolicy(key)
      \/ key[1] = "APLogConf" /\ SyncAppProtectLogConf(key)
      \/ key[1] = "APUserSig" /\ SyncAppProtectUserSig(key)
  BY DEF StartSync, SyncSecret, SyncPolicy, SyncConfigMap, SyncService, SyncIngressLink,
         SyncEndpoints, SyncResource
<1> HIDE DEF key
<1>3. CASE key[1] = "APPolicy" /\ SyncAppProtectPolicy(key)
  <2>1. IF At(lister, key) = {} THEN DeletePolicy(key[2]) ELSE AddOrUpdatePolicy(o)
    BY <1>3 DEF SyncAppProtectPolicy
  <2> HIDE DEF o
  <2>2. key[2] \in PolicyNames /\ (At(lister, key) # {} => o \in APPolicies)
    BY <1>1, <1>3, StoredObject DEF o
  <2> QED
    BY <2>1, <2>2 DEF APNext
<1>4. CASE key[1] = "APLogConf" /\ SyncAppProtectLogConf(key)
  <2>1. IF At(lister, key) = {} THEN DeleteLogConf(key[2]) ELSE AddOrUpdateLogConf(o)
    BY <1>4 DEF SyncAppProtectLogConf
  <2> HIDE DEF o
  <2>2. key[2] \in LogConfNames /\ (At(lister, key) # {} => o \in APLogConfs)
    BY <1>1, <1>4, StoredObject DEF o
  <2> QED
    BY <2>1, <2>2 DEF APNext
<1>5. CASE key[1] = "APUserSig" /\ SyncAppProtectUserSig(key)
  <2>1. IF At(lister, key) = {} THEN DeleteUserSig(key[2]) ELSE AddOrUpdateUserSig(o)
    BY <1>5 DEF SyncAppProtectUserSig
  <2> HIDE DEF o
  <2>2. key[2] \in UserSigNames /\ (At(lister, key) # {} => o \in APUserSigs)
    BY <1>1, <1>5, StoredObject DEF o
  <2> QED
    BY <2>1, <2>2 DEF APNext
<1> QED
  BY <1>2, <1>3, <1>4, <1>5

\* Nobody but the worker touches the App Protect configuration.
LEMMA StepIsOperation ==
  ASSUME WorkerOK, [Next]_allVars
  PROVE  [APNext]_apVars
<1>1. CASE StartSync
  BY <1>1, SyncIsOperation
<1>2. CASE Build \/ Write \/ UpdateEndpoints \/ UpdateSpecialSecret \/ DeleteConfig \/ Report \/ FinishSync
  BY <1>2 DEF Build, Write, UpdateEndpoints, UpdateSpecialSecret, DeleteConfig, Report, FinishSync
<1>3. CASE Load \/ RotateKey \/ Rotate
  BY <1>3 DEF Load, RotateKey, Rotate, RotateCert, RotateReload
<1>4. CASE BecomeLeader \/ Lead \/ LoseLeadership \/ ObserveStatus
  BY <1>4 DEF BecomeLeader, Lead, LeaderReadsStatus, LeaderWritesStatus, LoseLeadership, ObserveStatus
<1>5. CASE EditPut \/ EditRemove \/ Observe
  BY <1>5 DEF EditPut, EditRemove, Edit, Observe
<1>6. CASE AllDone \/ UNCHANGED allVars
  BY <1>6 DEF AllDone, allVars
<1> QED
  BY <1>1, <1>2, <1>3, <1>4, <1>5, <1>6 DEF Next, Work

\* The controller as a whole uses the App Protect configuration only through its
\* operations, so what is proved of it holds there, for any objects and any
\* interleaving: the signatures and policies in force are those that the stored
\* objects determine, and no two signatures in force share a tag
\* (syncAppProtectPolicy, syncAppProtectLogConf, syncAppProtectUserSig).
THEOREM ControllerRefinesAppProtect == Spec => APRefines /\ []TagsDiffer
<1>1. Init => APInit
  BY DEF Init
<1>2. WorkerOK /\ [Next]_allVars => [APNext]_apVars
  BY StepIsOperation
<1>3. Spec => APSpec
  BY <1>1, <1>2, WorkerInvariant, PTL DEF Spec, APSpec
<1> QED
  BY <1>3, APRefinement, NoDuplicateTag, PTL

-----------------------------------------------------------------------------
(* The rotation of the SVID *)

\* A reload with a complete SVID leaves NGINX with a complete one.
LEMMA ReloadOK ==
  ASSUME NEW d, NEW files, Reload(d, files, svid), svid.key = svid.cert, RotationOK, SVIDNotTorn
  PROVE  /\ SVIDNotTorn'
         /\ \A c \in {running'} \cup loading' : IsConfig(c)
<1> DEFINE next == [disk |-> d, files |-> files, svid |-> svid]
<1>1. next.svid = svid /\ IsConfig(next)
  BY DEF IsConfig
<1>2. running' \in {running, next} /\ loading' \in {loading, {}, {next}}
  BY DEF Reload
<1> HIDE DEF next
<1> QED
  BY <1>1, <1>2 DEF SVIDNotTorn, RotationOK

\* The process starts with a complete SVID.
LEMMA RotationInit == Init => RotationOK /\ SVIDNotTorn
BY DEF Init, RotationOK, SVIDNotTorn, IsConfig

\* The rotation holds syncLock from the key to the reload.
LEMMA RotationStep ==
  ASSUME WorkerOK, RotationOK, SVIDNotTorn, [Next]_allVars
  PROVE  RotationOK' /\ SVIDNotTorn'
<1>1. CASE StartSync
  <2>1. rotating = "no"
    BY <1>1, StartSyncOK
  <2>2. UNCHANGED <<svid, rotating, running, loading>>
    BY <1>1 DEF StartSync, nginx, spiffe
  <2> QED
    BY <2>1, <2>2 DEF RotationOK, SVIDNotTorn
<1>2. CASE Write \/ UpdateEndpoints \/ UpdateSpecialSecret \/ DeleteConfig
  <2>1. current # {}
    BY <1>2, BusyWorker DEF Write, UpdateEndpoints, UpdateSpecialSecret, DeleteConfig
  <2>2. rotating = "no" /\ svid.key = svid.cert
    BY <2>1 DEF RotationOK
  <2>3. UNCHANGED <<svid, rotating>>
    BY <1>2 DEF Write, UpdateEndpoints, UpdateSpecialSecret, DeleteConfig, spiffe
  <2>4. CASE Reload(disk', store.files, svid)
    BY <2>2, <2>3, <2>4, ReloadOK DEF RotationOK
  <2>5. CASE \E keys : UpdatePlusEndpoints(keys) /\ UNCHANGED loading
    <3>1. /\ running'.svid = running.svid
          /\ IsConfig(running')
      BY <2>5 DEF UpdatePlusEndpoints, RotationOK, IsConfig
    <3> QED
      BY <3>1, <2>2, <2>3, <2>5 DEF RotationOK, SVIDNotTorn
  <2> QED
    BY <1>2, <2>4, <2>5 DEF Write, UpdateEndpoints, UpdateSpecialSecret, DeleteConfig
<1>3. CASE Build \/ Report
  <2>1. UNCHANGED <<current, svid, rotating, running, loading>>
    BY <1>3 DEF Build, Report, nginx, spiffe
  <2> QED
    BY <2>1 DEF RotationOK, SVIDNotTorn
<1>4. CASE FinishSync
  <2>1. UNCHANGED <<svid, rotating, running, loading>> /\ current' = {}
    BY <1>4 DEF FinishSync, nginx, spiffe
  <2> QED
    BY <2>1 DEF RotationOK, SVIDNotTorn
<1>5. CASE Load
  <2>1. PICK next \in loading : running' = next
    BY <1>5 DEF Load
  <2>2. UNCHANGED <<current, svid, rotating>> /\ loading' = {}
    BY <1>5 DEF Load, spiffe, worker
  <2> QED
    BY <2>1, <2>2 DEF RotationOK, SVIDNotTorn
<1>6. CASE RotateKey
  BY <1>6 DEF RotateKey, RotationOK, SVIDNotTorn, nginx, worker
<1>7. CASE RotateCert
  BY <1>7 DEF RotateCert, RotationOK, SVIDNotTorn, nginx, worker
<1>8. CASE RotateReload
  <2>1. svid.key = svid.cert /\ Reload(disk, store.files, svid) /\ rotating' = "no" /\ UNCHANGED svid
    BY <1>8 DEF RotateReload, RotationOK
  <2> QED
    BY <2>1, ReloadOK DEF RotationOK
<1>9. CASE BecomeLeader \/ Lead \/ LoseLeadership \/ ObserveStatus \/ EditPut \/ EditRemove \/ Observe
             \/ AllDone \/ UNCHANGED allVars
  <2>1. UNCHANGED <<current, svid, rotating, running, loading>>
    BY <1>9 DEF BecomeLeader, Lead, LeaderReadsStatus, LeaderWritesStatus, LoseLeadership, ObserveStatus,
         EditPut, EditRemove, Edit, Observe, AllDone, allVars, worker, nginx, spiffe
  <2> QED
    BY <2>1 DEF RotationOK, SVIDNotTorn
<1> QED
  BY <1>1, <1>2, <1>3, <1>4, <1>5, <1>6, <1>7, <1>8, <1>9 DEF Next, Work, Rotate

\* However rotations, syncs, failed and late reloads interleave, NGINX never runs
\* with the key of one SVID and the certificate of another: syncLock keeps every
\* reload of the worker out of a rotation (syncSVIDRotation,
\* AddOrUpdateSpiffeCerts).
THEOREM SVIDNotTornInvariant == Spec => []SVIDNotTorn
<1>1. Init => RotationOK /\ SVIDNotTorn
  BY RotationInit
<1>2. WorkerOK /\ RotationOK /\ SVIDNotTorn /\ [Next]_allVars => RotationOK' /\ SVIDNotTorn'
  BY RotationStep
<1> QED
  BY <1>1, <1>2, WorkerInvariant, PTL DEF Spec

-----------------------------------------------------------------------------
(* The secret store *)

SecretsOfWorld == OfKind(ObjectsOf(world), "Secret")
StoreOK == IsStore(store, SecretsOfWorld) /\ Current(store)

\* The assumptions on file names and types hold for the secrets of a world.
LEMMA SecretsOfWorldOK == WorkerOK => SecretsOK(SecretsOfWorld)
<1> SUFFICES ASSUME WorkerOK, NEW s \in SecretsOfWorld, NEW t \in SecretsOfWorld
             PROVE  /\ FileName(s.name) = FileName(t.name) => s.name = t.name
                    /\ s.name = t.name => s.type = t.type
  BY DEF SecretsOK
<1>1. s.name \in Names /\ t.name \in Names
  BY DEF SecretsOfWorld, ObjectsOf, OfKind, Names, WorkerOK
<1> QED
  BY <1>1, NoFileNameCollision, TypesAreFixed
     DEF NoFileNameCollision, TypesAreFixed, SecretsOfWorld, ObjectsOf, WorkerOK

\* syncSecret keeps the secret files current.
LEMMA SyncSecretOK ==
  ASSUME WorkerOK, StoreOK, NEW key, key[1] = "Secret", SyncSecret(key), UNCHANGED world
  PROVE  StoreOK'
<1> DEFINE s == CHOOSE s \in At(lister, key) : TRUE
<1>1. store' = IF At(lister, key) = {} THEN DeleteSecret(store, key[2]) ELSE AddOrUpdateSecret(store, s)
  BY DEF SyncSecret
<1>2. At(lister, key) # {} => s \in SecretsOfWorld
  <2>1. \A o \in At(lister, key) : o \in SecretsOfWorld
    BY DEF At, Key, WorkerOK, SecretsOfWorld, OfKind
  <2> QED
    BY <2>1
<1> HIDE DEF s
<1>3. IsStore(store', SecretsOfWorld) /\ Current(store')
  BY <1>1, <1>2, SecretsOfWorldOK, AddOrUpdateSecretOK, DeleteSecretOK DEF StoreOK
<1> QED
  BY <1>3 DEF StoreOK, SecretsOfWorld, ObjectsOf

\* Building extended resources fetches secrets, and keeps their files current.
LEMMA BuildOK ==
  ASSUME WorkerOK, StoreOK, Build
  PROVE  StoreOK'
<1>1. PICK res : store' = FetchSecrets(store, res, ControllerView)
  BY DEF Build
<1> DEFINE jwt == UNION {JWTKeys(r) : r \in res}
           names == UNION {{u[1] : u \in SecretsOf(r, ControllerView)} \cup JWTKeys(r) : r \in res}
           fetched == GetSecrets(store, names)
<1>2. store' = SetPaths(fetched, jwt)
  BY <1>1 DEF FetchSecrets
<1>3. jwt \subseteq names
  OBVIOUS
<1> HIDE DEF jwt, names
<1>4. /\ IsStore(fetched, SecretsOfWorld) /\ Current(fetched)
      /\ \A k \in names \cap DOMAIN fetched.refs :
           ValidateSecret(fetched.refs[k].secret) /\ HasFile(fetched.refs[k].secret) => fetched.refs[k].path
  BY SecretsOfWorldOK, GetSecretsOK DEF StoreOK
<1> HIDE DEF fetched
<1>5. IsStore(store', SecretsOfWorld) /\ Current(store')
  BY <1>2, <1>3, <1>4, SetPathsOK
<1>6. UNCHANGED world
  BY DEF Build
<1> QED
  BY <1>5, <1>6 DEF StoreOK, SecretsOfWorld, ObjectsOf

\* Nothing else touches the secret store.
LEMMA StoreStep ==
  ASSUME WorkerOK, StoreOK, [Next]_allVars
  PROVE  StoreOK'
<1>1. ASSUME UNCHANGED <<world, store>>
      PROVE  StoreOK'
  BY <1>1 DEF StoreOK, SecretsOfWorld, ObjectsOf
<1>2. CASE StartSync
  <2> DEFINE key == Head(queue.items)
  <2>1. UNCHANGED world
    BY <1>2 DEF StartSync
  <2>2. UNCHANGED store \/ (key[1] = "Secret" /\ SyncSecret(key))
    BY <1>2 DEF StartSync, SyncPolicy, SyncAppProtectPolicy, SyncAppProtectLogConf,
         SyncAppProtectUserSig, SyncConfigMap, SyncService, SyncIngressLink, SyncEndpoints,
         SyncResource, cnf
  <2> QED
    BY <2>1, <2>2, <1>1, SyncSecretOK
<1>3. CASE Build
  BY <1>3, BuildOK
<1>4. CASE Write \/ UpdateEndpoints \/ UpdateSpecialSecret \/ DeleteConfig \/ Report \/ FinishSync
  BY <1>1, <1>4 DEF Write, UpdateEndpoints, UpdateSpecialSecret, DeleteConfig, Report, FinishSync, cnf
<1>5. CASE Load \/ RotateKey \/ Rotate
  BY <1>1, <1>5 DEF Load, RotateKey, Rotate, RotateCert, RotateReload, cnf
<1>6. CASE BecomeLeader \/ Lead \/ LoseLeadership \/ ObserveStatus
  BY <1>1, <1>6 DEF BecomeLeader, Lead, LeaderReadsStatus, LeaderWritesStatus, LoseLeadership,
       ObserveStatus, cnf
<1>7. CASE EditPut \/ EditRemove \/ Observe
  BY <1>1, <1>7 DEF EditPut, EditRemove, Edit, Observe, cnf
<1>8. CASE AllDone \/ UNCHANGED allVars
  BY <1>1, <1>8 DEF AllDone, allVars, cnf
<1> QED
  BY <1>2, <1>3, <1>4, <1>5, <1>6, <1>7, <1>8 DEF Next, Work

\* After any history of secrets that come, change, become invalid and go, fetched
\* by any resources in any order, the secret files are those of the valid secrets
\* that the store has written, each with its current data, if no two secrets
\* share a file name (LocalSecretStore, Configurator.AddOrUpdateSecret).
THEOREM SecretFilesCurrentInvariant == Spec => []SecretFilesCurrent
<1>1. Init => StoreOK
  BY EmptyStoreOK DEF Init, StoreOK
<1>2. WorkerOK /\ StoreOK /\ [Next]_allVars => StoreOK'
  BY StoreStep
<1>3. StoreOK => SecretFilesCurrent
  BY DEF StoreOK, SecretFilesCurrent
<1> QED
  BY <1>1, <1>2, <1>3, WorkerInvariant, PTL DEF Spec

-----------------------------------------------------------------------------
(* The types of the rest of the state *)

\* No two objects of a set have the same key.
OnePerKey(objects) == \A o, p \in objects : Key(o) = Key(p) => o = p

\* The API server and the listers hold one version of an object.
VersionsOK == OnePerKey(cluster) /\ OnePerKey(lister)

\* A plan: the calls that a sync function has left, about objects of the world.
PlanOps == {"write", "refresh", "config", "endpoints", "special", "delete", "report"}
PlanSteps(args) == [op : PlanOps, res : SUBSET ObjectsOf(world), arg : args]
IsPlan(plan) == \E args : plan \in Seq(PlanSteps(args))

\* What is left of the current task.
JobOK ==
  /\ configured \subseteq ObjectsOf(world)
  /\ job = [built |-> job.built, exes |-> job.exes, plan |-> job.plan]
  /\ IsPlan(job.plan)
  /\ current = {} => job = IdleJob

\* The files of the Configurator.
DiskOK ==
  /\ disk = [conf |-> disk.conf, ap |-> disk.ap, sigs |-> disk.sigs, params |-> disk.params,
             special |-> disk.special]
  /\ DOMAIN disk.conf \subseteq Keys

\* The bounds, and the results of reloads.
CountersOK ==
  /\ events \in 0 .. World.events /\ failures \in 0 .. MaxFailures
  /\ reload \in {"ok", "failed"}

\* The leader elector writes one status at a time.
LeaderOK ==
  /\ leader = [is |-> leader.is, todo |-> leader.todo, held |-> leader.held, stale |-> leader.stale]
  /\ leader.is \in BOOLEAN
  /\ leader.held = {} \/ \E k \in leader.held : leader.held = {k}

\* A set with at most one element.
LEMMA AtMostOne ==
  ASSUME NEW S, \A x, y \in S : x = y
  PROVE  Cardinality(S) <= 1
<1>1. CASE S = {}
  BY <1>1, FS_EmptySet
<1>2. CASE S # {}
  <2>1. PICK x : S = {x}
    BY <1>2
  <2> QED
    BY <2>1, FS_Singleton
<1> QED
  BY <1>1, <1>2

\* Edits and informers keep one version of each object.
LEMMA VersionsStep ==
  ASSUME WorkerOK, VersionsOK, [Next]_allVars
  PROVE  VersionsOK'
<1>1. ASSUME UNCHANGED <<cluster, lister>>
      PROVE  VersionsOK'
  BY <1>1 DEF VersionsOK
<1>2. CASE EditPut
  <2>1. PICK o \in World.variants :
          LET missing == IF At(cluster, EndpointsKey(Key(o))) = {}
                           THEN At(World.objects, EndpointsKey(Key(o))) \ At(World.objects, Key(o)) ELSE {}
          IN Edit((cluster \ At(cluster, Key(o))) \cup {o} \cup missing)
    BY <1>2 DEF EditPut
  <2> DEFINE twin == EndpointsKey(Key(o))
             missing == IF At(cluster, twin) = {}
                          THEN At(World.objects, twin) \ At(World.objects, Key(o)) ELSE {}
  <2>2. cluster' = (cluster \ At(cluster, Key(o))) \cup {o} \cup missing /\ UNCHANGED lister
    BY <2>1 DEF Edit
  <2>3. OnePerKey(World.objects)
    BY DependentsAssumption DEF DependentsAssumption, World, WorkerOK, OnePerKey
  <2>4. \A m \in missing : m \in World.objects /\ Key(m) = twin /\ Key(m) # Key(o)
                             /\ At(cluster, twin) = {}
    BY DEF At
  <2> HIDE DEF missing, twin
  <2>5. OnePerKey(cluster')
    BY <2>2, <2>3, <2>4 DEF OnePerKey, VersionsOK, At
  <2> QED
    BY <2>2, <2>5 DEF VersionsOK
<1>3. CASE EditRemove
  <2>1. cluster' \subseteq cluster /\ UNCHANGED lister
    BY <1>3 DEF EditRemove, Edit
  <2> QED
    BY <2>1 DEF VersionsOK, OnePerKey
<1>4. CASE Observe
  BY <1>4 DEF Observe, VersionsOK, OnePerKey, At
<1>5. CASE Work
  BY <1>1, <1>5 DEF Work, StartSync, Build, Write, UpdateEndpoints, UpdateSpecialSecret,
       DeleteConfig, Report, FinishSync
<1>6. CASE Load \/ RotateKey \/ Rotate \/ BecomeLeader \/ Lead \/ LoseLeadership \/ ObserveStatus
  BY <1>1, <1>6 DEF Load, RotateKey, Rotate, RotateCert, RotateReload, BecomeLeader, Lead,
       LeaderReadsStatus, LeaderWritesStatus, LoseLeadership, ObserveStatus
<1>7. CASE AllDone \/ UNCHANGED allVars
  BY <1>1, <1>7 DEF AllDone, allVars
<1> QED
  BY <1>2, <1>3, <1>4, <1>5, <1>6, <1>7 DEF Next

\* The bounds are kept.
LEMMA CountersStep ==
  ASSUME WorkerOK, CountersOK, [Next]_allVars
  PROVE  CountersOK'
<1>1. World.events \in Nat /\ MaxFailures \in Nat
  BY DependentsAssumption DEF DependentsAssumption, World, WorkerOK
<1>2. UNCHANGED world
  BY DEF Next, Work, StartSync, Build, Write, UpdateEndpoints, UpdateSpecialSecret, DeleteConfig,
       Report, FinishSync, Load, RotateKey, Rotate, RotateCert, RotateReload, BecomeLeader, Lead,
       LeaderReadsStatus, LeaderWritesStatus, LoseLeadership, EditPut, EditRemove, Edit, Observe,
       ObserveStatus, AllDone, allVars
<1>3. UNCHANGED events \/ (MayHappen /\ events' = events + 1)
  BY DEF Next, Work, StartSync, Build, Write, UpdateEndpoints, UpdateSpecialSecret, DeleteConfig,
       Report, FinishSync, Load, RotateKey, Rotate, RotateCert, RotateReload, BecomeLeader, Lead,
       LeaderReadsStatus, LeaderWritesStatus, LoseLeadership, EditPut, EditRemove, Edit, Observe,
       ObserveStatus, AllDone, allVars
<1>4. /\ UNCHANGED failures \/ (MayFail /\ failures' = failures + 1)
      /\ UNCHANGED reload \/ reload' \in {"ok", "failed"}
  BY DEF Next, Work, StartSync, Build, Write, UpdateEndpoints, UpdateSpecialSecret, DeleteConfig,
       Report, FinishSync, Load, RotateKey, Rotate, RotateCert, RotateReload, BecomeLeader, Lead,
       LeaderReadsStatus, LeaderWritesStatus, LoseLeadership, EditPut, EditRemove, Edit, Observe,
       ObserveStatus, AllDone, allVars, nginx, Reload
<1>5. World' = World
  BY <1>2 DEF World
<1>6. events' \in 0 .. World.events
  BY <1>1, <1>3 DEF CountersOK, MayHappen
<1>7. failures' \in 0 .. MaxFailures
  BY <1>1, <1>4 DEF CountersOK, MayFail
<1> QED
  BY <1>4, <1>5, <1>6, <1>7 DEF CountersOK

\* The elector takes up one Ingress at a time.
LEMMA LeaderStep ==
  ASSUME LeaderOK, [Next]_allVars
  PROVE  LeaderOK'
<1>1. CASE BecomeLeader
  BY <1>1 DEF BecomeLeader, LeaderOK
<1>2. CASE LeaderReadsStatus
  <2>1. PICK k \in leader.todo :
          \/ leader' = [leader EXCEPT !.todo = @ \ {k}]
          \/ leader' = [leader EXCEPT !.todo = @ \ {k}, !.stale = @ \ {k}]
          \/ leader' = [leader EXCEPT !.todo = @ \ {k}, !.held = {[key |-> k, status |-> su.status]}]
    BY <1>2 DEF LeaderReadsStatus, LeaderReads
  <2>2. leader.held = {}
    BY <1>2 DEF LeaderReadsStatus
  <2> QED
    BY <2>1, <2>2 DEF LeaderOK
<1>3. CASE LeaderWritesStatus
  BY <1>3 DEF LeaderWritesStatus, LeaderOK
<1>4. CASE LoseLeadership
  BY <1>4 DEF LoseLeadership, LeaderOK
<1>5. CASE Write \/ Report
  <2>1. PICK keys : UNCHANGED leader \/ leader' = [leader EXCEPT !.stale = @ \ keys]
    BY <1>5 DEF Write, Report, ReportStatus, election
  <2> QED
    BY <2>1 DEF LeaderOK
<1>6. CASE UNCHANGED leader
  BY <1>6 DEF LeaderOK
<1> QED
  BY <1>1, <1>2, <1>3, <1>4, <1>5, <1>6
     DEF Next, Work, StartSync, Build, UpdateEndpoints, UpdateSpecialSecret, DeleteConfig,
       FinishSync, Load, RotateKey, Rotate, RotateCert, RotateReload, Lead, EditPut, EditRemove, Edit,
       Observe, ObserveStatus, AllDone, allVars, election

-----------------------------------------------------------------------------
(* Plans *)

\* The empty plan, and a plan of one call.
LEMMA ShortPlan ==
  /\ IsPlan(<<>>)
  /\ \A op \in PlanOps : \A res \in SUBSET ObjectsOf(world) : \A arg : IsPlan(<<Step(op, res, arg)>>)
<1>1. IsPlan(<<>>)
  BY DEF IsPlan
<1>2. ASSUME NEW op \in PlanOps, NEW res \in SUBSET ObjectsOf(world), NEW arg
      PROVE  IsPlan(<<Step(op, res, arg)>>)
  <2>1. Step(op, res, arg) \in PlanSteps({arg})
    BY DEF Step, PlanSteps
  <2>2. \A S : \A s \in S : <<s>> \in Seq(S)
    OBVIOUS
  <2>3. <<Step(op, res, arg)>> \in Seq(PlanSteps({arg}))
    BY <2>1, <2>2, Zenon
  <2> QED
    BY <2>3 DEF IsPlan
<1> QED
  BY <1>1, <1>2

\* Two plans, one after the other.
LEMMA LongPlan ==
  ASSUME NEW p, NEW q, IsPlan(p), IsPlan(q)
  PROVE  IsPlan(p \o q)
<1>1. PICK a : p \in Seq(PlanSteps(a))
  BY DEF IsPlan
<1>2. PICK b : q \in Seq(PlanSteps(b))
  BY DEF IsPlan
<1>3. PlanSteps(a) \subseteq PlanSteps(a \cup b) /\ PlanSteps(b) \subseteq PlanSteps(a \cup b)
  BY DEF PlanSteps
<1>4. p \in Seq(PlanSteps(a \cup b)) /\ q \in Seq(PlanSteps(a \cup b))
  BY <1>1, <1>2, <1>3, SeqMonotonic
<1>5. p \o q \in Seq(PlanSteps(a \cup b))
  BY <1>4, ConcatProperties
<1> QED
  BY <1>5 DEF IsPlan

\* The rest of a plan.
LEMMA RestOfPlan ==
  ASSUME NEW p, IsPlan(p), p # <<>>
  PROVE  /\ IsPlan(Tail(p))
         /\ Head(p).res \subseteq ObjectsOf(world)
         /\ \A i \in DOMAIN p : p[i] = Head(p) \/ \E j \in DOMAIN Tail(p) : Tail(p)[j] = p[i]
<1>1. PICK a : p \in Seq(PlanSteps(a))
  BY DEF IsPlan
<1>2. \A s \in PlanSteps(a) : s.res \subseteq ObjectsOf(world)
  BY DEF PlanSteps
<1>3. /\ Tail(p) \in Seq(PlanSteps(a)) /\ Head(p) \in PlanSteps(a) /\ Head(p) = p[1]
      /\ Len(p) \in Nat /\ Len(Tail(p)) = Len(p) - 1 /\ DOMAIN p = 1 .. Len(p)
      /\ DOMAIN Tail(p) = 1 .. Len(p) - 1 /\ \A j \in 1 .. Len(p) - 1 : Tail(p)[j] = p[j + 1]
  BY <1>1, HeadTailProperties, LenProperties
<1>4. ASSUME NEW i \in DOMAIN p, p[i] # Head(p)
      PROVE  \E j \in DOMAIN Tail(p) : Tail(p)[j] = p[i]
  <2>1. i # 1 /\ i \in 1 .. Len(p)
    BY <1>3, <1>4
  <2>2. i - 1 \in DOMAIN Tail(p) /\ Tail(p)[i - 1] = p[(i - 1) + 1] /\ (i - 1) + 1 = i
    BY <2>1, <1>3
  <2> QED
    BY <2>2
<1>5. IsPlan(Tail(p))
  BY <1>3 DEF IsPlan
<1> QED
  BY <1>2, <1>3, <1>4, <1>5

\* The resources that the reference checkers find are configured.
LEMMA FoundResources ==
  ASSUME NEW key
  PROVE  FindResources(key) \subseteq configured /\ FindDependents(key) \subseteq configured
BY DEF FindResources, FindDependents

\* A call for a set of resources, if there are any.
LEMMA RewritePlan ==
  ASSUME NEW res, res \subseteq ObjectsOf(world)
  PROVE  IsPlan(Rewrite(res))
<1>1. CASE res = {}
  BY <1>1, ShortPlan DEF Rewrite
<1>2. CASE res # {}
  <2>1. Rewrite(res) = <<Step("write", res, {})>>
    BY <1>2, Zenon DEF Rewrite
  <2>2. "write" \in PlanOps
    BY DEF PlanOps
  <2> QED
    BY <2>1, <2>2, ShortPlan, Zenon
<1> QED
  BY <1>1, <1>2

\* A job that has just been planned.
LEMMA JobIs ==
  ASSUME NEW plan
  PROVE  Job(plan) = [built |-> FALSE, exes |-> <<>>, plan |-> plan] /\ Job(plan).plan = plan
BY DEF Job

\* Every sync function plans calls about configured resources, or about the
\* resource that is synced.
LEMMA StartPlan ==
  ASSUME WorkerOK, JobOK, StartSync
  PROVE  /\ job' = Job(job'.plan) /\ IsPlan(job'.plan)
         /\ configured' \subseteq ObjectsOf(world)
<1> DEFINE key == Head(queue.items)
<1>1. \A plan : job' = Job(plan) /\ IsPlan(plan) => job' = Job(job'.plan) /\ IsPlan(job'.plan)
  BY JobIs
<1>2. ASSUME NEW op \in PlanOps, NEW res, NEW arg, res \subseteq ObjectsOf(world)
      PROVE  IsPlan(<<Step(op, res, arg)>>)
  BY <1>2, ShortPlan, Zenon
<1>3. IsPlan(<<>>)
  BY ShortPlan
<1>4. {"write", "refresh", "config", "endpoints", "special", "delete", "report"} \subseteq PlanOps
  BY DEF PlanOps
<1>5. configured \subseteq ObjectsOf(world) /\ lister \subseteq ObjectsOf(world)
  BY DEF JobOK, WorkerOK
<1> HIDE DEF key
<1>6. CASE SyncSecret(key)
  <2>1. PICK special : job' = Job((IF special = {} THEN <<>> ELSE <<Step("special", {}, special)>>)
                                    \o Rewrite(FindDependents(key)))
    BY <1>6 DEF SyncSecret
  <2> DEFINE first == IF special = {} THEN <<>> ELSE <<Step("special", {}, special)>>
             rest == Rewrite(FindDependents(key))
  <2>2. IsPlan(first)
    BY <1>2, <1>3, <1>4, Zenon
  <2>3. IsPlan(rest)
    BY <1>5, FoundResources, RewritePlan
  <2> HIDE DEF first, rest
  <2>4. IsPlan(first \o rest)
    BY <2>2, <2>3, LongPlan
  <2> QED
    BY <2>1, <2>4, <1>1, <1>5, <1>6 DEF first, rest, SyncSecret
<1>7. CASE SyncPolicy(key)
  <2>1. IsPlan(Rewrite(FindResources(key)))
    BY <1>5, FoundResources, RewritePlan
  <2> QED
    BY <2>1, <1>1, <1>5, <1>7 DEF SyncPolicy, cnf
<1>8. CASE SyncAppProtectPolicy(key) \/ SyncAppProtectLogConf(key)
  <2> DEFINE change == apChange'
             dep == FindDependents(<<change.kind, change.name>>)
  <2>1. job' = Job(AppProtectPlan(change)) /\ UNCHANGED configured
    BY <1>8 DEF SyncAppProtectPolicy, SyncAppProtectLogConf, cnf
  <2> HIDE DEF change
  <2>2. PICK arg : AppProtectPlan(change) \in {<<>>, <<Step("write", dep, arg)>>}
    BY Zenon DEF AppProtectPlan
  <2>3. dep \subseteq ObjectsOf(world)
    BY <1>5, FoundResources
  <2> HIDE DEF dep
  <2>4. IsPlan(<<Step("write", dep, arg)>>)
    BY <2>3, <1>2, <1>4
  <2>5. IsPlan(AppProtectPlan(change))
    BY <2>2, <2>4, <1>3
  <2> QED
    BY <2>1, <2>5, <1>1, <1>5
<1>9. CASE SyncAppProtectUserSig(key)
  <2> DEFINE change == apChange'
             dep == UNION {FindDependents(<<"APPolicy", n>>) :
                             n \in change.PolicyAddsOrUpdates \cup change.PolicyDeletions}
             sigs == change.UserSigs
  <2>1. job' = Job(UserSigPlan(change)) /\ UNCHANGED configured
    BY <1>9 DEF SyncAppProtectUserSig, cnf
  <2>2. UserSigPlan(change) = <<Step("refresh", dep, sigs)>>
    BY Zenon DEF UserSigPlan
  <2>3. dep \subseteq ObjectsOf(world)
    BY <1>5, FoundResources
  <2> HIDE DEF change, dep, sigs
  <2>4. IsPlan(<<Step("refresh", dep, sigs)>>)
    BY <2>3, <1>2, <1>4
  <2> QED
    BY <2>1, <2>2, <2>4, <1>1, <1>5
<1>10. CASE SyncConfigMap(key)
  <2> DEFINE all == {r \in configured : r.kind # "TransportServer"}
  <2>1. PICK op \in {"report", "config"} : job' = Job(<<Step(op, all, {})>>)
    BY <1>10 DEF SyncConfigMap
  <2>2. all \subseteq ObjectsOf(world)
    BY <1>5
  <2> HIDE DEF all
  <2>3. IsPlan(<<Step(op, all, {})>>)
    BY <2>2, <1>2, <1>4
  <2> QED
    BY <2>1, <2>3, <1>1, <1>5, <1>10 DEF SyncConfigMap
<1>11. CASE SyncService(key)
  <2> DEFINE all == Ingresses(configured)
             first == IF key[2] = World.external THEN <<Step("report", all, {})>> ELSE <<>>
             rest == Rewrite(FindResources(key))
  <2>1. job' = Job(first \o rest)
    BY <1>11 DEF SyncService
  <2>2. all \subseteq ObjectsOf(world)
    BY <1>5 DEF Ingresses, OfKind
  <2> HIDE DEF all
  <2>3. IsPlan(<<Step("report", all, {})>>)
    BY <2>2, <1>2, <1>4
  <2>4. IsPlan(first)
    BY <2>3, <1>3
  <2>5. IsPlan(rest)
    BY <1>5, FoundResources, RewritePlan
  <2> HIDE DEF first, rest
  <2>6. IsPlan(first \o rest)
    BY <2>4, <2>5, LongPlan
  <2> QED
    BY <2>1, <2>6, <1>1, <1>5, <1>11 DEF SyncService
<1>12. CASE SyncIngressLink(key)
  <2>1. Ingresses(configured) \subseteq ObjectsOf(world)
    BY <1>5 DEF Ingresses, OfKind
  <2>2. IsPlan(<<Step("report", Ingresses(configured), {})>>)
    BY <2>1, <1>2, <1>4
  <2> QED
    BY <2>2, <1>1, <1>5, <1>12 DEF SyncIngressLink
<1>13. CASE SyncEndpoints(key)
  <2> DEFINE res == IF At(lister, key) = {} THEN {} ELSE FindResources(key)
             g(role) == {r \in res : r.role = role}
             group(role) == IF g(role) = {} THEN <<>> ELSE <<Step("endpoints", g(role), {})>>
             i == group("Ingress")
             m == group("Master")
             v == group("VirtualServer")
             t == group("TransportServer")
  <2>1. job' = Job(i \o m \o v \o t)
    BY <1>13 DEF SyncEndpoints
  <2>2. ASSUME NEW role PROVE IsPlan(group(role))
    <3>1. g(role) \subseteq ObjectsOf(world)
      BY <1>5, FoundResources
    <3> HIDE DEF g
    <3>2. IsPlan(<<Step("endpoints", g(role), {})>>)
      BY <3>1, <1>2, <1>4
    <3> QED
      BY <3>2, <1>3
  <2>3. IsPlan(i) /\ IsPlan(m) /\ IsPlan(v) /\ IsPlan(t)
    BY <2>2
  <2> HIDE DEF i, m, v, t
  <2>4. IsPlan(i \o m)
    BY <2>3, LongPlan
  <2>5. IsPlan(i \o m \o v)
    BY <2>3, <2>4, LongPlan
  <2>6. IsPlan(i \o m \o v \o t)
    BY <2>3, <2>5, LongPlan
  <2> QED
    BY <2>1, <2>6, <1>1, <1>5, <1>13 DEF SyncEndpoints, cnf
<1>14. CASE SyncResource(key)
  <2> DEFINE new == At(lister, key)
  <2>1. PICK plan \in {<<>>, <<Step("delete", {}, {key})>>, Rewrite(new)} : job' = Job(plan)
    BY <1>14, Zenon DEF SyncResource
  <2>2. new \subseteq ObjectsOf(world)
    BY <1>5 DEF At
  <2> HIDE DEF new
  <2>3. IsPlan(Rewrite(new))
    BY <2>2, RewritePlan
  <2>4. IsPlan(<<Step("delete", {}, {key})>>)
    BY <1>2, <1>4
  <2>5. configured' \subseteq ObjectsOf(world)
    BY <2>2, <1>5, <1>14 DEF SyncResource, new
  <2> QED
    BY <2>1, <2>3, <2>4, <2>5, <1>1, <1>3
<1> QED
  BY <1>6, <1>7, <1>8, <1>9, <1>10, <1>11, <1>12, <1>13, <1>14 DEF StartSync, key

\* The world does not change.
LEMMA SameWorld ==
  ASSUME [Next]_allVars
  PROVE  UNCHANGED world
BY DEF Next, Work, StartSync, Build, Write, UpdateEndpoints, UpdateSpecialSecret, DeleteConfig,
     Report, FinishSync, Load, RotateKey, Rotate, RotateCert, RotateReload, BecomeLeader, Lead,
     LeaderReadsStatus, LeaderWritesStatus, LoseLeadership, ObserveStatus, EditPut, EditRemove, Edit, Observe,
     AllDone, allVars

\* The calls of the Configurator and the status updater work a plan off.
LEMMA CallStep ==
  ASSUME WorkerOK, JobOK, Write \/ UpdateEndpoints \/ UpdateSpecialSecret \/ DeleteConfig \/ Report
  PROVE  /\ job' = [built |-> job.built, exes |-> job.exes, plan |-> Tail(job.plan)]
         /\ job.plan # <<>> /\ IsPlan(job'.plan)
         /\ UNCHANGED <<world, configured, current, queue, lister, cluster, su>>
<1>1. /\ job' = [job EXCEPT !.plan = Tail(@)] /\ job.plan # <<>>
      /\ UNCHANGED <<world, configured, current, queue, lister, cluster, su>>
  BY DEF Write, UpdateEndpoints, UpdateSpecialSecret, DeleteConfig, Report, Doing, cnf
<1>2. job = [built |-> job.built, exes |-> job.exes, plan |-> job.plan] /\ IsPlan(job.plan)
  BY DEF JobOK
<1>3. job' = [built |-> job.built, exes |-> job.exes, plan |-> Tail(job.plan)]
  BY <1>1, <1>2
<1>4. IsPlan(Tail(job.plan))
  BY <1>1, <1>2, RestOfPlan
<1> QED
  BY <1>1, <1>3, <1>4

\* Every step keeps the job well-formed.
LEMMA JobStep ==
  ASSUME WorkerOK, JobOK, [Next]_allVars
  PROVE  JobOK'
<1>1. ObjectsOf(world)' = ObjectsOf(world) /\ UNCHANGED world
  BY SameWorld DEF ObjectsOf
<1>2. ASSUME /\ configured' \subseteq ObjectsOf(world)
             /\ job' = [built |-> job'.built, exes |-> job'.exes, plan |-> job'.plan]
             /\ IsPlan(job'.plan)
             /\ current' = {} => job' = IdleJob
      PROVE  JobOK'
  BY <1>1, <1>2 DEF JobOK, IsPlan, PlanSteps, ObjectsOf
<1>3. ASSUME UNCHANGED <<configured, job, current>>
      PROVE  JobOK'
  BY <1>2, <1>3 DEF JobOK
<1>4. CASE StartSync
  <2>1. current' # {}
    BY <1>4 DEF StartSync
  <2>2. job' = [built |-> job'.built, exes |-> job'.exes, plan |-> job'.plan]
    BY <1>4, StartPlan, JobIs
  <2> QED
    BY <2>1, <2>2, <1>2, <1>4, StartPlan
<1>5. CASE Build
  <2>1. current # {} /\ UNCHANGED <<configured, current>>
    BY <1>5, BusyWorker DEF Build
  <2>2. PICK exes : job' = [job EXCEPT !.built = TRUE, !.exes = exes]
    BY <1>5 DEF Build
  <2>3. job = [built |-> job.built, exes |-> job.exes, plan |-> job.plan]
    BY DEF JobOK
  <2>4. job' = [built |-> TRUE, exes |-> exes, plan |-> job.plan]
    BY <2>2, <2>3
  <2> QED
    BY <2>1, <2>4, <1>2 DEF JobOK
<1>6. CASE Write \/ UpdateEndpoints \/ UpdateSpecialSecret \/ DeleteConfig \/ Report
  <2>1. current # {}
    BY <1>6, BusyWorker DEF Write, UpdateEndpoints, UpdateSpecialSecret, DeleteConfig, Report
  <2> QED
    BY <2>1, <1>2, <1>6, CallStep DEF JobOK
<1>7. CASE FinishSync
  <2>1. job' = Job(<<>>) /\ UNCHANGED configured
    BY <1>7 DEF FinishSync, IdleJob, cnf
  <2>2. IsPlan(job'.plan) /\ job' = [built |-> job'.built, exes |-> job'.exes, plan |-> job'.plan]
    BY <2>1, ShortPlan, JobIs
  <2> QED
    BY <2>1, <2>2, <1>2 DEF JobOK, IdleJob
<1>8. CASE Load \/ RotateKey \/ Rotate \/ BecomeLeader \/ Lead \/ LoseLeadership \/ ObserveStatus
  BY <1>3, <1>8 DEF Load, RotateKey, Rotate, RotateCert, RotateReload, BecomeLeader, Lead,
       LeaderReadsStatus, LeaderWritesStatus, LoseLeadership, ObserveStatus, cnf, worker
<1>9. CASE EditPut \/ EditRemove \/ Observe \/ AllDone \/ UNCHANGED allVars
  BY <1>3, <1>9 DEF EditPut, EditRemove, Edit, Observe, AllDone, allVars, cnf, worker
<1> QED
  BY <1>4, <1>5, <1>6, <1>7, <1>8, <1>9 DEF Next, Work

\* The config files are those of objects of the world.
LEMMA DiskStep ==
  ASSUME WorkerOK, JobOK, DiskOK, [Next]_allVars
  PROVE  DiskOK'
<1>1. Keys' = Keys
  BY SameWorld DEF Keys, World
<1>2. ASSUME UNCHANGED disk
      PROVE  DiskOK'
  BY <1>1, <1>2 DEF DiskOK
<1>3. CASE Write \/ UpdateEndpoints
  <2> DEFINE exes == [k \in {Key(r) : r \in This.res} |-> job.exes[k]]
  <2>1. /\ disk' = Written(This) /\ job.plan # <<>> /\ IsPlan(job.plan)
        /\ This.op \in {"write", "refresh", "config", "endpoints"}
    BY <1>3 DEF Write, UpdateEndpoints, Doing, This, Generating, JobOK
  <2>2. This.res \subseteq ObjectsOf(world)
    BY <2>1, RestOfPlan DEF This
  <2>3. DOMAIN exes \subseteq Keys
    BY <2>2, KeysOfWorld
  <2>4. disk' \in {WriteConfigs(RemoveApFiles(disk, This.arg), exes),
                   WriteUserSigs(WriteConfigs(disk, exes), This.arg),
                   WriteConfigs(WriteMainConfig(disk), exes), WriteConfigs(disk, exes)}
    BY <2>1 DEF Written
  <2> HIDE DEF exes
  <2> DEFINE IsDisk(d) == /\ d = [conf |-> d.conf, ap |-> d.ap, sigs |-> d.sigs, params |-> d.params,
                                  special |-> d.special]
                          /\ DOMAIN d.conf \subseteq Keys
  <2>5. IsDisk(disk)
    BY DEF DiskOK
  <2>6. ASSUME NEW d, IsDisk(d)
        PROVE  IsDisk(WriteConfigs(d, exes))
    <3> DEFINE c == Override(d.conf, exes)
               a == Override(d.ap, ApFiles(exes))
    <3>1. DOMAIN c \subseteq Keys
      BY <2>3, <2>6 DEF Override
    <3>2. WriteConfigs(d, exes) = [d EXCEPT !.conf = c, !.ap = a]
      BY Zenon DEF WriteConfigs
    <3> HIDE DEF c, a
    <3>3. WriteConfigs(d, exes) = [conf |-> c, ap |-> a, sigs |-> d.sigs, params |-> d.params,
                                   special |-> d.special]
      BY <3>2, <2>6
    <3> QED
      BY <3>1, <3>3
  <2>7. \A d, arg : IsDisk(d) => IsDisk(WriteUserSigs(d, arg)) /\ IsDisk(WriteMainConfig(d))
    BY DEF WriteUserSigs, WriteMainConfig
  <2>8. \A arg : IsDisk(RemoveApFiles(disk, arg))
    BY <2>5 DEF RemoveApFiles
  <2> HIDE DEF IsDisk
  <2>9. IsDisk(disk')
    BY <2>4, <2>5, <2>6, <2>7, <2>8
  <2> QED
    BY <2>9, <1>1 DEF IsDisk, DiskOK
<1>4. CASE UpdateSpecialSecret
  BY <1>1, <1>4 DEF UpdateSpecialSecret, DiskOK
<1>5. CASE DeleteConfig
  <2>1. disk' = [disk EXCEPT !.conf = [k \in DOMAIN disk.conf \ This.arg |-> disk.conf[k]]]
    BY <1>5 DEF DeleteConfig
  <2> DEFINE c == [k \in DOMAIN disk.conf \ This.arg |-> disk.conf[k]]
  <2>2. DOMAIN c \subseteq Keys
    BY DEF DiskOK
  <2> HIDE DEF c
  <2>3. disk' = [conf |-> c, ap |-> disk.ap, sigs |-> disk.sigs, params |-> disk.params,
                 special |-> disk.special]
    BY <2>1 DEF DiskOK, c
  <2> QED
    BY <2>2, <2>3, <1>1 DEF DiskOK
<1>6. CASE StartSync \/ Build \/ Report \/ FinishSync
  BY <1>2, <1>6 DEF StartSync, Build, Report, FinishSync, nginx
<1>7. CASE Load \/ RotateKey \/ Rotate \/ BecomeLeader \/ Lead \/ LoseLeadership \/ ObserveStatus
  BY <1>2, <1>7 DEF Load, RotateKey, Rotate, RotateCert, RotateReload, BecomeLeader, Lead,
       LeaderReadsStatus, LeaderWritesStatus, LoseLeadership, ObserveStatus, nginx
<1>8. CASE EditPut \/ EditRemove \/ Observe \/ AllDone \/ UNCHANGED allVars
  BY <1>2, <1>8 DEF EditPut, EditRemove, Edit, Observe, AllDone, allVars, nginx
<1> QED
  BY <1>3, <1>4, <1>5, <1>6, <1>7, <1>8 DEF Next, Work

\* The invariants that give every variable its type.
TypesOK == WorkerOK /\ RotationOK /\ SVIDNotTorn /\ VersionsOK /\ JobOK /\ DiskOK /\ CountersOK /\ LeaderOK

\* Initially nothing is configured, and no file is written.
LEMMA TypesInit == Init => TypesOK
<1> SUFFICES ASSUME Init PROVE TypesOK
  OBVIOUS
<1>1. WorkerOK /\ RotationOK /\ SVIDNotTorn
  BY WorkerInit, RotationInit
<1>2. world \in DOMAIN Worlds
  BY DEF Init
<1>3. VersionsOK
  BY <1>2, DependentsAssumption DEF Init, DependentsAssumption, VersionsOK, OnePerKey, World
<1>4. JobOK
  <2>1. job = Job(<<>>) /\ configured = {} /\ current = {}
    BY DEF Init, IdleJob
  <2> QED
    BY <2>1, JobIs, ShortPlan DEF JobOK, IdleJob
<1>5. DiskOK
  <2>1. \A f : f = <<>> => DOMAIN f = {}
    OBVIOUS
  <2>2. PICK params, special :
          disk = [conf |-> <<>>, ap |-> <<>>, sigs |-> {}, params |-> params, special |-> special]
    BY DEF Init
  <2> QED
    BY <2>1, <2>2 DEF DiskOK
<1>6. CountersOK
  <2>1. World.events \in Nat /\ MaxFailures \in Nat
    BY <1>2, DependentsAssumption DEF DependentsAssumption, World
  <2> QED
    BY <2>1 DEF Init, CountersOK
<1>7. LeaderOK
  BY DEF Init, LeaderOK
<1> QED
  BY <1>1, <1>3, <1>4, <1>5, <1>6, <1>7 DEF TypesOK

\* They are inductive together.
LEMMA TypesInvariant == Spec => []TypesOK
<1>1. Init => TypesOK
  BY TypesInit
<1>2. TypesOK /\ [Next]_allVars => TypesOK'
  BY WorkerStep, RotationStep, VersionsStep, JobStep, DiskStep, CountersStep, LeaderStep DEF TypesOK
<1> QED
  BY <1>1, <1>2, PTL DEF Spec

\* For any worlds, every variable keeps its type: there is one version of an object
\* in the API server and in a lister, the worker holds one task, which is the one
\* that the queue counts as processed, and there are config files only for objects
\* that there have been (sync, taskQueue, Configurator).
THEOREM DependentsTypeCorrect == Spec => []DependentsTypeOK
<1>1. TypesOK => DependentsTypeOK
  <2> SUFFICES ASSUME TypesOK PROVE DependentsTypeOK
    OBVIOUS
  <2>1. \A k : Cardinality(At(cluster, k)) <= 1 /\ Cardinality(At(lister, k)) <= 1
    <3>1. \A k : (\A x, y \in At(cluster, k) : x = y) /\ (\A x, y \in At(lister, k) : x = y)
      BY DEF TypesOK, VersionsOK, OnePerKey, At
    <3> QED
      BY <3>1, AtMostOne
  <2>2. Cardinality(current) <= 1
    <3>1. \A x, y \in current : x = y
      BY DEF TypesOK, WorkerOK
    <3> QED
      BY <3>1, AtMostOne
  <2>3. Cardinality(leader.held) <= 1
    <3>1. \A x, y \in leader.held : x = y
      BY DEF TypesOK, LeaderOK
    <3> QED
      BY <3>1, AtMostOne
  <2>4. queue.dirty \subseteq Keys
    BY DEF TypesOK, WorkerOK, Queues
  <2>5. ObjectsOf(world) = World.objects \cup World.variants
    BY DEF ObjectsOf, World
  <2> QED
    BY <2>1, <2>2, <2>3, <2>4, <2>5
       DEF DependentsTypeOK, TypesOK, WorkerOK, RotationOK, JobOK, DiskOK, CountersOK, LeaderOK
<1> QED
  BY <1>1, TypesInvariant, PTL

-----------------------------------------------------------------------------
(* The addresses in the statuses *)

IngressKeys == {k \in Keys : k[1] = "Ingress"}
ServiceKey == <<"Service", World.external>>
Links(objects) == OfKind(objects, "IngressLink")

\* The queue of a running controller takes every task.
QueueOpen == queue.shuttingDown = FALSE

\* The status updater knows the sources as the listers hold them, unless the
\* task that tells it is queued.
MapKnown ==
  \A o \in OfKind(lister, "ConfigMap") : Key(o) \in queue.dirty \/ su.externalStatusAddress = o.address

ServiceKnown ==
  \/ ServiceKey \in queue.dirty
  \/ At(lister, ServiceKey) = {} /\ su.externalServiceAddresses = <<>>
  \/ \E s \in At(lister, ServiceKey) : su.externalServiceAddresses = s.addresses

LinkKnown ==
  \/ \E o \in Links(ObjectsOf(world)) : Key(o) \in queue.dirty
  \/ Links(lister) = {} /\ su.bigIPAddress = NoAddress
  \/ \E o \in Links(lister) : su.bigIPAddress = o.ip

\* An updater, its sources one by one.
IsUpdater(u) ==
  u = [externalStatusAddress |-> u.externalStatusAddress,
       externalServiceAddresses |-> u.externalServiceAddresses,
       bigIPAddress |-> u.bigIPAddress, status |-> u.status]

\* The status is the one that the known sources call for.
StatusFollows(u) ==
  LET r == Reportable(u.externalStatusAddress, u.externalServiceAddresses, u.bigIPAddress)
  IN u.status = r \/ (r = <<>> /\ u.status = <<NoAddress>>)

\* There are no addresses without their source, so never both a service's and an
\* IngressLink's.
UpdaterOK ==
  /\ IsUpdater(su) /\ StatusFollows(su)
  /\ su.externalServiceAddresses # <<>> => At(ObjectsOf(world), ServiceKey) # {}
  /\ su.bigIPAddress # NoAddress => Links(ObjectsOf(world)) # {}

\* What the operations of the queue do to the set of waiting tasks.
LEMMA WaitingTasks ==
  ASSUME WorkerOK, QueueOpen, [Next]_allVars
  PROVE  /\ QueueOpen'
         /\ StartSync => queue'.dirty = queue.dirty \ {Head(queue.items)}
         /\ ~StartSync => queue.dirty \subseteq queue'.dirty
         /\ ~StartSync /\ ~Observe => queue'.dirty = queue.dirty
<1>1. queue = [items |-> queue.items, dirty |-> queue.dirty, processing |-> queue.processing,
               shuttingDown |-> queue.shuttingDown]
  BY DEF WorkerOK, Queues
<1>2. \/ StartSync /\ queue' = Get(queue)
      \/ FinishSync /\ \E t : queue' = Done(queue, t)
      \/ Observe /\ \E t : queue' = Add(queue, t)
      \/ UNCHANGED queue
  <2>1. StartSync => queue' = Get(queue)
    BY DEF StartSync
  <2>2. FinishSync => \E t : queue' = Done(queue, t)
    BY DEF FinishSync
  <2>3. Observe => (\E t : queue' = Add(queue, t)) \/ UNCHANGED queue
    BY DEF Observe
  <2>4. Build \/ Write \/ UpdateEndpoints => UNCHANGED queue
    BY DEF Build, Write, UpdateEndpoints
  <2>5. UpdateSpecialSecret \/ DeleteConfig \/ Report => UNCHANGED queue
    BY DEF UpdateSpecialSecret, DeleteConfig, Report
  <2>6. Load \/ RotateKey \/ Rotate => UNCHANGED queue
    BY DEF Load, RotateKey, Rotate, RotateCert, RotateReload, worker
  <2>7. BecomeLeader \/ Lead \/ LoseLeadership \/ ObserveStatus => UNCHANGED queue
    BY DEF BecomeLeader, Lead, LeaderReadsStatus, LeaderWritesStatus, LoseLeadership, ObserveStatus, worker
  <2>8. EditPut \/ EditRemove => UNCHANGED queue
    BY DEF EditPut, EditRemove, Edit, worker
  <2>9. AllDone \/ UNCHANGED allVars => UNCHANGED queue
    BY DEF AllDone, allVars, worker
  <2> QED
    BY <2>1, <2>2, <2>3, <2>4, <2>5, <2>6, <2>7, <2>8, <2>9 DEF Next, Work
<1>3. Get(queue).dirty = queue.dirty \ {Head(queue.items)} /\ Get(queue).shuttingDown = queue.shuttingDown
  BY <1>1 DEF Get
<1>4. \A t : Done(queue, t).dirty = queue.dirty /\ Done(queue, t).shuttingDown = queue.shuttingDown
  BY <1>1 DEF Done
<1>5. \A t : /\ queue.dirty \subseteq Add(queue, t).dirty
             /\ Add(queue, t).shuttingDown = queue.shuttingDown
  BY <1>1 DEF Add
<1>6. StartSync => queue' = Get(queue)
  BY DEF StartSync
<1> QED
  BY <1>2, <1>3, <1>4, <1>5, <1>6 DEF QueueOpen

\* A task that an informer adds waits.
LEMMA AddedWaits ==
  ASSUME WorkerOK, QueueOpen, NEW t
  PROVE  Add(queue, t).dirty = queue.dirty \cup {t}
<1>1. queue = [items |-> queue.items, dirty |-> queue.dirty, processing |-> queue.processing,
               shuttingDown |-> queue.shuttingDown]
  BY DEF WorkerOK, Queues
<1> QED
  BY <1>1 DEF Add, QueueOpen

\* The steps that tell neither the worker nor the status updater anything.
LEMMA QuietStep ==
  ASSUME [Next]_allVars, ~StartSync, ~Observe
  PROVE  UNCHANGED <<lister, su, configured>>
BY DEF Next, Work, Build, Write, UpdateEndpoints, UpdateSpecialSecret, DeleteConfig,
     Report, FinishSync, Load, RotateKey, Rotate, RotateCert, RotateReload, BecomeLeader, Lead,
     LeaderReadsStatus, LeaderWritesStatus, LoseLeadership, ObserveStatus, EditPut, EditRemove, Edit,
     AllDone, allVars, cnf

\* A key of a world is the key of an object of it.
LEMMA KeyParts ==
  ASSUME NEW key \in Keys
  PROVE  \E o \in ObjectsOf(world) : key = <<o.kind, o.name>> /\ key[1] = o.kind /\ key[2] = o.name
BY KeysOfWorld DEF Key

\* There is one ConfigMap and one IngressLink.
LEMMA OneSource ==
  ASSUME WorkerOK, NEW key \in Keys, key[1] \in {"ConfigMap", "IngressLink"},
         NEW o \in ObjectsOf(world), o.kind = key[1]
  PROVE  Key(o) = key
<1>1. PICK p \in ObjectsOf(world) : key = <<p.kind, p.name>> /\ key[1] = p.kind
  BY KeyParts
<1>2. o.name = p.name
  BY <1>1, StatusSources DEF StatusSources, WorkerOK, ObjectsOf
<1> QED
  BY <1>1, <1>2 DEF Key

\* An external service excludes an IngressLink.
LEMMA SourcesExclude ==
  ASSUME WorkerOK
  PROVE  At(ObjectsOf(world), ServiceKey) = {} \/ Links(ObjectsOf(world)) = {}
<1>1. \A p \in At(ObjectsOf(world), ServiceKey) : p \in ObjectsOf(world) /\ p.kind = "Service" /\ p.name = World.external
  BY DEF At, ServiceKey, Key
<1>2. \A o \in Links(ObjectsOf(world)) : o \in ObjectsOf(world) /\ o.kind = "IngressLink"
  BY DEF Links, OfKind
<1>3. \A o, p \in ObjectsOf(world) : o.kind = "IngressLink" /\ p.kind = "Service" => p.name # World.external
  BY StatusSources DEF StatusSources, WorkerOK, ObjectsOf, World
<1> QED
  BY <1>1, <1>2, <1>3

\* What each sync function does to the status updater.
LEMMA SyncSu ==
  ASSUME WorkerOK, StartSync, NEW key, key = Head(queue.items)
  PROVE  /\ key[1] = "ConfigMap" => SyncConfigMap(key)
         /\ key[1] = "Service" => SyncService(key)
         /\ key[1] = "IngressLink" => SyncIngressLink(key)
         /\ key[1] \notin {"ConfigMap", "Service", "IngressLink"} => UNCHANGED su
         /\ UNCHANGED <<lister, cluster, told, leader>>
BY DEF StartSync, SyncSecret, SyncPolicy, SyncAppProtectPolicy, SyncAppProtectLogConf,
     SyncAppProtectUserSig, SyncEndpoints, SyncResource, cnf, ResourceKinds, election, statuses

\* The operations of the status updater keep the precedence of the sources, as
\* long as there is not both a service and an IngressLink.
LEMMA SavedExternalStatus ==
  ASSUME NEW u, IsUpdater(u), NEW address,
         u.externalServiceAddresses = <<>> \/ u.bigIPAddress = NoAddress
  PROVE  LET v == SaveStatusFromExternalStatus(u, address)
         IN /\ IsUpdater(v) /\ StatusFollows(v) /\ v.externalStatusAddress = address
            /\ v.externalServiceAddresses = u.externalServiceAddresses
            /\ v.bigIPAddress = u.bigIPAddress
<1> DEFINE status == IF address = NoAddress /\ u.externalServiceAddresses # <<>>
                       THEN u.externalServiceAddresses
                     ELSE IF address = NoAddress /\ u.bigIPAddress # NoAddress
                       THEN <<u.bigIPAddress>>
                     ELSE <<address>>
<1>1. SaveStatusFromExternalStatus(u, address) =
        [u EXCEPT !.externalStatusAddress = address, !.status = status]
  BY Zenon DEF SaveStatusFromExternalStatus
<1>2. LET r == Reportable(address, u.externalServiceAddresses, u.bigIPAddress)
      IN status = r \/ (r = <<>> /\ status = <<NoAddress>>)
  BY Zenon DEF Reportable
<1> HIDE DEF status
<1>3. SaveStatusFromExternalStatus(u, address) =
        [externalStatusAddress |-> address, externalServiceAddresses |-> u.externalServiceAddresses,
         bigIPAddress |-> u.bigIPAddress, status |-> status]
  BY <1>1 DEF IsUpdater
<1> QED
  BY <1>2, <1>3 DEF IsUpdater, StatusFollows

LEMMA SavedExternalService ==
  ASSUME NEW u, IsUpdater(u), StatusFollows(u), NEW addresses, u.bigIPAddress = NoAddress
  PROVE  LET v == SaveStatusFromExternalService(u, addresses)
         IN /\ IsUpdater(v) /\ StatusFollows(v) /\ v.externalServiceAddresses = addresses
            /\ v.externalStatusAddress = u.externalStatusAddress
            /\ v.bigIPAddress = u.bigIPAddress
<1> DEFINE status == IF u.externalStatusAddress # NoAddress THEN u.status ELSE addresses
<1>1. SaveStatusFromExternalService(u, addresses) =
        [u EXCEPT !.externalServiceAddresses = addresses, !.status = status]
  BY DEF SaveStatusFromExternalService
<1>2. <<u.externalStatusAddress>> # <<>>
  OBVIOUS
<1>3. LET r == Reportable(u.externalStatusAddress, addresses, u.bigIPAddress)
      IN status = r \/ (r = <<>> /\ status = <<NoAddress>>)
  BY <1>2, Zenon DEF Reportable, StatusFollows
<1> HIDE DEF status
<1>4. SaveStatusFromExternalService(u, addresses) =
        [externalStatusAddress |-> u.externalStatusAddress, externalServiceAddresses |-> addresses,
         bigIPAddress |-> u.bigIPAddress, status |-> status]
  BY <1>1 DEF IsUpdater
<1> QED
  BY <1>3, <1>4 DEF IsUpdater, StatusFollows

LEMMA SavedIngressLink ==
  ASSUME NEW u, IsUpdater(u), StatusFollows(u), NEW ip, u.externalServiceAddresses = <<>>
  PROVE  LET v == IF ip = NoAddress THEN ClearStatusFromIngressLink(u) ELSE SaveStatusFromIngressLink(u, ip)
         IN /\ IsUpdater(v) /\ StatusFollows(v) /\ v.bigIPAddress = ip
            /\ v.externalStatusAddress = u.externalStatusAddress
            /\ v.externalServiceAddresses = u.externalServiceAddresses
<1> DEFINE status == IF u.externalStatusAddress # NoAddress THEN u.status
                     ELSE IF ip = NoAddress THEN <<>> ELSE <<ip>>
           v == IF ip = NoAddress THEN ClearStatusFromIngressLink(u) ELSE SaveStatusFromIngressLink(u, ip)
<1>1. v = [externalStatusAddress |-> u.externalStatusAddress,
           externalServiceAddresses |-> u.externalServiceAddresses,
           bigIPAddress |-> ip, status |-> status]
  <2>1. CASE ip = NoAddress
    BY <2>1 DEF ClearStatusFromIngressLink, IsUpdater
  <2>2. CASE ip # NoAddress
    BY <2>2 DEF SaveStatusFromIngressLink, IsUpdater
  <2> QED
    BY <2>1, <2>2
<1>2. <<u.externalStatusAddress>> # <<>>
  OBVIOUS
<1>3. LET r == Reportable(u.externalStatusAddress, u.externalServiceAddresses, ip)
      IN status = r \/ (r = <<>> /\ status = <<NoAddress>>)
  BY <1>2, Zenon DEF Reportable, StatusFollows
<1> HIDE DEF status, v
<1> QED
  BY <1>1, <1>3 DEF IsUpdater, StatusFollows, v

\* A sync of a source tells the updater what the lister holds; the other sources
\* stay as they are known.
LEMMA SourceSynced ==
  ASSUME TypesOK, UpdaterOK, MapKnown, ServiceKnown, LinkKnown, QueueOpen, StartSync
  PROVE  UpdaterOK' /\ MapKnown' /\ ServiceKnown' /\ LinkKnown'
<1> DEFINE key == Head(queue.items)
<1>1. key \in Keys /\ WorkerOK /\ VersionsOK /\ JobOK
  BY StartSyncOK DEF TypesOK
<1>2. UNCHANGED <<world, lister>> /\ queue'.dirty = queue.dirty \ {key}
  <2>1. [Next]_allVars
    BY DEF Next, Work
  <2>2. UNCHANGED <<world, lister>>
    BY DEF StartSync
  <2> QED
    BY <2>1, <2>2, <1>1, WaitingTasks
<1>3. /\ World' = World /\ ServiceKey' = ServiceKey
      /\ ObjectsOf(world)' = ObjectsOf(world)
  BY <1>2 DEF World, ServiceKey, ObjectsOf
<1>4. lister \subseteq ObjectsOf(world)
  BY <1>1 DEF WorkerOK
<1>5. \A o : Key(o)[1] = o.kind
  BY DEF Key
<1>6. ServiceKey[1] = "Service" /\ ServiceKey[2] = World.external
  BY DEF ServiceKey
<1>7. /\ su.externalServiceAddresses # <<>> => su.bigIPAddress = NoAddress
      /\ At(ObjectsOf(world), ServiceKey) # {} => su.bigIPAddress = NoAddress
      /\ Links(ObjectsOf(world)) # {} => su.externalServiceAddresses = <<>>
      /\ IsUpdater(su) /\ StatusFollows(su)
  BY <1>1, SourcesExclude DEF UpdaterOK
<1> HIDE DEF key
<1>8. ASSUME key[1] # "ConfigMap", su'.externalStatusAddress = su.externalStatusAddress
      PROVE  MapKnown'
  BY <1>2, <1>5, <1>8 DEF MapKnown, OfKind
<1>9. ASSUME key # ServiceKey, su'.externalServiceAddresses = su.externalServiceAddresses
      PROVE  ServiceKnown'
  BY <1>2, <1>3, <1>9 DEF ServiceKnown, At
<1>10. ASSUME key[1] # "IngressLink", su'.bigIPAddress = su.bigIPAddress
       PROVE  LinkKnown'
  BY <1>2, <1>3, <1>5, <1>10 DEF LinkKnown, Links, OfKind
<1>11. ASSUME IsUpdater(su') /\ StatusFollows(su'),
              su'.externalServiceAddresses # <<>> => At(ObjectsOf(world), ServiceKey) # {},
              su'.bigIPAddress # NoAddress => Links(ObjectsOf(world)) # {}
       PROVE  UpdaterOK'
  BY <1>3, <1>11 DEF UpdaterOK
<1>12. CASE key[1] = "ConfigMap"
  <2> DEFINE params == IF At(lister, key) = {} THEN NoParams ELSE CHOOSE o \in At(lister, key) : TRUE
  <2>1. su' = IF At(lister, key) = {} THEN su ELSE SaveStatusFromExternalStatus(su, params.address)
    BY <1>1, <1>12, SyncSu DEF SyncConfigMap, key
  <2>2. At(lister, key) # {} => params \in At(lister, key)
    OBVIOUS
  <2> HIDE DEF params
  <2>3. /\ IsUpdater(su') /\ StatusFollows(su')
        /\ At(lister, key) # {} => su'.externalStatusAddress = params.address
        /\ su'.externalServiceAddresses = su.externalServiceAddresses
        /\ su'.bigIPAddress = su.bigIPAddress
    BY <2>1, <1>7, SavedExternalStatus
  <2>4. \A o \in OfKind(lister, "ConfigMap") : o \in At(lister, key)
    BY <1>1, <1>4, <1>12, OneSource DEF OfKind, At
  <2>5. \A o, p \in At(lister, key) : o = p
    BY <1>1 DEF VersionsOK, OnePerKey, At
  <2>6. MapKnown'
    BY <2>2, <2>3, <2>4, <2>5, <1>2 DEF MapKnown
  <2> QED
    BY <2>3, <2>6, <1>6, <1>9, <1>10, <1>11, <1>12 DEF UpdaterOK
<1>13. CASE key[1] = "Service"
  <2> DEFINE addresses == UNION {{s.addresses} : s \in At(lister, key)}
             a == IF addresses = {} THEN <<>> ELSE CHOOSE x \in addresses : TRUE
  <2>1. su' = IF key[2] # World.external THEN su ELSE SaveStatusFromExternalService(su, a)
    BY <1>1, <1>13, SyncSu DEF SyncService, key
  <2>2. (At(lister, key) = {} /\ a = <<>>) \/ \E s \in At(lister, key) : a = s.addresses
    OBVIOUS
  <2> HIDE DEF a
  <2>3. CASE key[2] # World.external
    <3>1. UNCHANGED su /\ key # ServiceKey
      BY <2>1, <2>3, <1>6
    <3> QED
      BY <3>1, <1>8, <1>9, <1>10, <1>11, <1>13 DEF UpdaterOK
  <2>4. CASE key[2] = World.external
    <3>1. key = ServiceKey
      BY <2>4, <1>1, <1>13, KeyParts DEF ServiceKey
    <3>2. At(ObjectsOf(world), ServiceKey) # {}
      BY <3>1, <1>1, KeysOfWorld DEF At
    <3>3. /\ IsUpdater(su') /\ StatusFollows(su')
          /\ su'.externalServiceAddresses = a
          /\ su'.externalStatusAddress = su.externalStatusAddress
          /\ su'.bigIPAddress = su.bigIPAddress
      BY <2>1, <2>4, <3>2, <1>7, SavedExternalService
    <3>4. ServiceKnown'
      BY <2>2, <3>1, <3>3, <1>2, <1>3 DEF ServiceKnown, At
    <3> QED
      BY <3>2, <3>3, <3>4, <1>8, <1>10, <1>11, <1>13 DEF UpdaterOK
  <2> QED
    BY <2>3, <2>4
<1>14. CASE key[1] = "IngressLink"
  <2> DEFINE ips == {o.ip : o \in At(lister, key)} \ {NoAddress}
             ip == IF ips = {} THEN NoAddress ELSE CHOOSE x \in ips : TRUE
  <2>1. su' = IF ip = NoAddress THEN ClearStatusFromIngressLink(su) ELSE SaveStatusFromIngressLink(su, ip)
    <3>1. SyncIngressLink(key)
      BY <1>1, <1>14, SyncSu DEF key
    <3> QED
      BY <3>1 DEF SyncIngressLink
  <2>2. \/ \A o \in At(lister, key) : o.ip = NoAddress /\ ip = NoAddress
        \/ \E o \in At(lister, key) : ip = o.ip
    OBVIOUS
  <2>3. At(lister, key) = {} => ip = NoAddress
    OBVIOUS
  <2> HIDE DEF ip
  <2>4. Links(lister) = At(lister, key)
    BY <1>1, <1>4, <1>5, <1>14, OneSource DEF Links, OfKind, At
  <2>5. Links(ObjectsOf(world)) # {}
    <3>1. PICK o \in ObjectsOf(world) : key[1] = o.kind
      BY <1>1, KeyParts
    <3> QED
      BY <3>1, <1>14 DEF Links, OfKind
  <2>6. /\ IsUpdater(su') /\ StatusFollows(su')
        /\ su'.bigIPAddress = ip
        /\ su'.externalStatusAddress = su.externalStatusAddress
        /\ su'.externalServiceAddresses = su.externalServiceAddresses
    BY <2>1, <2>5, <1>7, SavedIngressLink
  <2>7. LinkKnown'
    BY <2>2, <2>3, <2>4, <2>6, <1>2 DEF LinkKnown, Links, OfKind
  <2> QED
    BY <2>5, <2>6, <2>7, <1>6, <1>8, <1>9, <1>11, <1>14 DEF UpdaterOK
<1>15. CASE key[1] \notin {"ConfigMap", "Service", "IngressLink"}
  <2>1. UNCHANGED su
    BY <1>1, <1>15, SyncSu DEF key
  <2> QED
    BY <2>1, <1>6, <1>8, <1>9, <1>10, <1>11, <1>15 DEF UpdaterOK
<1> QED
  BY <1>12, <1>13, <1>14, <1>15

\* An informer that changes a source queues the task that tells the updater.
LEMMA SourceObserved ==
  ASSUME TypesOK, UpdaterOK, MapKnown, ServiceKnown, LinkKnown, QueueOpen, Observe
  PROVE  UpdaterOK' /\ MapKnown' /\ ServiceKnown' /\ LinkKnown'
<1>1. PICK key \in Keys :
        /\ lister' = (lister \ At(lister, key)) \cup At(cluster, key)
        /\ queue' = IF Enqueued(key) THEN Add(queue, key) ELSE queue
        /\ UNCHANGED <<world, su>>
  BY DEF Observe, cnf
<1>2. WorkerOK
  BY DEF TypesOK
<1>3. /\ World' = World /\ ServiceKey' = ServiceKey
      /\ ObjectsOf(world)' = ObjectsOf(world)
  BY <1>1 DEF World, ServiceKey, ObjectsOf
<1>4. UpdaterOK'
  BY <1>1, <1>3 DEF UpdaterOK
<1>5. ServiceKey[1] = "Service" /\ ServiceKey[2] = World.external
  BY DEF ServiceKey
<1>6. /\ queue.dirty \subseteq queue'.dirty
      /\ key[1] # "Service" \/ key = ServiceKey => key \in queue'.dirty
  BY <1>1, <1>2, <1>5, AddedWaits DEF Enqueued
<1>7. \A k : k # key => At(lister', k) = At(lister, k)
  BY <1>1 DEF At
<1>8. \A kind : kind # key[1] => OfKind(lister', kind) = OfKind(lister, kind)
  BY <1>1 DEF At, OfKind, Key
<1>9. lister \subseteq ObjectsOf(world) /\ lister' \subseteq ObjectsOf(world)
  BY <1>1, <1>2 DEF WorkerOK, At
<1>10. MapKnown'
  <2>1. CASE key[1] = "ConfigMap"
    <3>1. \A o \in OfKind(lister', "ConfigMap") : Key(o) = key
      BY <2>1, <1>2, <1>9, OneSource DEF OfKind
    <3> QED
      BY <3>1, <2>1, <1>6 DEF MapKnown
  <2>2. CASE key[1] # "ConfigMap"
    BY <2>2, <1>1, <1>6, <1>8 DEF MapKnown
  <2> QED
    BY <2>1, <2>2
<1>11. ServiceKnown'
  BY <1>1, <1>3, <1>6, <1>7 DEF ServiceKnown
<1>12. LinkKnown'
  <2>1. CASE key[1] = "IngressLink"
    <3>1. PICK o \in ObjectsOf(world) : key = <<o.kind, o.name>> /\ key[1] = o.kind
      BY KeyParts
    <3>2. o \in Links(ObjectsOf(world)) /\ Key(o) \in queue'.dirty
      BY <3>1, <2>1, <1>6 DEF Links, OfKind, Key
    <3> QED
      BY <3>2, <1>3 DEF LinkKnown
  <2>2. CASE key[1] # "IngressLink"
    <3>1. Links(lister') = Links(lister)
      BY <2>2, <1>8 DEF Links
    <3> QED
      BY <3>1, <1>1, <1>3, <1>6 DEF LinkKnown
  <2> QED
    BY <2>1, <2>2
<1> QED
  BY <1>4, <1>10, <1>11, <1>12

\* The status updater follows the sources.
SourcesOK == QueueOpen /\ UpdaterOK /\ MapKnown /\ ServiceKnown /\ LinkKnown

LEMMA SourcesStep ==
  ASSUME TypesOK, SourcesOK, [Next]_allVars
  PROVE  SourcesOK'
<1>1. QueueOpen'
  BY WaitingTasks DEF TypesOK, SourcesOK
<1>2. CASE StartSync
  BY <1>1, <1>2, SourceSynced DEF SourcesOK
<1>3. CASE Observe
  BY <1>1, <1>3, SourceObserved DEF SourcesOK
<1>4. CASE ~StartSync /\ ~Observe
  <2>1. UNCHANGED <<world, lister, su>> /\ queue'.dirty = queue.dirty
    BY <1>4, QuietStep, SameWorld, WaitingTasks DEF TypesOK, SourcesOK
  <2>2. ServiceKey' = ServiceKey /\ ObjectsOf(world)' = ObjectsOf(world)
    BY <2>1 DEF ServiceKey, World, ObjectsOf
  <2> QED
    BY <1>1, <2>1, <2>2 DEF SourcesOK, UpdaterOK, MapKnown, ServiceKnown, LinkKnown
<1> QED
  BY <1>2, <1>3, <1>4

\* At the start every source that exists is queued.
LEMMA SourcesInit == Init => SourcesOK
<1> SUFFICES ASSUME Init PROVE SourcesOK
  OBVIOUS
<1>1. world \in DOMAIN Worlds /\ lister = World.objects /\ su = NewUpdater
  BY DEF Init
<1>2. PICK order \in World.orders : queue = [NewQueue EXCEPT !.items = order, !.dirty = Range(order)]
  BY DEF Init
<1>3. queue.dirty = Range(order) /\ queue.shuttingDown = FALSE
  BY <1>2 DEF NewQueue
<1>4. Range(order) = {Key(o) : o \in World.objects}
  BY <1>1, DependentsAssumption DEF DependentsAssumption, World
<1>5. /\ su.externalServiceAddresses = <<>> /\ su.bigIPAddress = NoAddress
      /\ su.externalStatusAddress = NoAddress /\ su.status = <<>> /\ IsUpdater(su)
  BY <1>1 DEF NewUpdater, IsUpdater
<1>6. StatusFollows(su)
  BY <1>5, Zenon DEF StatusFollows, Reportable
<1>7. UpdaterOK
  BY <1>5, <1>6 DEF UpdaterOK
<1>8. \A o \in lister : Key(o) \in queue.dirty /\ o \in ObjectsOf(world)
  BY <1>1, <1>3, <1>4 DEF ObjectsOf, World
<1>9. MapKnown
  BY <1>8 DEF MapKnown, OfKind
<1>10. ServiceKnown
  BY <1>5, <1>8 DEF ServiceKnown, At
<1>11. LinkKnown
  BY <1>5, <1>8 DEF LinkKnown, Links, OfKind
<1> QED
  BY <1>3, <1>7, <1>9, <1>10, <1>11 DEF SourcesOK, QueueOpen

\* The Configuration has the Ingresses of the lister, unless they are still to be
\* synced.
ConfiguredOK == \A k \in IngressKeys : k \in queue.dirty \/ At(configured, k) = At(lister, k)

\* Ingresses come or go, and do not come back.
LifeOK ==
  \A k \in IngressKeys :
    IF k \in World.removable THEN At(cluster, k) # {} => At(lister, k) # {}
    ELSE /\ At(cluster, k) = {} => At(lister, k) = {}
         /\ At(lister, k) = {} => At(configured, k) = {}

\* A call that the plan has left reports the status of the resource.
Reporting(plan, k) ==
  \E i \in DOMAIN plan :
    /\ plan[i].op \in {"write", "refresh", "config", "report"}
    /\ \E r \in plan[i].res : Key(r) = k

\* The leader has reported the current status of an Ingress, or is about to, or
\* OnStartedLeading has overwritten it with an older one.
IngressReported(k) ==
  \/ told[k] = su.status
  \/ k \in leader.stale \/ k \in leader.todo \/ \E h \in leader.held : h.key = k
  \/ Reporting(job.plan, k)

ReportedOK ==
  leader.is =>
    \A k \in IngressKeys :
      At(cluster, k) # {} /\ At(lister, k) # {} /\ At(configured, k) # {} => IngressReported(k)

\* A status in the API server is the one reported last, or the write was skipped.
StatusesOK ==
  /\ reported = [k \in IngressKeys |-> reported[k]]
  /\ told = [k \in IngressKeys |-> told[k]]
  /\ \A k \in IngressKeys : reported[k] = told[k] \/ k \in skipped

\* The elector writes the statuses of Ingresses.
ElectionOK ==
  /\ leader.todo \subseteq IngressKeys
  /\ \A h \in leader.held : h.key \in IngressKeys
  /\ StatusesOK

\* The keys of the Ingresses do not change.
LEMMA SameIngressKeys ==
  ASSUME [Next]_allVars
  PROVE  /\ IngressKeys' = IngressKeys /\ World' = World
         /\ \A k \in IngressKeys : k \in Keys /\ k[1] = "Ingress"
BY SameWorld DEF IngressKeys, Keys, World

\* Only the sync of an Ingress changes it in the Configuration.
LEMMA SyncConfigured ==
  ASSUME StartSync, NEW k, k # Head(queue.items) \/ k[1] # Head(queue.items)[1]
  PROVE  At(configured', k) = At(configured, k)
<1> DEFINE key == Head(queue.items)
<1>1. UNCHANGED configured \/ configured' = (configured \ At(configured, key)) \cup At(lister, key)
  BY DEF StartSync, SyncSecret, SyncPolicy, SyncAppProtectPolicy, SyncAppProtectLogConf,
       SyncAppProtectUserSig, SyncConfigMap, SyncService, SyncIngressLink, SyncEndpoints,
       SyncResource, cnf
<1>2. k # key
  OBVIOUS
<1> HIDE DEF key
<1> QED
  BY <1>1, <1>2 DEF At

\* The sync of an Ingress takes it over from the lister.
LEMMA IngressSynced ==
  ASSUME StartSync, Head(queue.items)[1] = "Ingress"
  PROVE  LET k == Head(queue.items)
         IN /\ SyncResource(k) /\ At(configured', k) = At(lister, k) /\ UNCHANGED su
<1> DEFINE k == Head(queue.items)
<1>1. SyncResource(k)
  BY DEF StartSync
<1> HIDE DEF k
<1> QED
  BY <1>1 DEF SyncResource, At, k

LEMMA ConfiguredStep ==
  ASSUME WorkerOK, QueueOpen, ConfiguredOK, [Next]_allVars
  PROVE  ConfiguredOK'
<1> SUFFICES ASSUME NEW k \in IngressKeys
             PROVE  k \in queue'.dirty \/ At(configured', k) = At(lister', k)
  BY SameIngressKeys DEF ConfiguredOK
<1>1. k \in queue.dirty \/ At(configured, k) = At(lister, k)
  BY DEF ConfiguredOK
<1>2. k \in Keys /\ k[1] = "Ingress"
  BY DEF IngressKeys
<1>3. CASE StartSync
  <2>1. UNCHANGED lister /\ queue'.dirty = queue.dirty \ {Head(queue.items)}
    BY <1>3, WaitingTasks DEF StartSync
  <2>2. CASE k = Head(queue.items)
    BY <2>1, <2>2, <1>2, <1>3, IngressSynced
  <2>3. CASE k # Head(queue.items)
    BY <2>1, <2>3, <1>1, <1>3, SyncConfigured
  <2> QED
    BY <2>2, <2>3
<1>4. CASE Observe
  <2>1. PICK key \in Keys :
          /\ lister' = (lister \ At(lister, key)) \cup At(cluster, key)
          /\ queue' = IF Enqueued(key) THEN Add(queue, key) ELSE queue
          /\ UNCHANGED configured
    BY <1>4 DEF Observe, cnf
  <2>2. CASE k = key
    BY <2>1, <2>2, <1>2, AddedWaits DEF Enqueued
  <2>3. CASE k # key
    <3>1. At(lister', k) = At(lister, k)
      BY <2>1, <2>3 DEF At
    <3> QED
      BY <2>1, <3>1, <1>1, AddedWaits
  <2> QED
    BY <2>2, <2>3
<1>5. CASE ~StartSync /\ ~Observe
  BY <1>1, <1>5, QuietStep, WaitingTasks
<1> QED
  BY <1>3, <1>4, <1>5

LEMMA LifeStep ==
  ASSUME WorkerOK, LifeOK, [Next]_allVars
  PROVE  LifeOK'
<1> SUFFICES ASSUME NEW k \in IngressKeys
             PROVE  IF k \in World.removable THEN At(cluster', k) # {} => At(lister', k) # {}
                    ELSE /\ At(cluster', k) = {} => At(lister', k) = {}
                         /\ At(lister', k) = {} => At(configured', k) = {}
  BY SameIngressKeys DEF LifeOK
<1>1. IF k \in World.removable THEN At(cluster, k) # {} => At(lister, k) # {}
      ELSE /\ At(cluster, k) = {} => At(lister, k) = {}
           /\ At(lister, k) = {} => At(configured, k) = {}
  BY DEF LifeOK
<1>2. k \in Keys /\ k[1] = "Ingress"
  BY DEF IngressKeys
<1>3. CASE StartSync
  <2>1. UNCHANGED <<cluster, lister>>
    BY <1>3 DEF StartSync
  <2>2. At(configured', k) \in {At(configured, k), At(lister, k)}
    BY <1>2, <1>3, SyncConfigured, IngressSynced
  <2> QED
    BY <2>1, <2>2, <1>1
<1>4. CASE Observe
  <2>1. PICK key \in Keys :
          /\ lister' = (lister \ At(lister, key)) \cup At(cluster, key)
          /\ UNCHANGED <<configured, cluster>>
    BY <1>4 DEF Observe, cnf
  <2>2. At(lister', k) = IF k = key THEN At(cluster, k) ELSE At(lister, k)
    BY <2>1 DEF At
  <2> QED
    BY <2>1, <2>2, <1>1
<1>5. CASE EditPut
  <2>1. PICK o \in World.variants :
          LET missing == IF At(cluster, EndpointsKey(Key(o))) = {}
                           THEN At(World.objects, EndpointsKey(Key(o))) \ At(World.objects, Key(o)) ELSE {}
          IN Edit((cluster \ At(cluster, Key(o))) \cup {o} \cup missing)
    BY <1>5 DEF EditPut
  <2> DEFINE twin == EndpointsKey(Key(o))
             missing == IF At(cluster, twin) = {}
                          THEN At(World.objects, twin) \ At(World.objects, Key(o)) ELSE {}
  <2>2. cluster' = (cluster \ At(cluster, Key(o))) \cup {o} \cup missing /\ UNCHANGED <<lister, configured>>
    BY <2>1 DEF Edit, cnf
  <2>3. twin = Key(o) \/ twin[1] = "Endpoints"
    BY DEF EndpointsKey
  <2>4. \A m \in missing : Key(m) # k
    BY <2>3, <1>2 DEF At
  <2>5. Key(o) = k => k \notin World.removable
    <3>1. o.kind = "Ingress" => Key(o) \notin World.removable
      BY StatusSources DEF StatusSources, WorkerOK, World
    <3>2. Key(o)[1] = o.kind
      BY DEF Key
    <3> QED
      BY <3>1, <3>2, <1>2
  <2> HIDE DEF missing
  <2>6. At(cluster', k) = IF Key(o) = k THEN {o} ELSE At(cluster, k)
    BY <2>2, <2>4 DEF At
  <2> QED
    BY <2>2, <2>5, <2>6, <1>1
<1>6. CASE EditRemove
  <2>1. PICK key \in World.removable : cluster' = {o \in cluster : Key(o) \notin {key, EndpointsKey(key)}}
    BY <1>6 DEF EditRemove, Edit
  <2>2. UNCHANGED <<lister, configured>>
    BY <1>6 DEF EditRemove, Edit, cnf
  <2>3. EndpointsKey(key) = key \/ EndpointsKey(key)[1] = "Endpoints"
    BY DEF EndpointsKey
  <2>4. At(cluster', k) = IF k = key THEN {} ELSE At(cluster, k)
    BY <2>1, <2>3, <1>2 DEF At
  <2> QED
    BY <2>1, <2>2, <2>4, <1>1
<1>7. CASE ~StartSync /\ ~Observe /\ ~EditPut /\ ~EditRemove
  <2>1. UNCHANGED <<lister, configured>>
    BY <1>7, QuietStep
  <2>2. UNCHANGED cluster
    BY <1>7 DEF Next, Work, Build, Write, UpdateEndpoints, UpdateSpecialSecret, DeleteConfig,
         Report, FinishSync, Load, RotateKey, Rotate, RotateCert, RotateReload, BecomeLeader, Lead,
         LeaderReadsStatus, LeaderWritesStatus, LoseLeadership, ObserveStatus, AllDone, allVars
  <2> QED
    BY <2>1, <2>2, <1>1
<1> QED
  BY <1>3, <1>4, <1>5, <1>6, <1>7

\* Reports keep the statuses as they should be.
LEMMA ToldStatuses ==
  ASSUME StatusesOK, IngressKeys' = IngressKeys, NEW addresses, NEW keys, NEW written,
         written \subseteq keys, Tell(addresses, keys, written)
  PROVE  /\ StatusesOK'
         /\ \A k \in IngressKeys : told'[k] = IF k \in keys THEN addresses ELSE told[k]
<1>1. DOMAIN reported = IngressKeys /\ DOMAIN told = IngressKeys
  BY DEF StatusesOK
<1>2. /\ reported' = [k \in IngressKeys |-> IF k \in written THEN addresses ELSE reported[k]]
      /\ told' = [k \in IngressKeys |-> IF k \in keys THEN addresses ELSE told[k]]
  BY <1>1, Zenon DEF Tell
<1>3. skipped' = (skipped \ keys) \cup {k \in keys \ written : reported[k] # addresses}
  BY DEF Tell
<1>4. reported' = [k \in IngressKeys |-> reported'[k]] /\ told' = [k \in IngressKeys |-> told'[k]]
  BY <1>2
<1>5. ASSUME NEW k \in IngressKeys PROVE reported'[k] = told'[k] \/ k \in skipped'
  <2>1. reported[k] = told[k] \/ k \in skipped
    BY DEF StatusesOK
  <2> QED
    BY <1>2, <1>3, <2>1
<1> QED
  BY <1>2, <1>4, <1>5 DEF StatusesOK

LEMMA ElectionStep ==
  ASSUME JobOK, LeaderOK, ElectionOK, [Next]_allVars
  PROVE  ElectionOK'
<1>1. IngressKeys' = IngressKeys /\ StatusesOK
  BY SameIngressKeys DEF ElectionOK
<1>9. UNCHANGED <<reported, told, skipped>> => StatusesOK'
  BY <1>1 DEF StatusesOK
<1>2. CASE BecomeLeader
  <2>1. leader'.todo = {Key(r) : r \in Ingresses(configured)} /\ leader'.held = {}
        /\ UNCHANGED <<reported, told, skipped>>
    BY <1>2 DEF BecomeLeader, LeaderOK, statuses
  <2>2. \A r \in Ingresses(configured) : Key(r) \in Keys /\ Key(r)[1] = "Ingress"
    BY KeysOfWorld DEF JobOK, Ingresses, OfKind, Key
  <2> QED
    BY <2>1, <2>2, <1>1, <1>9 DEF ElectionOK, IngressKeys
<1>3. CASE LeaderReadsStatus
  <2>1. PICK k \in leader.todo :
          /\ \/ leader' = [leader EXCEPT !.todo = @ \ {k}]
             \/ leader' = [leader EXCEPT !.todo = @ \ {k}, !.stale = @ \ {k}]
             \/ leader' = [leader EXCEPT !.todo = @ \ {k}, !.held = {[key |-> k, status |-> su.status]}]
          /\ UNCHANGED <<reported, told, skipped>> \/ Tell(su.status, {k}, {})
    BY <1>3 DEF LeaderReadsStatus, LeaderReads, statuses
  <2>2. leader'.todo \subseteq leader.todo /\ (\A h \in leader'.held : h.key = k)
    <3>1. leader.held = {}
      BY <1>3 DEF LeaderReadsStatus
    <3>2. leader'.held \subseteq {[key |-> k, status |-> su.status]}
      BY <2>1, <3>1 DEF LeaderOK
    <3>3. leader'.todo \subseteq leader.todo
      BY <2>1 DEF LeaderOK
    <3> QED
      BY <3>2, <3>3
  <2>3. StatusesOK'
    BY <2>1, <1>1, <1>9, ToldStatuses
  <2> QED
    BY <2>1, <2>2, <2>3, <1>1 DEF ElectionOK
<1>4. CASE LeaderWritesStatus
  <2>1. PICK h \in leader.held : Tell(h.status, {h.key}, {k \in {h.key} : Exists(k)})
    BY <1>4 DEF LeaderWritesStatus
  <2>2. UNCHANGED leader.todo /\ leader'.held = {}
    BY <1>4 DEF LeaderWritesStatus, LeaderOK
  <2>3. {k \in {h.key} : Exists(k)} \subseteq {h.key}
    OBVIOUS
  <2>4. StatusesOK'
    BY <2>1, <2>3, <1>1, ToldStatuses
  <2> QED
    BY <2>2, <2>4, <1>1 DEF ElectionOK
<1>5. CASE LoseLeadership
  <2>1. UNCHANGED <<leader.todo, leader.held, reported, told, skipped>>
    BY <1>5 DEF LoseLeadership, LeaderOK, statuses
  <2> QED
    BY <2>1, <1>1, <1>9 DEF ElectionOK
<1>6. CASE Write \/ Report
  <2>1. PICK res : ReportStatus(res)
    BY <1>6 DEF Write, Report
  <2> DEFINE keys == {Key(r) : r \in {i \in Ingresses(res) : At(lister, Key(i)) # {}}}
  <2>2. \/ UNCHANGED <<leader, reported, told, skipped>>
        \/ /\ Tell(su.status, keys, {k \in keys : Exists(k) /\ ~Shown(k)})
           /\ leader' = [leader EXCEPT !.stale = @ \ keys]
    BY <2>1 DEF ReportStatus, election, statuses
  <2> HIDE DEF keys
  <2>3. UNCHANGED <<leader.todo, leader.held>>
    BY <2>2 DEF LeaderOK
  <2>4. {k \in keys : Exists(k) /\ ~Shown(k)} \subseteq keys
    OBVIOUS
  <2>5. StatusesOK'
    BY <2>2, <2>4, <1>1, <1>9, ToldStatuses
  <2> QED
    BY <2>3, <2>5, <1>1 DEF ElectionOK
<1>7. CASE EditPut \/ EditRemove
  <2>1. PICK new : Edit(new)
    BY <1>7, Zenon DEF EditPut, EditRemove
  <2>2. /\ UNCHANGED leader
        /\ reported' = [k \in DOMAIN reported |-> IF At(new, k) = {} THEN <<>> ELSE reported[k]]
        /\ told' = [k \in DOMAIN told |-> IF At(new, k) = {} THEN <<>> ELSE told[k]]
        /\ skipped' = {k \in skipped : At(new, k) # {}}
    BY <2>1 DEF Edit
  <2>3. DOMAIN reported = IngressKeys /\ DOMAIN told = IngressKeys
    BY <1>1 DEF StatusesOK
  <2>4. /\ reported' = [k \in IngressKeys |-> IF At(new, k) = {} THEN <<>> ELSE reported[k]]
        /\ told' = [k \in IngressKeys |-> IF At(new, k) = {} THEN <<>> ELSE told[k]]
    BY <2>2, <2>3, Zenon
  <2>5. reported' = [k \in IngressKeys |-> reported'[k]] /\ told' = [k \in IngressKeys |-> told'[k]]
    BY <2>4
  <2>6. ASSUME NEW k \in IngressKeys PROVE reported'[k] = told'[k] \/ k \in skipped'
    BY <2>2, <2>4, <1>1 DEF StatusesOK
  <2> QED
    BY <2>2, <2>5, <2>6, <1>1 DEF ElectionOK, StatusesOK
<1>8. CASE UNCHANGED <<leader, reported, told, skipped>>
  BY <1>1, <1>8, <1>9 DEF ElectionOK
<1> QED
  BY <1>2, <1>3, <1>4, <1>5, <1>6, <1>7, <1>8
     DEF Next, Work, StartSync, Build, UpdateEndpoints, UpdateSpecialSecret, DeleteConfig,
       FinishSync, Load, RotateKey, Rotate, RotateCert, RotateReload, Lead, Observe,
       ObserveStatus, AllDone, allVars, election, statuses

\* A call for a resource, and a plan that begins with one.
LEMMA ReportingCall ==
  ASSUME NEW op \in {"write", "refresh", "config", "report"}, NEW res, NEW arg, NEW r \in res
  PROVE  Reporting(<<Step(op, res, arg)>>, Key(r))
<1> DEFINE s == Step(op, res, arg)
<1>1. s.op = op /\ s.res = res
  BY DEF Step
<1> HIDE DEF s
<1>2. DOMAIN <<s>> = {1} /\ <<s>>[1] = s
  OBVIOUS
<1>3. Reporting(<<s>>, Key(r))
  BY <1>1, <1>2 DEF Reporting
<1> QED
  BY <1>3 DEF s

LEMMA ReportingFirst ==
  ASSUME NEW p, NEW q, IsPlan(p), IsPlan(q), NEW k, Reporting(p, k)
  PROVE  Reporting(p \o q, k)
<1>1. PICK a : p \in Seq(PlanSteps(a))
  BY DEF IsPlan
<1>2. PICK b : q \in Seq(PlanSteps(b))
  BY DEF IsPlan
<1>3. PICK i \in DOMAIN p :
        p[i].op \in {"write", "refresh", "config", "report"} /\ \E r \in p[i].res : Key(r) = k
  BY DEF Reporting
<1>4. i \in DOMAIN (p \o q) /\ (p \o q)[i] = p[i]
  <2>1. /\ Len(p) \in Nat /\ Len(q) \in Nat /\ DOMAIN p = 1 .. Len(p)
    BY <1>1, <1>2, LenProperties
  <2>2. \A S : \A x, y \in Seq(S) :
          /\ Len(x \o y) = Len(x) + Len(y)
          /\ \A j \in 1 .. Len(x) + Len(y) : (x \o y)[j] = IF j <= Len(x) THEN x[j] ELSE y[j - Len(x)]
    BY ConcatProperties
  <2>3. p \in Seq(PlanSteps(a) \cup PlanSteps(b)) /\ q \in Seq(PlanSteps(a) \cup PlanSteps(b))
    BY <1>1, <1>2, SeqMonotonic
  <2>4. (p \o q) \in Seq(PlanSteps(a) \cup PlanSteps(b))
    BY <2>3, ConcatProperties
  <2>5. DOMAIN (p \o q) = 1 .. Len(p \o q)
    BY <2>4, LenProperties
  <2>6. Len(p \o q) = Len(p) + Len(q)
    BY <2>2, <2>3
  <2>7. \A j \in 1 .. Len(p) + Len(q) : (p \o q)[j] = IF j <= Len(p) THEN p[j] ELSE q[j - Len(p)]
    BY <2>2, <2>3
  <2>8. i \in 1 .. Len(p) + Len(q) /\ i <= Len(p)
    BY <2>1, <1>3
  <2> QED
    BY <2>5, <2>6, <2>7, <2>8
<1> QED
  BY <1>3, <1>4 DEF Reporting

\* A sync that changes the status has the statuses of all Ingresses reported.
LEMMA ReportAll ==
  ASSUME WorkerOK, JobOK, StartSync
  PROVE  UNCHANGED su \/ \A r \in Ingresses(configured) : Reporting(job'.plan, Key(r))
<1> DEFINE key == Head(queue.items)
<1> SUFFICES ASSUME NEW r \in Ingresses(configured), su' # su
             PROVE  Reporting(job'.plan, Key(r))
  OBVIOUS
<1>1. key[1] \in {"ConfigMap", "Service", "IngressLink"}
  BY SyncSu
<1>2. r \in configured /\ r.kind = "Ingress"
  BY DEF Ingresses, OfKind
<1>3. CASE key[1] = "ConfigMap"
  <2> DEFINE all == {x \in configured : x.kind # "TransportServer"}
  <2>1. PICK op \in {"report", "config"} : job' = Job(<<Step(op, all, {})>>)
    BY <1>3, SyncSu DEF SyncConfigMap
  <2>2. r \in all
    BY <1>2
  <2> HIDE DEF all
  <2>3. Reporting(<<Step(op, all, {})>>, Key(r))
    BY <2>2, ReportingCall
  <2> QED
    BY <2>1, <2>3, JobIs
<1>4. CASE key[1] = "Service"
  <2> DEFINE all == Ingresses(configured)
             rest == Rewrite(FindResources(key))
  <2>1. SyncService(key)
    BY <1>4, SyncSu
  <2>2. key[2] = World.external
    BY <2>1 DEF SyncService
  <2>3. job' = Job(<<Step("report", all, {})>> \o rest)
    BY <2>1, <2>2 DEF SyncService
  <2>4. all \subseteq ObjectsOf(world) /\ "report" \in PlanOps
    BY DEF Ingresses, OfKind, JobOK, PlanOps
  <2>5. IsPlan(rest)
    BY FoundResources, RewritePlan DEF JobOK
  <2> HIDE DEF all, rest
  <2>6. IsPlan(<<Step("report", all, {})>>)
    BY <2>4, ShortPlan, Zenon
  <2>7. Reporting(<<Step("report", all, {})>>, Key(r))
    BY ReportingCall DEF all
  <2>8. Reporting(<<Step("report", all, {})>> \o rest, Key(r))
    BY <2>5, <2>6, <2>7, ReportingFirst
  <2> QED
    BY <2>3, <2>8, JobIs
<1>5. CASE key[1] = "IngressLink"
  <2>1. job' = Job(<<Step("report", Ingresses(configured), {})>>)
    BY <1>5, SyncSu DEF SyncIngressLink
  <2>2. Reporting(<<Step("report", Ingresses(configured), {})>>, Key(r))
    BY ReportingCall
  <2> QED
    BY <2>1, <2>2, JobIs
<1> QED
  BY <1>1, <1>3, <1>4, <1>5

\* An edit creates an Ingress only if it never removes it.
LEMMA EditCreates ==
  ASSUME WorkerOK, EditPut \/ EditRemove, NEW k \in IngressKeys, At(cluster', k) # {}, At(cluster, k) = {}
  PROVE  k \notin World.removable
<1>1. k[1] = "Ingress"
  BY DEF IngressKeys
<1>2. CASE EditPut
  <2>1. PICK o \in World.variants :
          LET missing == IF At(cluster, EndpointsKey(Key(o))) = {}
                           THEN At(World.objects, EndpointsKey(Key(o))) \ At(World.objects, Key(o)) ELSE {}
          IN Edit((cluster \ At(cluster, Key(o))) \cup {o} \cup missing)
    BY <1>2 DEF EditPut
  <2> DEFINE twin == EndpointsKey(Key(o))
             missing == IF At(cluster, twin) = {}
                          THEN At(World.objects, twin) \ At(World.objects, Key(o)) ELSE {}
  <2>2. cluster' = (cluster \ At(cluster, Key(o))) \cup {o} \cup missing
    BY <2>1 DEF Edit
  <2>3. twin = Key(o) \/ twin[1] = "Endpoints"
    BY DEF EndpointsKey
  <2>4. \A m \in missing : Key(m) # k
    BY <2>3, <1>1 DEF At
  <2> HIDE DEF missing
  <2>5. Key(o) = k
    BY <2>2, <2>4 DEF At
  <2>6. o.kind = "Ingress" => Key(o) \notin World.removable
    BY StatusSources DEF StatusSources, WorkerOK, World
  <2> QED
    BY <2>5, <2>6, <1>1 DEF Key
<1>3. CASE EditRemove
  <2>1. cluster' \subseteq cluster
    BY <1>3 DEF EditRemove, Edit
  <2> QED
    BY <2>1 DEF At
<1> QED
  BY <1>2, <1>3

\* An Ingress that should have been reported.
Due(k) == leader.is /\ At(cluster, k) # {} /\ At(lister, k) # {} /\ At(configured, k) # {}

\* What the worker does to a status: it reports it, or has still to do so.
LEMMA WorkReported ==
  ASSUME TypesOK, ElectionOK, Work, NEW k \in IngressKeys, Due(k)',
         Due(k) => IngressReported(k)
  PROVE  IngressReported(k)'
<1>1. WorkerOK /\ JobOK /\ LeaderOK /\ k[1] = "Ingress"
  BY DEF TypesOK, IngressKeys
<1>5. IngressKeys' = IngressKeys /\ StatusesOK
  BY SameIngressKeys DEF ElectionOK, Next
<1>2. CASE StartSync
  <2> DEFINE key == Head(queue.items)
  <2>1. UNCHANGED <<cluster, lister, leader, told>>
    BY <1>1, <1>2, SyncSu
  <2>2. \A j : ~Reporting(job.plan, j)
    <3>1. job.plan = <<>>
      BY <1>1, <1>2 DEF StartSync, WorkerOK
    <3> QED
      BY <3>1 DEF Reporting
  <2>3. CASE key = k
    <3>1. SyncResource(k) /\ UNCHANGED su /\ At(configured', k) = At(lister, k)
      BY <2>3, <1>1, <1>2, IngressSynced
    <3>2. CASE At(lister, k) = At(configured, k)
      <4>1. Due(k)
        BY <2>1, <3>1, <3>2 DEF Due
      <4> QED
        BY <4>1, <2>1, <2>2, <3>1 DEF IngressReported
    <3>3. CASE At(lister, k) # At(configured, k)
      <4>1. At(lister, k) # {}
        BY <2>1 DEF Due
      <4>2. job' = Job(<<Step("write", At(lister, k), {})>>)
        BY <3>1, <3>3, <4>1, Zenon DEF SyncResource, Rewrite
      <4>3. PICK r \in At(lister, k) : Key(r) = k
        BY <4>1 DEF At
      <4>4. Reporting(<<Step("write", At(lister, k), {})>>, Key(r))
        BY <4>3, ReportingCall
      <4> QED
        BY <4>2, <4>3, <4>4, JobIs DEF IngressReported
    <3> QED
      BY <3>2, <3>3
  <2>4. CASE key # k
    <3>1. At(configured', k) = At(configured, k)
      BY <2>4, <1>2, SyncConfigured
    <3>2. Due(k) /\ IngressReported(k)
      BY <2>1, <3>1 DEF Due
    <3>3. CASE UNCHANGED su
      BY <2>1, <2>2, <3>2, <3>3 DEF IngressReported
    <3>4. CASE \A r \in Ingresses(configured) : Reporting(job'.plan, Key(r))
      <4>1. PICK r \in Ingresses(configured) : Key(r) = k
        BY <3>2, <1>1 DEF Due, At, Ingresses, OfKind, Key
      <4> QED
        BY <3>4, <4>1 DEF IngressReported
    <3> QED
      BY <3>3, <3>4, <1>1, <1>2, ReportAll
  <2> QED
    BY <2>3, <2>4
<1>3. CASE Write \/ UpdateEndpoints \/ UpdateSpecialSecret \/ DeleteConfig \/ Report
  <2>1. /\ job'.plan = Tail(job.plan) /\ job.plan # <<>> /\ IsPlan(job.plan)
        /\ UNCHANGED <<configured, lister, cluster, su>>
    BY <1>1, <1>3, CallStep DEF JobOK
  <2>2. \A i \in DOMAIN job.plan : job.plan[i] = This \/ \E j \in DOMAIN job'.plan : job'.plan[j] = job.plan[i]
    BY <2>1, RestOfPlan DEF This
  <2>3. CASE Write \/ Report
    <3> DEFINE keys == {Key(r) : r \in {i \in Ingresses(This.res) : At(lister, Key(i)) # {}}}
    <3>1. IF leader.is
            THEN /\ Tell(su.status, keys, {j \in keys : Exists(j) /\ ~Shown(j)})
                 /\ leader' = [leader EXCEPT !.stale = @ \ keys]
            ELSE UNCHANGED <<leader, told>>
      BY <2>3 DEF Write, Report, ReportStatus, election, statuses
    <3>2. leader.is
      BY <3>1 DEF Due
    <3>3. /\ UNCHANGED <<leader.todo, leader.held>> /\ leader'.stale = leader.stale \ keys
          /\ told'[k] = IF k \in keys THEN su.status ELSE told[k]
      <4>1. /\ Tell(su.status, keys, {j \in keys : Exists(j) /\ ~Shown(j)})
            /\ leader' = [leader EXCEPT !.stale = @ \ keys]
        BY <3>1, <3>2, <1>1 DEF LeaderOK
      <4> HIDE DEF keys
      <4>2. {j \in keys : Exists(j) /\ ~Shown(j)} \subseteq keys
        OBVIOUS
      <4>3. told'[k] = IF k \in keys THEN su.status ELSE told[k]
        BY <4>1, <4>2, <1>5, ToldStatuses
      <4> QED
        BY <4>1, <4>3, <1>1 DEF LeaderOK
    <3>4. Due(k) /\ IngressReported(k)
      BY <2>1, <3>2 DEF Due
    <3>5. CASE k \in keys
      BY <2>1, <3>3, <3>5 DEF IngressReported
    <3>6. CASE k \notin keys
      <4>1. \A r \in This.res : Key(r) # k
        <5> SUFFICES ASSUME NEW r \in This.res, Key(r) = k
                     PROVE  k \in keys
          BY <3>6
        <5>1. r \in Ingresses(This.res)
          BY <1>1 DEF Ingresses, OfKind, Key
        <5> QED
          BY <5>1, <3>4 DEF Due
      <4> HIDE DEF keys
      <4>2. Reporting(job.plan, k) => Reporting(job'.plan, k)
        BY <2>2, <4>1 DEF Reporting
      <4> QED
        BY <2>1, <3>3, <3>4, <3>6, <4>2 DEF IngressReported
    <3> QED
      BY <3>5, <3>6
  <2>4. CASE UpdateEndpoints \/ UpdateSpecialSecret \/ DeleteConfig
    <3>1. UNCHANGED <<leader, told>> /\ This.op \in {"endpoints", "special", "delete"}
      BY <2>4 DEF UpdateEndpoints, UpdateSpecialSecret, DeleteConfig, election, statuses, Doing, This
    <3>2. Due(k) /\ IngressReported(k)
      BY <2>1, <3>1 DEF Due
    <3>3. Reporting(job.plan, k) => Reporting(job'.plan, k)
      BY <2>2, <3>1 DEF Reporting
    <3> QED
      BY <2>1, <3>1, <3>2, <3>3 DEF IngressReported
  <2> QED
    BY <1>3, <2>3, <2>4
<1>4. CASE Build \/ FinishSync
  <2>1. UNCHANGED <<cluster, lister, configured, su, leader, told>>
    BY <1>4 DEF Build, FinishSync, cnf, election, statuses
  <2>2. job'.plan = job.plan
    <3>1. CASE Build
      <4>1. PICK exes : job' = [job EXCEPT !.built = TRUE, !.exes = exes]
        BY <3>1 DEF Build
      <4> QED
        BY <4>1, <1>1 DEF JobOK
    <3>2. CASE FinishSync
      BY <3>2, JobIs DEF FinishSync, IdleJob
    <3> QED
      BY <1>4, <3>1, <3>2
  <2>3. Due(k) /\ IngressReported(k)
    BY <2>1 DEF Due
  <2> QED
    BY <2>1, <2>2, <2>3 DEF IngressReported
<1> QED
  BY <1>2, <1>3, <1>4 DEF Work

\* What OnStartedLeading does to a status.
LEMMA LeadReported ==
  ASSUME TypesOK, ElectionOK, BecomeLeader \/ Lead \/ LoseLeadership, NEW k \in IngressKeys, Due(k)',
         Due(k) => IngressReported(k)
  PROVE  IngressReported(k)'
<1>1. LeaderOK /\ k[1] = "Ingress"
  BY DEF TypesOK, IngressKeys
<1>2. UNCHANGED <<cluster, lister, configured, su, job>>
  BY DEF BecomeLeader, Lead, LeaderReadsStatus, LeaderWritesStatus, LoseLeadership, cnf, worker
<1>7. IngressKeys' = IngressKeys /\ StatusesOK
  BY SameIngressKeys DEF ElectionOK, Next
<1>3. CASE BecomeLeader
  <2>1. leader'.todo = {Key(r) : r \in Ingresses(configured)}
    BY <1>1, <1>3 DEF BecomeLeader, LeaderOK
  <2>2. \E r \in Ingresses(configured) : Key(r) = k
    BY <1>1, <1>2 DEF Due, At, Ingresses, OfKind, Key
  <2> QED
    BY <2>1, <2>2 DEF IngressReported
<1>4. CASE LeaderReadsStatus
  <2>1. PICK j \in leader.todo :
          \/ LeaderReads(j)
          \/ At(lister, j) = {} /\ leader' = [leader EXCEPT !.todo = @ \ {j}] /\ UNCHANGED told
    BY <1>4 DEF LeaderReadsStatus, statuses
  <2>2. CASE LeaderReads(j) /\ Shown(j)
    <3>1. leader' = [leader EXCEPT !.todo = @ \ {j}, !.stale = @ \ {j}] /\ Tell(su.status, {j}, {})
      BY <2>2 DEF LeaderReads
    <3>2. told'[k] = IF k \in {j} THEN su.status ELSE told[k]
      BY <3>1, <1>7, ToldStatuses
    <3>3. /\ leader'.is = leader.is /\ leader'.todo = leader.todo \ {j}
          /\ leader'.stale = leader.stale \ {j} /\ leader'.held = leader.held
      BY <3>1, <1>1 DEF LeaderOK
    <3>4. Due(k) /\ IngressReported(k)
      BY <1>2, <3>3 DEF Due
    <3> QED
      BY <1>2, <3>2, <3>3, <3>4 DEF IngressReported
  <2>3. CASE LeaderReads(j) /\ ~Shown(j)
    <3>1. /\ leader' = [leader EXCEPT !.todo = @ \ {j}, !.held = {[key |-> j, status |-> su.status]}]
          /\ UNCHANGED told
      BY <2>3 DEF LeaderReads, statuses
    <3>2. /\ leader'.is = leader.is /\ leader'.todo = leader.todo \ {j}
          /\ leader'.stale = leader.stale /\ leader'.held = {[key |-> j, status |-> su.status]}
      BY <3>1, <1>1 DEF LeaderOK
    <3>3. Due(k) /\ IngressReported(k) /\ leader.held = {}
      BY <1>2, <1>4, <3>2 DEF Due, LeaderReadsStatus
    <3>4. CASE j = k
      <4>1. [key |-> k, status |-> su.status] \in leader'.held
        BY <3>2, <3>4
      <4> QED
        BY <4>1 DEF IngressReported
    <3>5. CASE j # k
      BY <1>2, <3>1, <3>2, <3>3, <3>5 DEF IngressReported
    <3> QED
      BY <3>4, <3>5
  <2>4. CASE At(lister, j) = {} /\ leader' = [leader EXCEPT !.todo = @ \ {j}] /\ UNCHANGED told
    <3>1. /\ leader'.is = leader.is /\ leader'.todo = leader.todo \ {j}
          /\ leader'.stale = leader.stale /\ leader'.held = leader.held
      BY <2>4, <1>1 DEF LeaderOK
    <3>2. Due(k) /\ IngressReported(k) /\ j # k
      BY <1>2, <2>4, <3>1 DEF Due
    <3> QED
      BY <1>2, <2>4, <3>1, <3>2 DEF IngressReported
  <2> QED
    BY <2>1, <2>2, <2>3, <2>4
<1>5. CASE LeaderWritesStatus
  <2>1. PICK h \in leader.held :
          /\ Tell(h.status, {h.key}, {j \in {h.key} : Exists(j)})
          /\ leader' = [leader EXCEPT !.held = {},
                          !.stale = IF h.status = su.status THEN @ \ {h.key} ELSE @ \cup {h.key}]
    BY <1>5 DEF LeaderWritesStatus
  <2>2. /\ leader'.is = leader.is /\ leader'.todo = leader.todo
        /\ leader'.stale = IF h.status = su.status THEN leader.stale \ {h.key} ELSE leader.stale \cup {h.key}
        /\ leader.held = {h}
    BY <2>1, <1>1 DEF LeaderOK
  <2>3. Due(k) /\ IngressReported(k)
    BY <1>2, <2>2 DEF Due
  <2>5. {j \in {h.key} : Exists(j)} \subseteq {h.key}
    OBVIOUS
  <2>4. told'[k] = IF k \in {h.key} THEN h.status ELSE told[k]
    BY <2>1, <2>5, <1>7, ToldStatuses
  <2> QED
    BY <1>2, <2>2, <2>3, <2>4 DEF IngressReported
<1>6. CASE LoseLeadership
  <2>1. leader'.is = FALSE
    BY <1>1, <1>6 DEF LoseLeadership, LeaderOK
  <2> QED
    BY <2>1 DEF Due
<1> QED
  BY <1>3, <1>4, <1>5, <1>6 DEF Lead

LEMMA ReportedStep ==
  ASSUME TypesOK, ElectionOK, LifeOK, ReportedOK, [Next]_allVars
  PROVE  ReportedOK'
<1> SUFFICES ASSUME NEW k \in IngressKeys, Due(k)'
             PROVE  IngressReported(k)'
  BY SameIngressKeys DEF ReportedOK, Due
<1>1. Due(k) => IngressReported(k)
  BY DEF ReportedOK, Due
<1>2. CASE Work
  BY <1>1, <1>2, WorkReported
<1>3. CASE BecomeLeader \/ Lead \/ LoseLeadership
  BY <1>1, <1>3, LeadReported
<1>4. CASE EditPut \/ EditRemove
  <2>1. /\ told' = [j \in DOMAIN told |-> IF At(cluster', j) = {} THEN <<>> ELSE told[j]]
        /\ UNCHANGED <<lister, configured, su, job, leader>>
    <3>1. PICK new : Edit(new)
      BY <1>4, Zenon DEF EditPut, EditRemove
    <3>2. cluster' = new /\ told' = [j \in DOMAIN told |-> IF At(new, j) = {} THEN <<>> ELSE told[j]]
      BY <3>1, Zenon DEF Edit
    <3>3. UNCHANGED <<lister, configured, su, job, leader>>
      BY <3>1 DEF Edit, cnf, worker
    <3>4. told' = [j \in DOMAIN told |-> IF At(cluster', j) = {} THEN <<>> ELSE told[j]]
      BY <3>2, Zenon
    <3> QED
      BY <3>3, <3>4
  <2>2. Due(k)
    <3>1. At(cluster, k) # {}
      BY <2>1, <1>4, EditCreates DEF Due, LifeOK, TypesOK
    <3> QED
      BY <2>1, <3>1 DEF Due
  <2>3. told'[k] = told[k]
    BY <2>1 DEF Due, ElectionOK, StatusesOK
  <2> QED
    BY <2>1, <2>2, <2>3, <1>1 DEF IngressReported
<1>5. CASE Observe
  <2>1. PICK key \in Keys :
          /\ lister' = (lister \ At(lister, key)) \cup At(cluster, key)
          /\ UNCHANGED <<cluster, configured, su, job, leader, told>>
    BY <1>5 DEF Observe, cnf
  <2>2. Due(k)
    BY <2>1 DEF Due, LifeOK
  <2> QED
    BY <2>1, <2>2, <1>1 DEF IngressReported
<1>6. CASE Load \/ RotateKey \/ Rotate \/ ObserveStatus \/ AllDone \/ UNCHANGED allVars
  <2>1. UNCHANGED <<cluster, lister, configured, su, job, leader, told>>
    BY <1>6 DEF Load, RotateKey, Rotate, RotateCert, RotateReload, ObserveStatus, AllDone, allVars,
         cnf, worker, election, statuses
  <2> QED
    BY <2>1, <1>1 DEF Due, IngressReported
<1> QED
  BY <1>2, <1>3, <1>4, <1>5, <1>6 DEF Next

\* The invariant behind AddressesReported.
AddressInv == SourcesOK /\ ConfiguredOK /\ LifeOK /\ ElectionOK /\ ReportedOK

\* Initially every Ingress is queued, and none is configured.
LEMMA AddressInit == Init => AddressInv
<1> SUFFICES ASSUME Init PROVE AddressInv
  OBVIOUS
<1>1. /\ world \in DOMAIN Worlds /\ cluster = World.objects /\ lister = cluster /\ configured = {}
      /\ leader.todo = {} /\ leader.held = {}
      /\ reported = [k \in {j \in Keys : j[1] = "Ingress"} |-> <<>>] /\ told = reported
  BY DEF Init
<1>2. PICK order \in World.orders : queue = [NewQueue EXCEPT !.items = order, !.dirty = Range(order)]
  BY DEF Init
<1>3. queue.dirty = Range(order)
  BY <1>2 DEF NewQueue
<1>4. Range(order) = {Key(o) : o \in World.objects}
  BY <1>1, DependentsAssumption DEF DependentsAssumption, World
<1>5. \A k : At(configured, k) = {}
  BY <1>1 DEF At
<1>6. ConfiguredOK
  BY <1>1, <1>3, <1>4, <1>5 DEF ConfiguredOK, At
<1>7. LifeOK /\ ReportedOK
  BY <1>1, <1>5 DEF LifeOK, ReportedOK
<1>8. ElectionOK
  BY <1>1 DEF ElectionOK, StatusesOK, IngressKeys
<1> QED
  BY <1>6, <1>7, <1>8, SourcesInit DEF AddressInv

LEMMA AddressStep ==
  ASSUME TypesOK, AddressInv, [Next]_allVars
  PROVE  AddressInv'
<1>1. WorkerOK /\ JobOK /\ LeaderOK /\ QueueOpen
  BY DEF TypesOK, AddressInv, SourcesOK
<1> QED
  BY <1>1, SourcesStep, ConfiguredStep, LifeStep, ElectionStep, ReportedStep DEF AddressInv

\* A queue without items has no waiting task.
LEMMA NothingWaits ==
  ASSUME WorkerOK, queue.items = <<>>, current = {}
  PROVE  queue.dirty = {}
<1>1. \A t \in queue.dirty \ queue.processing : \E i \in DOMAIN queue.items : queue.items[i] = t
  BY DEF WorkerOK, WellFormed
<1>2. queue.processing = {}
  BY DEF WorkerOK
<1> QED
  BY <1>1, <1>2

\* When everything is synced, the known sources are those of the cluster.
LEMMA ExpectedIsKnown ==
  ASSUME TypesOK, SourcesOK, queue.dirty = {}, lister = cluster
  PROVE  ExpectedAddresses =
           Reportable(su.externalStatusAddress, su.externalServiceAddresses, su.bigIPAddress)
<1> DEFINE maps == OfKind(cluster, "ConfigMap")
           svcs == {s \in OfKind(cluster, "Service") : s.name = World.external}
           links == OfKind(cluster, "IngressLink")
           m == IF maps = {} THEN su.externalStatusAddress ELSE (CHOOSE o \in maps : TRUE).address
           s == IF svcs = {} THEN <<>> ELSE (CHOOSE x \in svcs : TRUE).addresses
           l == IF links = {} THEN NoAddress ELSE (CHOOSE o \in links : TRUE).ip
<1>1. ExpectedAddresses = Reportable(m, s, l)
  BY DEF ExpectedAddresses
<1>2. WorkerOK /\ OnePerKey(cluster) /\ cluster \subseteq ObjectsOf(world)
  BY DEF TypesOK, VersionsOK, WorkerOK
<1>3. m = su.externalStatusAddress
  <2>1. \A o \in maps : su.externalStatusAddress = o.address
    BY DEF SourcesOK, MapKnown
  <2> QED
    BY <2>1
<1>4. s = su.externalServiceAddresses
  <2>1. svcs = At(lister, ServiceKey)
    BY DEF At, OfKind, ServiceKey, Key
  <2>2. \A x, y \in svcs : x = y
    BY <1>2 DEF OnePerKey, OfKind, Key
  <2>3. \/ svcs = {} /\ su.externalServiceAddresses = <<>>
        \/ \E x \in svcs : su.externalServiceAddresses = x.addresses
    BY <2>1 DEF SourcesOK, ServiceKnown
  <2> HIDE DEF svcs
  <2> QED
    BY <2>2, <2>3
<1>5. l = su.bigIPAddress
  <2>1. \A x, y \in links : x = y
    <3> SUFFICES ASSUME NEW x \in links, NEW y \in links
                 PROVE  x = y
      OBVIOUS
    <3>1. x.name = y.name /\ x.kind = y.kind
      BY <1>2, StatusSources DEF StatusSources, WorkerOK, ObjectsOf, OfKind
    <3> QED
      BY <3>1, <1>2 DEF OnePerKey, OfKind, Key
  <2>2. \/ links = {} /\ su.bigIPAddress = NoAddress
        \/ \E o \in links : su.bigIPAddress = o.ip
    BY DEF SourcesOK, LinkKnown, Links
  <2> HIDE DEF links
  <2> QED
    BY <2>1, <2>2
<1> HIDE DEF m, s, l
<1> QED
  BY <1>1, <1>3, <1>4, <1>5

\* For any cluster with one ConfigMap and one source of addresses, whatever edits,
\* failures of reloads and changes of the leader interleave: when every change has
\* been worked off, the leader has reported for every Ingress the addresses that
\* the ConfigMap, the external service or the IngressLink call for, unless
\* OnStartedLeading reported last, with addresses it had read before they changed;
\* and the API server has what was reported, unless the write was skipped because
\* of an old copy in the lister (syncConfigMap, syncService, syncIngressLink,
\* SaveStatusFrom*, updateIngressWithStatus, createLeaderHandler).
THEOREM AddressesReportedInvariant == Spec => []AddressesReported
<1>1. Init => AddressInv
  BY AddressInit
<1>2. TypesOK /\ AddressInv /\ [Next]_allVars => AddressInv'
  BY AddressStep
<1>3. TypesOK /\ AddressInv => AddressesReported
  <2> SUFFICES ASSUME TypesOK, AddressInv, Quiescent, leader.is, NEW r \in Ingresses(Resources)
               PROVE  /\ \/ told[Key(r)] = ExpectedAddresses
                         \/ ExpectedAddresses = <<>> /\ told[Key(r)] = <<NoAddress>>
                         \/ Key(r) \in leader.stale
                      /\ reported[Key(r)] = told[Key(r)] \/ Key(r) \in skipped
    BY DEF AddressesReported
  <2>1. /\ lister = cluster /\ queue.items = <<>> /\ current = {}
        /\ leader.todo = {} /\ leader.held = {}
    BY DEF Quiescent
  <2>2. WorkerOK /\ queue.dirty = {} /\ job.plan = <<>>
    BY <2>1, NothingWaits DEF TypesOK, WorkerOK
  <2>3. r \in cluster /\ Key(r) \in IngressKeys
    <3>1. r \in cluster /\ r.kind = "Ingress"
      BY DEF Ingresses, OfKind, Resources
    <3>2. Key(r) \in Keys /\ Key(r)[1] = "Ingress"
      BY <3>1, <2>2, KeysOfWorld DEF WorkerOK, Key
    <3> QED
      BY <3>1, <3>2 DEF IngressKeys
  <2>4. At(cluster, Key(r)) # {} /\ At(configured, Key(r)) = At(cluster, Key(r))
    BY <2>1, <2>2, <2>3 DEF At, AddressInv, ConfiguredOK
  <2>5. IngressReported(Key(r)) /\ ~Reporting(job.plan, Key(r))
    BY <2>1, <2>2, <2>3, <2>4 DEF AddressInv, ReportedOK, Reporting
  <2>6. told[Key(r)] = su.status \/ Key(r) \in leader.stale
    BY <2>1, <2>5 DEF IngressReported
  <2>7. ExpectedAddresses =
          Reportable(su.externalStatusAddress, su.externalServiceAddresses, su.bigIPAddress)
    BY <2>1, <2>2, ExpectedIsKnown DEF AddressInv
  <2>8. StatusFollows(su)
    BY DEF AddressInv, SourcesOK, UpdaterOK
  <2>9. reported[Key(r)] = told[Key(r)] \/ Key(r) \in skipped
    BY <2>3 DEF AddressInv, ElectionOK, StatusesOK
  <2> QED
    BY <2>6, <2>7, <2>8, <2>9 DEF StatusFollows
<1> QED
  BY <1>1, <1>2, <1>3, TypesInvariant, PTL DEF Spec

-----------------------------------------------------------------------------
(* The files that config files name *)

\* The calls of a plan.
LEMMA PlanCalls ==
  /\ Range(<<>>) = {}
  /\ \A s : Range(<<s>>) = {s}
<1>1. DOMAIN <<>> = {}
  OBVIOUS
<1>2. \A s : DOMAIN <<s>> = {1} /\ <<s>>[1] = s
  OBVIOUS
<1> QED
  BY <1>1, <1>2 DEF Range

LEMMA PlanCallsTail ==
  ASSUME NEW p, IsPlan(p), p # <<>>
  PROVE  /\ Head(p) \in Range(p) /\ Range(p) = {Head(p)} \cup Range(Tail(p))
<1>1. PICK a : p \in Seq(PlanSteps(a))
  BY DEF IsPlan
<1>2. /\ Head(p) = p[1] /\ Len(p) \in Nat /\ DOMAIN p = 1 .. Len(p) /\ Len(p) > 0
      /\ DOMAIN Tail(p) = 1 .. Len(p) - 1 /\ \A j \in 1 .. Len(p) - 1 : Tail(p)[j] = p[j + 1]
  BY <1>1, HeadTailProperties, LenProperties
<1>3. 1 \in DOMAIN p
  BY <1>2
<1>4. \A j \in DOMAIN Tail(p) : j + 1 \in DOMAIN p /\ Tail(p)[j] = p[j + 1]
  BY <1>2
<1>5. \A i \in DOMAIN p : p[i] = Head(p) \/ \E j \in DOMAIN Tail(p) : Tail(p)[j] = p[i]
  BY RestOfPlan
<1>6. \A f, g, h : (/\ h \in {f[i] : i \in DOMAIN f}
                    /\ \A j \in DOMAIN g : \E i \in DOMAIN f : g[j] = f[i]
                    /\ \A i \in DOMAIN f : f[i] = h \/ \E j \in DOMAIN g : g[j] = f[i])
                   => h \in Range(f) /\ Range(f) = {h} \cup Range(g)
  BY DEF Range
<1>7. Head(p) \in {p[i] : i \in DOMAIN p}
  BY <1>2, <1>3
<1>8. \A j \in DOMAIN Tail(p) : \E i \in DOMAIN p : Tail(p)[j] = p[i]
  BY <1>4
<1> QED
  BY <1>5, <1>6, <1>7, <1>8, Zenon

LEMMA PlanCallsConcat ==
  ASSUME NEW p, NEW q, IsPlan(p), IsPlan(q)
  PROVE  Range(p \o q) = Range(p) \cup Range(q)
<1>1. PICK a : p \in Seq(PlanSteps(a))
  BY DEF IsPlan
<1>2. PICK b : q \in Seq(PlanSteps(b))
  BY DEF IsPlan
<1> DEFINE S == PlanSteps(a) \cup PlanSteps(b)
<1>3. p \in Seq(S) /\ q \in Seq(S)
  BY <1>1, <1>2, SeqMonotonic
<1> HIDE DEF S
<1>4. /\ Len(p) \in Nat /\ Len(q) \in Nat /\ DOMAIN p = 1 .. Len(p) /\ DOMAIN q = 1 .. Len(q)
  BY <1>3, LenProperties
<1>5. /\ p \o q \in Seq(S) /\ Len(p \o q) = Len(p) + Len(q)
      /\ \A i \in 1 .. Len(p) + Len(q) : (p \o q)[i] = IF i <= Len(p) THEN p[i] ELSE q[i - Len(p)]
  BY <1>3, ConcatProperties
<1>6. DOMAIN (p \o q) = 1 .. Len(p) + Len(q)
  BY <1>5, LenProperties
<1>7. \A i \in DOMAIN p : i \in DOMAIN (p \o q) /\ (p \o q)[i] = p[i]
  BY <1>4, <1>5, <1>6
<1>8. ASSUME NEW i \in DOMAIN q
      PROVE  Len(p) + i \in DOMAIN (p \o q) /\ (p \o q)[Len(p) + i] = q[i]
  <2>1. Len(p) + i \in 1 .. Len(p) + Len(q) /\ ~(Len(p) + i <= Len(p)) /\ (Len(p) + i) - Len(p) = i
    BY <1>4
  <2> QED
    BY <2>1, <1>5, <1>6
<1>9. ASSUME NEW i \in DOMAIN (p \o q)
      PROVE  (p \o q)[i] \in Range(p) \cup Range(q)
  <2>1. CASE i <= Len(p)
    <3>1. i \in DOMAIN p /\ (p \o q)[i] = p[i]
      BY <2>1, <1>4, <1>5, <1>6
    <3> QED
      BY <3>1 DEF Range
  <2>2. CASE ~(i <= Len(p))
    <3>1. i - Len(p) \in DOMAIN q /\ (p \o q)[i] = q[i - Len(p)]
      BY <2>2, <1>4, <1>5, <1>6
    <3> QED
      BY <3>1 DEF Range
  <2> QED
    BY <2>1, <2>2, <1>4, <1>6
<1>10. \A f : (/\ \A i \in DOMAIN f : f[i] \in Range(p) \cup Range(q)
               /\ \A i \in DOMAIN p : \E j \in DOMAIN f : f[j] = p[i]
               /\ \A i \in DOMAIN q : \E j \in DOMAIN f : f[j] = q[i])
              => Range(f) = Range(p) \cup Range(q)
  BY DEF Range
<1>11. \A i \in DOMAIN p : \E j \in DOMAIN (p \o q) : (p \o q)[j] = p[i]
  BY <1>7
<1>12. \A i \in DOMAIN q : \E j \in DOMAIN (p \o q) : (p \o q)[j] = q[i]
  BY <1>8
<1> QED
  BY <1>9, <1>10, <1>11, <1>12, Zenon

\* The App Protect files that calls remove first.
Removed(calls) == UNION {s.arg : s \in {t \in calls : t.op = "write"}}

\* A call generates the config file of a resource.
Generates(calls, k) == \E s \in calls : s.op \in Generating /\ \E r \in s.res : Key(r) = k

\* A call writes or removes the config file with key k.
Rewritten(calls, k) == Generates(calls, k) \/ \E s \in calls : s.op = "delete" /\ k \in s.arg

AppProtectKinds == {"APPolicy", "APLogConf"}

\* A call that writes the files of resources.
LEMMA RewriteCalls ==
  ASSUME NEW res
  PROVE  /\ \A s \in Range(Rewrite(res)) : s.res = res /\ s.op = "write" /\ s.arg = {}
         /\ \A r \in res : Generates(Range(Rewrite(res)), Key(r))
<1> DEFINE w == Step("write", res, {})
<1>1. w.op = "write" /\ w.res = res /\ w.arg = {}
  BY DEF Step
<1> HIDE DEF w
<1>2. Range(Rewrite(res)) = IF res = {} THEN {} ELSE {w}
  BY PlanCalls, Zenon DEF Rewrite, w
<1> QED
  BY <1>1, <1>2 DEF Generates, Generating

\* More calls do more.
LEMMA MoreCalls ==
  ASSUME NEW S, NEW T, S \subseteq T, NEW k
  PROVE  /\ Generates(S, k) => Generates(T, k)
         /\ Rewritten(S, k) => Rewritten(T, k)
BY DEF Generates, Rewritten

\* Nothing is removed first, and every resource that a call is about is configured.
PlainCalls(calls) == \A s \in calls : s.res \subseteq configured /\ (s.op = "write" => s.arg = {})

\* The syncs of secrets and policies rewrite what depends on them.
LEMMA SecretCalls ==
  ASSUME JobOK, NEW key, SyncSecret(key)
  PROVE  /\ PlainCalls(Range(job'.plan))
         /\ \A r \in FindDependents(key) : Generates(Range(job'.plan), Key(r))
<1>1. PICK special : job' = Job((IF special = {} THEN <<>> ELSE <<Step("special", {}, special)>>)
                                  \o Rewrite(FindDependents(key)))
  BY DEF SyncSecret
<1> DEFINE s == Step("special", {}, special)
           first == IF special = {} THEN <<>> ELSE <<s>>
           rest == Rewrite(FindDependents(key))
<1>2. job'.plan = first \o rest
  BY <1>1, JobIs
<1>3. FindDependents(key) \subseteq configured /\ configured \subseteq ObjectsOf(world)
  BY FoundResources DEF JobOK
<1>4. s.op = "special" /\ s.res = {}
  BY DEF Step
<1>5. IsPlan(first)
  <2>1. "special" \in PlanOps /\ {} \in SUBSET ObjectsOf(world)
    BY DEF PlanOps
  <2> QED
    BY <2>1, ShortPlan, Zenon
<1>6. IsPlan(rest)
  BY <1>3, RewritePlan
<1> HIDE DEF s
<1>7. Range(first) \subseteq {s}
  BY PlanCalls, Zenon
<1> HIDE DEF first
<1>8. Range(job'.plan) = Range(first) \cup Range(rest)
  BY <1>2, <1>5, <1>6, PlanCallsConcat
<1>9. /\ \A c \in Range(rest) : c.res = FindDependents(key) /\ c.op = "write" /\ c.arg = {}
      /\ \A r \in FindDependents(key) : Generates(Range(rest), Key(r))
  BY RewriteCalls
<1> HIDE DEF rest
<1>10. PlainCalls(Range(job'.plan))
  BY <1>3, <1>4, <1>7, <1>8, <1>9 DEF PlainCalls
<1> QED
  BY <1>8, <1>9, <1>10, MoreCalls

LEMMA PolicyCalls ==
  ASSUME NEW key, SyncPolicy(key)
  PROVE  /\ PlainCalls(Range(job'.plan))
         /\ \A r \in FindResources(key) : Generates(Range(job'.plan), Key(r))
<1>1. job'.plan = Rewrite(FindResources(key))
  BY JobIs DEF SyncPolicy
<1>2. /\ \A c \in Range(job'.plan) : c.res = FindResources(key) /\ c.op = "write" /\ c.arg = {}
      /\ \A r \in FindResources(key) : Generates(Range(job'.plan), Key(r))
  BY <1>1, RewriteCalls
<1> QED
  BY <1>2, FoundResources DEF PlainCalls

\* A plan of one call.
LEMMA OneCall ==
  ASSUME NEW op, NEW res, NEW arg, job' = Job(<<Step(op, res, arg)>>)
  PROVE  \A c \in Range(job'.plan) : c.op = op /\ c.res = res /\ c.arg = arg
<1> DEFINE s == Step(op, res, arg)
<1>1. s.op = op /\ s.res = res /\ s.arg = arg
  BY DEF Step
<1> HIDE DEF s
<1>2. job'.plan = <<s>>
  BY JobIs DEF s
<1> QED
  BY <1>1, <1>2, PlanCalls

\* An App Protect file that is removed is rewritten out of all that depend on it.
LEMMA AppProtectCalls ==
  ASSUME NEW key, SyncAppProtectPolicy(key) \/ SyncAppProtectLogConf(key)
  PROVE  /\ \A s \in Range(job'.plan) : s.res \subseteq configured
         /\ job'.plan # <<>> => Range(Tail(job'.plan)) = {}
         /\ \A a \in Removed(Range(job'.plan)) :
              /\ a[1] \in AppProtectKinds
              /\ \A r \in FindDependents(a) : Generates(Range(job'.plan), Key(r))
<1> DEFINE change == apChange'
           target == <<change.kind, change.name>>
           dep == FindDependents(target)
           arg == IF change.op = "Delete" /\ dep # {} THEN {target} ELSE {}
           w == Step("write", dep, arg)
<1>1. job'.plan = AppProtectPlan(change)
  BY JobIs DEF SyncAppProtectPolicy, SyncAppProtectLogConf
<1>2. change.op # "none" => change.kind \in AppProtectKinds
  BY DEF SyncAppProtectPolicy, SyncAppProtectLogConf, AddOrUpdatePolicy, AddOrUpdateLogConf,
       DeletePolicy, DeleteLogConf, Change, NoUserSigChange, AppProtectKinds
<1> HIDE DEF change
<1>3. AppProtectPlan(change) = IF change.op = "none" THEN <<>> ELSE <<w>>
  BY Zenon DEF AppProtectPlan
<1>4. w.op = "write" /\ w.res = dep /\ w.arg = arg
  BY DEF Step
<1>5. target[1] = change.kind /\ dep \subseteq configured /\ (\A a \in arg : a = target)
  BY FoundResources
<1> HIDE DEF w, dep, arg
<1>6. Range(job'.plan) = IF change.op = "none" THEN {} ELSE {w}
  BY <1>1, <1>3, PlanCalls, Zenon
<1>7. \A a \in Removed(Range(job'.plan)) : a = target /\ change.op # "none"
  BY <1>4, <1>5, <1>6 DEF Removed
<1>8. change.op # "none" => \A r \in dep : Generates(Range(job'.plan), Key(r))
  BY <1>4, <1>6 DEF Generates, Generating
<1>9. job'.plan # <<>> => Range(Tail(job'.plan)) = {}
  <2>1. \A s : Tail(<<s>>) = <<>>
    OBVIOUS
  <2>2. job'.plan # <<>> => job'.plan = <<w>>
    BY <1>1, <1>3, Zenon
  <2> QED
    BY <2>1, <2>2, PlanCalls
<1> QED
  BY <1>2, <1>4, <1>5, <1>6, <1>7, <1>8, <1>9 DEF dep

\* The other syncs but those of resources remove nothing.
LEMMA OtherCalls ==
  ASSUME JobOK, NEW key,
         \/ SyncAppProtectUserSig(key) \/ SyncConfigMap(key) \/ SyncService(key)
         \/ SyncIngressLink(key) \/ SyncEndpoints(key)
  PROVE  PlainCalls(Range(job'.plan))
<1>1. CASE SyncAppProtectUserSig(key)
  <2> DEFINE change == apChange'
             dep == UNION {FindDependents(<<"APPolicy", n>>) :
                             n \in change.PolicyAddsOrUpdates \cup change.PolicyDeletions}
             sigs == change.UserSigs
  <2>1. job' = Job(<<Step("refresh", dep, sigs)>>)
    BY <1>1, Zenon DEF SyncAppProtectUserSig, UserSigPlan
  <2>2. dep \subseteq configured
    BY FoundResources
  <2> HIDE DEF change, dep, sigs
  <2>3. \A c \in Range(job'.plan) : c.op = "refresh" /\ c.res = dep
    BY <2>1, OneCall
  <2> QED
    BY <2>2, <2>3 DEF PlainCalls
<1>2. CASE SyncConfigMap(key)
  <2> DEFINE all == {r \in configured : r.kind # "TransportServer"}
  <2>1. PICK op \in {"report", "config"} : job' = Job(<<Step(op, all, {})>>)
    BY <1>2 DEF SyncConfigMap
  <2>2. all \subseteq configured
    OBVIOUS
  <2> HIDE DEF all
  <2>3. \A c \in Range(job'.plan) : c.op = op /\ c.res = all /\ c.arg = {}
    BY <2>1, OneCall
  <2> QED
    BY <2>2, <2>3 DEF PlainCalls
<1>3. CASE SyncService(key)
  <2> DEFINE all == Ingresses(configured)
             s == Step("report", all, {})
             first == IF key[2] = World.external THEN <<s>> ELSE <<>>
             rest == Rewrite(FindResources(key))
  <2>1. job'.plan = first \o rest
    BY <1>3, JobIs DEF SyncService
  <2>2. s.op = "report" /\ s.res = all /\ s.arg = {}
    BY DEF Step
  <2>3. /\ all \subseteq configured /\ all \in SUBSET ObjectsOf(world) /\ "report" \in PlanOps
        /\ FindResources(key) \subseteq ObjectsOf(world) /\ FindResources(key) \subseteq configured
    BY FoundResources DEF Ingresses, OfKind, JobOK, PlanOps
  <2> HIDE DEF all
  <2>4. IsPlan(first)
    BY <2>3, ShortPlan, Zenon
  <2>5. IsPlan(rest)
    BY <2>3, RewritePlan
  <2> HIDE DEF s
  <2>6. Range(first) \subseteq {s}
    BY PlanCalls, Zenon
  <2> HIDE DEF first
  <2>7. Range(job'.plan) = Range(first) \cup Range(rest)
    BY <2>1, <2>4, <2>5, PlanCallsConcat
  <2>8. \A c \in Range(rest) : c.res = FindResources(key) /\ c.arg = {}
    BY RewriteCalls
  <2> HIDE DEF rest
  <2> QED
    BY <2>2, <2>3, <2>6, <2>7, <2>8 DEF PlainCalls
<1>4. CASE SyncIngressLink(key)
  <2>1. \A c \in Range(job'.plan) : c.op = "report" /\ c.res = Ingresses(configured)
    BY <1>4, OneCall DEF SyncIngressLink
  <2> QED
    BY <2>1 DEF PlainCalls, Ingresses, OfKind
<1>5. CASE SyncEndpoints(key)
  <2> DEFINE res == IF At(lister, key) = {} THEN {} ELSE FindResources(key)
             g(role) == {r \in res : r.role = role}
             group(role) == IF g(role) = {} THEN <<>> ELSE <<Step("endpoints", g(role), {})>>
             i == group("Ingress")
             m == group("Master")
             v == group("VirtualServer")
             t == group("TransportServer")
  <2>1. job'.plan = i \o m \o v \o t
    BY <1>5, JobIs DEF SyncEndpoints
  <2>2. ASSUME NEW role PROVE IsPlan(group(role)) /\ PlainCalls(Range(group(role)))
    <3> DEFINE s == Step("endpoints", g(role), {})
    <3>1. g(role) \subseteq configured /\ g(role) \in SUBSET ObjectsOf(world)
      BY FoundResources DEF JobOK
    <3> HIDE DEF g
    <3>2. s.op = "endpoints" /\ s.res = g(role)
      BY DEF Step
    <3>3. "endpoints" \in PlanOps
      BY DEF PlanOps
    <3>4. IsPlan(group(role))
      BY <3>1, <3>3, ShortPlan, Zenon
    <3> HIDE DEF s
    <3>5. Range(group(role)) \subseteq {s}
      BY PlanCalls, Zenon DEF s
    <3> HIDE DEF group
    <3>6. PlainCalls(Range(group(role)))
      BY <3>1, <3>2, <3>5 DEF PlainCalls
    <3> QED
      BY <3>4, <3>6
  <2>3. /\ IsPlan(i) /\ IsPlan(m) /\ IsPlan(v) /\ IsPlan(t)
        /\ PlainCalls(Range(i)) /\ PlainCalls(Range(m)) /\ PlainCalls(Range(v)) /\ PlainCalls(Range(t))
    BY <2>2
  <2> HIDE DEF i, m, v, t
  <2>4. IsPlan(i \o m) /\ Range(i \o m) = Range(i) \cup Range(m)
    BY <2>3, LongPlan, PlanCallsConcat
  <2>5. IsPlan(i \o m \o v) /\ Range(i \o m \o v) = Range(i \o m) \cup Range(v)
    BY <2>3, <2>4, LongPlan, PlanCallsConcat
  <2>6. Range(i \o m \o v \o t) = Range(i \o m \o v) \cup Range(t)
    BY <2>3, <2>5, PlanCallsConcat
  <2>7. Range(job'.plan) = Range(i) \cup Range(m) \cup Range(v) \cup Range(t)
    BY <2>1, <2>4, <2>5, <2>6
  <2> QED
    BY <2>3, <2>7 DEF PlainCalls
<1> QED
  BY <1>1, <1>2, <1>3, <1>4, <1>5

\* A resource that changes is written or deleted.
LEMMA ResourceCalls ==
  ASSUME JobOK, NEW key, SyncResource(key)
  PROVE  /\ \A s \in Range(job'.plan) : s.res \subseteq configured' /\ (s.op = "write" => s.arg = {})
         /\ At(lister, key) = At(configured, key) \/ Rewritten(Range(job'.plan), key)
         /\ \A r \in configured : Key(r) # key => r \in configured'
<1> DEFINE new == At(lister, key)
           old == At(configured, key)
           d == Step("delete", {}, {key})
<1>1. /\ configured' = (configured \ old) \cup new
      /\ job' = Job(IF new = old THEN <<>> ELSE IF new = {} THEN <<d>> ELSE Rewrite(new))
  BY Zenon DEF SyncResource
<1>2. \A r \in new \cup old : Key(r) = key
  BY DEF At
<1>3. \A r \in configured : Key(r) # key => r \in configured'
  BY <1>1, <1>2
<1>4. d.op = "delete" /\ d.res = {} /\ d.arg = {key}
  BY DEF Step
<1> HIDE DEF new, old, d
<1>5. CASE new = old
  <2>1. Range(job'.plan) = {}
    BY <1>1, <1>5, JobIs, PlanCalls
  <2> QED
    BY <2>1, <1>3, <1>5 DEF new, old
<1>6. CASE new # old /\ new = {}
  <2>1. Range(job'.plan) = {d}
    BY <1>1, <1>6, JobIs, PlanCalls
  <2> QED
    BY <2>1, <1>3, <1>4 DEF Rewritten
<1>7. CASE new # old /\ new # {}
  <2>1. job'.plan = Rewrite(new)
    BY <1>1, <1>7, JobIs
  <2>2. /\ \A c \in Range(job'.plan) : c.res = new /\ c.op = "write" /\ c.arg = {}
        /\ \A r \in new : Generates(Range(job'.plan), Key(r))
    BY <2>1, RewriteCalls
  <2> QED
    BY <2>2, <1>1, <1>2, <1>3, <1>7 DEF Rewritten
<1> QED
  BY <1>5, <1>6, <1>7

\* The policies of a resource, of those in a lister that are valid.
PoliciesNow(obj, objects) ==
  {p \in AllPolicies(objects) : \E q \in Parts(obj) : q.role \in PolicyRoles /\ p.name \in q.policies}

\* A policy of the resource is still to be synced.
PolicyWaits(obj, tasks) ==
  \E p \in Parts(obj) : p.role \in PolicyRoles /\ \E n \in p.policies : <<"Policy", n>> \in tasks

\* Every file that an extended resource names is one that the reference checkers
\* find: the resource refers to it, or one of its policies does.
Justified(x, objects) ==
  /\ \A s \in x.secrets :
       \/ \E p \in Parts(x.obj) : p.role \in {"Ingress", "Master", "VirtualServer"} /\ s.name \in p.tls
       \/ \E p \in PoliciesNow(x.obj, objects) : \E u \in p.secrets : u[1] = s.name
  /\ \A a \in x.ap :
       \/ \E p \in Parts(x.obj) : RefersToAppProtect(p, a)
       \/ \E p \in PoliciesNow(x.obj, objects) : a \in p.ap

HasSecretFiles(x, files) == \A s \in x.secrets : HasFile(s) => FileName(s.name) \in DOMAIN files

\* An extended resource is that of a configured resource, with secrets of the world.
Placed(x, k, resources) ==
  x.obj \in resources /\ Key(x.obj) = k /\ \A s \in x.secrets : s.name \in Names

\* Every file that a config file names exists and is justified, unless the config
\* file is about to be rewritten or a policy is still to be synced.
RefsOK ==
  \A k \in DOMAIN disk.conf :
    \/ Rewritten(Range(job.plan), k)
    \/ /\ Placed(disk.conf[k], k, configured)
       /\ \/ PolicyWaits(disk.conf[k].obj, queue.dirty)
          \/ /\ Justified(disk.conf[k], lister) /\ HasSecretFiles(disk.conf[k], store.files)
             /\ disk.conf[k].ap \subseteq DOMAIN disk.ap \ Removed(Range(job.plan))

\* So do the extended resources that are built and not yet written.
ExesOK ==
  job.built =>
    \A k : Generates(Range(job.plan), k) =>
      /\ Placed(job.exes[k], k, configured) /\ HasSecretFiles(job.exes[k], store.files)
      /\ PolicyWaits(job.exes[k].obj, queue.dirty) \/ Justified(job.exes[k], lister)

\* The calls of a plan are about configured resources; only the first removes files.
CallsOK ==
  /\ \A r \in configured : r.kind \in ResourceKinds
  /\ \A s \in Range(job.plan) : s.res \subseteq configured
  /\ job.plan # <<>> => Removed(Range(Tail(job.plan))) = {}

\* What is justified by a secret or an App Protect resource depends on it.
LEMMA JustifiedFound ==
  ASSUME NEW x, x.obj \in configured, Justified(x, lister)
  PROVE  /\ \A s \in x.secrets : \A key : key[1] = "Secret" /\ key[2] = s.name => x.obj \in FindDependents(key)
         /\ \A a \in x.ap : a[1] \in AppProtectKinds => x.obj \in FindDependents(a)
<1>1. \A key : \A p \in PoliciesFor(key) : FindResources(Key(p)) \subseteq FindDependents(key)
  BY DEF FindDependents
<1>2. ASSUME NEW p \in PoliciesNow(x.obj, lister)
      PROVE  x.obj \in FindResources(Key(p)) /\ p \in AllPolicies(lister)
  <2>1. p \in AllPolicies(lister) /\ p.kind = "Policy"
    BY DEF PoliciesNow, AllPolicies, OfKind
  <2>2. PICK q \in Parts(x.obj) : q.role \in PolicyRoles /\ p.name \in q.policies
    BY DEF PoliciesNow
  <2>3. Key(p)[1] = "Policy" /\ Key(p)[2] = p.name
    BY <2>1 DEF Key
  <2>4. RefersTo(q, Key(p))
    BY <2>2, <2>3 DEF RefersTo, RefersToPolicy
  <2> QED
    BY <2>1, <2>2, <2>4 DEF FindResources
<1>3. ASSUME NEW s \in x.secrets, NEW key, key[1] = "Secret", key[2] = s.name
      PROVE  x.obj \in FindDependents(key)
  <2>1. CASE \E p \in Parts(x.obj) : p.role \in {"Ingress", "Master", "VirtualServer"} /\ s.name \in p.tls
    <3>1. PICK p \in Parts(x.obj) : p.role \in {"Ingress", "Master", "VirtualServer"} /\ s.name \in p.tls
      BY <2>1
    <3>2. RefersTo(p, key)
      BY <3>1, <1>3 DEF RefersTo, RefersToSecret
    <3> QED
      BY <3>1, <3>2 DEF FindDependents, FindResources
  <2>2. CASE \E p \in PoliciesNow(x.obj, lister) : \E u \in p.secrets : u[1] = s.name
    <3>1. PICK p \in PoliciesNow(x.obj, lister) : \E u \in p.secrets : u[1] = s.name
      BY <2>2
    <3>2. p \in PoliciesFor(key)
      BY <3>1, <1>2, <1>3 DEF PoliciesFor
    <3> QED
      BY <3>1, <3>2, <1>1, <1>2
  <2> QED
    BY <2>1, <2>2 DEF Justified
<1>4. ASSUME NEW a \in x.ap, a[1] \in AppProtectKinds
      PROVE  x.obj \in FindDependents(a)
  <2>0. a[1] # "Secret" /\ a[1] # "Policy"
    BY <1>4 DEF AppProtectKinds
  <2>1. CASE \E p \in Parts(x.obj) : RefersToAppProtect(p, a)
    <3>1. PICK p \in Parts(x.obj) : RefersToAppProtect(p, a)
      BY <2>1
    <3>2. RefersTo(p, a)
      BY <3>1, <1>4 DEF RefersTo, AppProtectKinds
    <3> QED
      BY <3>1, <3>2 DEF FindDependents, FindResources
  <2>2. CASE \E p \in PoliciesNow(x.obj, lister) : a \in p.ap
    <3>1. PICK p \in PoliciesNow(x.obj, lister) : a \in p.ap
      BY <2>2
    <3>2. p \in PoliciesFor(a)
      BY <3>1, <1>2, <2>0 DEF PoliciesFor
    <3> QED
      BY <3>1, <3>2, <1>1, <1>2
  <2> QED
    BY <2>1, <2>2 DEF Justified
<1> QED
  BY <1>3, <1>4

\* A task that starts was waiting: if it is a policy's, the resource is found.
LEMMA WaitingFound ==
  ASSUME NEW key, NEW obj \in configured, PolicyWaits(obj, queue.dirty), queue'.dirty = queue.dirty \ {key}
  PROVE  PolicyWaits(obj, queue'.dirty) \/ (key[1] = "Policy" /\ obj \in FindResources(key))
<1>1. PICK p \in Parts(obj) : p.role \in PolicyRoles /\ \E n \in p.policies : <<"Policy", n>> \in queue.dirty
  BY DEF PolicyWaits
<1>2. PICK n \in p.policies : <<"Policy", n>> \in queue.dirty
  BY <1>1
<1>3. CASE key = <<"Policy", n>>
  <2>1. key[1] = "Policy" /\ key[2] = n
    BY <1>3
  <2>2. RefersTo(p, key)
    BY <2>1, <1>1 DEF RefersTo, RefersToPolicy
  <2> QED
    BY <2>1, <2>2 DEF FindResources
<1>4. CASE key # <<"Policy", n>>
  BY <1>1, <1>2, <1>4 DEF PolicyWaits
<1> QED
  BY <1>3, <1>4

\* The sync of a secret touches no other secret's file.
LEMMA OtherSecretFiles ==
  ASSUME NEW key, SyncSecret(key), key[1] = "Secret"
  PROVE  DOMAIN store.files \ {FileName(key[2])} \subseteq DOMAIN store'.files
<1> DEFINE s == CHOOSE s \in At(lister, key) : TRUE
<1>1. store' = IF At(lister, key) = {} THEN DeleteSecret(store, key[2]) ELSE AddOrUpdateSecret(store, s)
  BY DEF SyncSecret
<1>2. At(lister, key) # {} => s.name = key[2]
  <2>1. \A o \in At(lister, key) : o.name = key[2]
    BY DEF At, Key
  <2> QED
    BY <2>1
<1> HIDE DEF s
<1>3. CASE At(lister, key) = {}
  BY <1>1, <1>3 DEF DeleteSecret, UnsetKey
<1>4. CASE At(lister, key) # {}
  <2>1. store'.files \in {store.files, SetKey(store.files, FileName(s.name), s), UnsetKey(store.files, FileName(s.name))}
    BY <1>1, <1>4 DEF AddOrUpdateSecret, WriteSecret
  <2> QED
    BY <2>1, <1>2, <1>4 DEF SetKey, UnsetKey
<1> QED
  BY <1>3, <1>4

\* The config file x with key k names only files that exist, and only such as the
\* reference checkers find, unless a policy is still to be synced.
Sound(x, k, resources, tasks, objects, files, apFiles) ==
  /\ Placed(x, k, resources)
  /\ \/ PolicyWaits(x.obj, tasks)
     \/ Justified(x, objects) /\ HasSecretFiles(x, files) /\ x.ap \subseteq apFiles

\* Between two tasks there are no calls left.
LEMMA RefsBetweenTasks ==
  ASSUME WorkerOK, RefsOK, current = {}
  PROVE  \A k \in DOMAIN disk.conf :
           Sound(disk.conf[k], k, configured, queue.dirty, lister, store.files, DOMAIN disk.ap)
<1>1. Range(job.plan) = {}
  BY PlanCalls DEF WorkerOK
<1>2. \A k : ~Rewritten({}, k)
  BY DEF Rewritten, Generates
<1>3. Removed({}) = {}
  BY DEF Removed
<1> QED
  BY <1>1, <1>2, <1>3 DEF RefsOK, Sound

\* The sync of a secret rewrites the config files that name its file.
LEMMA SecretRefs ==
  ASSUME JobOK, NEW key, SyncSecret(key), key[1] = "Secret", key[2] \in Names,
         queue'.dirty = queue.dirty \ {key},
         NEW x, NEW k, Sound(x, k, configured, queue.dirty, lister, store.files, DOMAIN disk.ap)
  PROVE  \/ Rewritten(Range(job'.plan), k)
         \/ Sound(x, k, configured, queue'.dirty, lister, store'.files, DOMAIN disk.ap)
<1>1. x.obj \in configured /\ Key(x.obj) = k /\ \A s \in x.secrets : s.name \in Names
  BY DEF Sound, Placed
<1>2. CASE PolicyWaits(x.obj, queue.dirty)
  BY <1>1, <1>2, WaitingFound DEF Sound
<1>3. CASE Justified(x, lister) /\ HasSecretFiles(x, store.files) /\ x.ap \subseteq DOMAIN disk.ap
  <2>1. CASE \E s \in x.secrets : s.name = key[2]
    <3>1. x.obj \in FindDependents(key)
      BY <2>1, <1>1, <1>3, JustifiedFound
    <3> QED
      BY <3>1, <1>1, SecretCalls DEF Rewritten
  <2>2. CASE ~\E s \in x.secrets : s.name = key[2]
    <3>1. \A s \in x.secrets : FileName(s.name) # FileName(key[2])
      BY <2>2, <1>1, NoFileNameCollision DEF NoFileNameCollision
    <3>2. HasSecretFiles(x, store'.files)
      BY <3>1, <1>3, OtherSecretFiles DEF HasSecretFiles
    <3> QED
      BY <3>2, <1>3 DEF Sound
  <2> QED
    BY <2>1, <2>2
<1> QED
  BY <1>2, <1>3 DEF Sound

\* The sync of a policy rewrites the config files that waited for it.
LEMMA PolicyRefs ==
  ASSUME NEW key, SyncPolicy(key), queue'.dirty = queue.dirty \ {key},
         NEW x, NEW k, Sound(x, k, configured, queue.dirty, lister, store.files, DOMAIN disk.ap)
  PROVE  \/ Rewritten(Range(job'.plan), k)
         \/ Sound(x, k, configured, queue'.dirty, lister, store.files, DOMAIN disk.ap)
<1>1. x.obj \in configured /\ Key(x.obj) = k
  BY DEF Sound, Placed
<1>2. CASE PolicyWaits(x.obj, queue.dirty)
  BY <1>1, <1>2, WaitingFound, PolicyCalls DEF Sound, Rewritten
<1> QED
  BY <1>2 DEF Sound

\* The deletion of an App Protect resource rewrites the config files that name it.
LEMMA AppProtectRefs ==
  ASSUME NEW key, SyncAppProtectPolicy(key) \/ SyncAppProtectLogConf(key), key[1] # "Policy",
         queue'.dirty = queue.dirty \ {key},
         NEW x, NEW k, Sound(x, k, configured, queue.dirty, lister, store.files, DOMAIN disk.ap)
  PROVE  \/ Rewritten(Range(job'.plan), k)
         \/ Sound(x, k, configured, queue'.dirty, lister, store.files,
                  DOMAIN disk.ap \ Removed(Range(job'.plan)))
<1>1. x.obj \in configured /\ Key(x.obj) = k
  BY DEF Sound, Placed
<1>2. CASE PolicyWaits(x.obj, queue.dirty)
  BY <1>1, <1>2, WaitingFound DEF Sound
<1>3. CASE Justified(x, lister) /\ HasSecretFiles(x, store.files) /\ x.ap \subseteq DOMAIN disk.ap
  <2>1. CASE \E a \in Removed(Range(job'.plan)) : a \in x.ap
    <3>1. PICK a \in Removed(Range(job'.plan)) : a \in x.ap
      BY <2>1
    <3>2. x.obj \in FindDependents(a)
      BY <3>1, <1>1, <1>3, AppProtectCalls, JustifiedFound
    <3> QED
      BY <3>1, <3>2, <1>1, AppProtectCalls DEF Rewritten
  <2>2. CASE ~\E a \in Removed(Range(job'.plan)) : a \in x.ap
    BY <2>2, <1>3 DEF Sound
  <2> QED
    BY <2>1, <2>2
<1> QED
  BY <1>2, <1>3 DEF Sound

\* The sync of a resource rewrites its own config file, and leaves the others.
LEMMA ResourceRefs ==
  ASSUME JobOK, NEW key, SyncResource(key), key[1] # "Policy",
         queue'.dirty = queue.dirty \ {key},
         NEW x, NEW k, Sound(x, k, configured, queue.dirty, lister, store.files, DOMAIN disk.ap)
  PROVE  \/ Rewritten(Range(job'.plan), k)
         \/ Sound(x, k, configured', queue'.dirty, lister, store.files, DOMAIN disk.ap)
<1>1. x.obj \in configured /\ Key(x.obj) = k /\ \A s \in x.secrets : s.name \in Names
  BY DEF Sound, Placed
<1>2. Rewritten(Range(job'.plan), k) \/ x.obj \in configured'
  <2>1. CASE k # key
    BY <2>1, <1>1, ResourceCalls
  <2>2. CASE k = key
    <3>1. CASE At(lister, key) = At(configured, key)
      <4>1. configured' = (configured \ At(configured, key)) \cup At(lister, key)
        BY DEF SyncResource
      <4> QED
        BY <4>1, <3>1, <1>1
    <3> QED
      BY <3>1, <2>2, ResourceCalls
  <2> QED
    BY <2>1, <2>2
<1>3. PolicyWaits(x.obj, queue.dirty) => PolicyWaits(x.obj, queue'.dirty)
  BY <1>1, WaitingFound
<1> QED
  BY <1>1, <1>2, <1>3 DEF Sound, Placed

\* Plain calls remove nothing first.
LEMMA PlainRemoves ==
  ASSUME NEW calls, \A s \in calls : s.op = "write" => s.arg = {}
  PROVE  Removed(calls) = {}
BY DEF Removed

\* What a sync function leaves, once it has planned its calls.
Planned ==
  /\ \A r \in configured' : r.kind \in ResourceKinds
  /\ \A s \in Range(job'.plan) : s.res \subseteq configured'
  /\ Removed(Range(job'.plan)) = {} \/ (job'.plan # <<>> => Range(Tail(job'.plan)) = {})
  /\ \A k \in DOMAIN disk.conf :
       \/ Rewritten(Range(job'.plan), k)
       \/ Sound(disk.conf[k], k, configured', queue'.dirty, lister, store'.files,
                DOMAIN disk.ap \ Removed(Range(job'.plan)))

LEMMA StartPlanned ==
  ASSUME WorkerOK, JobOK, QueueOpen, RefsOK, CallsOK, StartSync
  PROVE  Planned
<1> DEFINE key == Head(queue.items)
<1>1. /\ key \in Keys /\ current = {}
      /\ \A k \in DOMAIN disk.conf :
           Sound(disk.conf[k], k, configured, queue.dirty, lister, store.files, DOMAIN disk.ap)
  BY StartSyncOK, RefsBetweenTasks
<1>2. queue'.dirty = queue.dirty \ {key}
  <2>1. [Next]_allVars
    BY DEF Next, Work
  <2> QED
    BY <2>1, WaitingTasks
<1>3. \A r \in configured : r.kind \in ResourceKinds
  BY DEF CallsOK
<1>4. \/ key[1] = "Secret" /\ SyncSecret(key)
      \/ key[1] = "Policy" /\ SyncPolicy(key)
      \/ key[1] = "APPolicy" /\ SyncAppProtectPolicy(key)
      \/ key[1] = "APLogConf" /\ SyncAppProtectLogConf(key)
      \/ key[1] = "APUserSig" /\ SyncAppProtectUserSig(key)
      \/ key[1] = "ConfigMap" /\ SyncConfigMap(key)
      \/ key[1] = "Service" /\ SyncService(key)
      \/ key[1] = "IngressLink" /\ SyncIngressLink(key)
      \/ key[1] = "Endpoints" /\ SyncEndpoints(key)
      \/ key[1] \in ResourceKinds /\ SyncResource(key)
  BY DEF StartSync
<1> HIDE DEF key
<1>5. CASE key[1] = "Secret" /\ SyncSecret(key)
  <2>1. key[2] \in Names
    <3>1. PICK o \in ObjectsOf(world) : key[1] = o.kind /\ key[2] = o.name
      BY <1>1, KeyParts
    <3> QED
      BY <3>1, <1>5 DEF Names, OfKind, ObjectsOf, WorkerOK
  <2>2. configured' = configured
    BY <1>5 DEF SyncSecret
  <2>3. PlainCalls(Range(job'.plan))
    BY <1>5, SecretCalls
  <2>4. Removed(Range(job'.plan)) = {}
    BY <2>3, PlainRemoves DEF PlainCalls
  <2>5. \A k \in DOMAIN disk.conf :
           \/ Rewritten(Range(job'.plan), k)
           \/ Sound(disk.conf[k], k, configured, queue'.dirty, lister, store'.files, DOMAIN disk.ap)
    BY <1>1, <1>2, <1>5, <2>1, SecretRefs
  <2> QED
    BY <2>2, <2>3, <2>4, <2>5, <1>3 DEF Planned, PlainCalls
<1>6. CASE key[1] = "Policy" /\ SyncPolicy(key)
  <2>1. configured' = configured /\ store' = store
    BY <1>6 DEF SyncPolicy, cnf
  <2>2. PlainCalls(Range(job'.plan))
    BY <1>6, PolicyCalls
  <2>3. Removed(Range(job'.plan)) = {}
    BY <2>2, PlainRemoves DEF PlainCalls
  <2>4. \A k \in DOMAIN disk.conf :
           \/ Rewritten(Range(job'.plan), k)
           \/ Sound(disk.conf[k], k, configured, queue'.dirty, lister, store.files, DOMAIN disk.ap)
    BY <1>1, <1>2, <1>6, PolicyRefs
  <2> QED
    BY <2>1, <2>2, <2>3, <2>4, <1>3 DEF Planned, PlainCalls
<1>7. CASE key[1] \in AppProtectKinds /\ (SyncAppProtectPolicy(key) \/ SyncAppProtectLogConf(key))
  <2>1. configured' = configured /\ store' = store
    BY <1>7 DEF SyncAppProtectPolicy, SyncAppProtectLogConf, cnf
  <2>2. key[1] # "Policy"
    BY <1>7 DEF AppProtectKinds
  <2>3. \A k \in DOMAIN disk.conf :
           \/ Rewritten(Range(job'.plan), k)
           \/ Sound(disk.conf[k], k, configured, queue'.dirty, lister, store.files,
                    DOMAIN disk.ap \ Removed(Range(job'.plan)))
    BY <1>1, <1>2, <1>7, <2>2, AppProtectRefs
  <2>4. /\ \A s \in Range(job'.plan) : s.res \subseteq configured
        /\ job'.plan # <<>> => Range(Tail(job'.plan)) = {}
    BY <1>7, AppProtectCalls
  <2> QED
    BY <2>1, <2>3, <2>4, <1>3 DEF Planned
<1>8. CASE /\ key[1] # "Policy"
           /\ \/ SyncAppProtectUserSig(key) \/ SyncConfigMap(key) \/ SyncService(key)
              \/ SyncIngressLink(key) \/ SyncEndpoints(key)
  <2>1. configured' = configured /\ store' = store
    BY <1>8 DEF SyncAppProtectUserSig, SyncConfigMap, SyncService, SyncIngressLink, SyncEndpoints, cnf
  <2>2. PlainCalls(Range(job'.plan))
    BY <1>8, OtherCalls
  <2>3. Removed(Range(job'.plan)) = {}
    BY <2>2, PlainRemoves DEF PlainCalls
  <2>4. ASSUME NEW k \in DOMAIN disk.conf
        PROVE  Sound(disk.conf[k], k, configured, queue'.dirty, lister, store.files, DOMAIN disk.ap)
    <3>1. /\ disk.conf[k].obj \in configured
          /\ Sound(disk.conf[k], k, configured, queue.dirty, lister, store.files, DOMAIN disk.ap)
      BY <1>1 DEF Sound, Placed
    <3>2. PolicyWaits(disk.conf[k].obj, queue.dirty) => PolicyWaits(disk.conf[k].obj, queue'.dirty)
      BY <3>1, <1>2, <1>8, WaitingFound
    <3> QED
      BY <3>1, <3>2 DEF Sound
  <2> QED
    BY <2>1, <2>2, <2>3, <2>4, <1>3 DEF Planned, PlainCalls
<1>9. CASE key[1] \in ResourceKinds /\ SyncResource(key)
  <2>1. store' = store /\ configured' = (configured \ At(configured, key)) \cup At(lister, key)
    BY <1>9 DEF SyncResource
  <2>2. \A r \in At(lister, key) : r.kind = key[1]
    BY DEF At, Key
  <2>3. key[1] # "Policy"
    BY <1>9 DEF ResourceKinds
  <2>4. \A s \in Range(job'.plan) : s.res \subseteq configured' /\ (s.op = "write" => s.arg = {})
    BY <1>9, ResourceCalls
  <2>5. Removed(Range(job'.plan)) = {}
    BY <2>4, PlainRemoves
  <2>6. \A k \in DOMAIN disk.conf :
           \/ Rewritten(Range(job'.plan), k)
           \/ Sound(disk.conf[k], k, configured', queue'.dirty, lister, store.files, DOMAIN disk.ap)
    BY <1>1, <1>2, <1>9, <2>3, ResourceRefs
  <2>7. \A r \in configured' : r.kind \in ResourceKinds
    BY <2>1, <2>2, <1>3, <1>9
  <2> QED
    BY <2>1, <2>4, <2>5, <2>6, <2>7 DEF Planned
<1> QED
  BY <1>4, <1>5, <1>6, <1>7, <1>8, <1>9 DEF AppProtectKinds

\* So the start of a task keeps the invariants.
LEMMA StartRefs ==
  ASSUME WorkerOK, JobOK, QueueOpen, RefsOK, CallsOK, StartSync
  PROVE  RefsOK' /\ ExesOK' /\ CallsOK'
<1>1. Planned
  BY StartPlanned
<1>2. disk' = disk /\ lister' = lister
  BY DEF StartSync, nginx
<1>3. RefsOK'
  BY <1>1, <1>2 DEF Planned, RefsOK, Sound
<1>4. ExesOK'
  <2>1. job' = Job(job'.plan) /\ Job(job'.plan) = [built |-> FALSE, exes |-> <<>>, plan |-> job'.plan]
    BY StartPlan, JobIs
  <2>2. job'.built = FALSE
    BY <2>1
  <2> QED
    BY <2>2 DEF ExesOK
<1>5. CallsOK'
  <2>1. job'.plan # <<>> => Removed(Range(Tail(job'.plan))) = {}
    <3>1. ASSUME job'.plan # <<>> PROVE Range(Tail(job'.plan)) \subseteq Range(job'.plan)
      <4>1. WorkerOK' /\ IsPlan(job'.plan)
        BY StartPlan, StartSyncOK
      <4> QED
        BY <4>1, <3>1, PlanCallsTail
    <3>2. Removed({}) = {}
      BY DEF Removed
    <3>3. \A S, T : S \subseteq T => Removed(S) \subseteq Removed(T)
      BY DEF Removed
    <3> QED
      BY <3>1, <3>2, <3>3, <1>1 DEF Planned
  <2> QED
    BY <2>1, <1>1 DEF Planned, CallsOK
<1> QED
  BY <1>3, <1>4, <1>5

\* GetSecret leaves a file for every valid secret that it is asked for.
LEMMA FetchedFiles ==
  ASSUME NEW S, NEW st, IsStore(st, S), Current(st), NEW keys, NEW jwt
  PROVE  LET files == SetPaths(GetSecrets(st, keys), jwt).files
         IN /\ DOMAIN st.files \subseteq DOMAIN files
            /\ \A k \in keys \cap DOMAIN st.refs :
                 ValidateSecret(st.refs[k].secret) /\ HasFile(st.refs[k].secret) => FileName(k) \in DOMAIN files
<1> DEFINE written == {k \in keys \cap DOMAIN st.refs :
                         /\ ValidateSecret(st.refs[k].secret) /\ ~st.refs[k].path
                         /\ HasFile(st.refs[k].secret)}
           files == SetPaths(GetSecrets(st, keys), jwt).files
<1>1. files = GetSecrets(st, keys).files
  BY DEF SetPaths
<1>2. DOMAIN GetSecrets(st, keys).files = DOMAIN st.files \cup {FileName(k) : k \in written}
  BY DEF GetSecrets
<1>3. ASSUME NEW k \in keys \cap DOMAIN st.refs, ValidateSecret(st.refs[k].secret),
             HasFile(st.refs[k].secret), k \notin written
      PROVE  FileName(k) \in DOMAIN st.files
  <2>1. st.refs[k].path = TRUE
    BY <1>3 DEF IsStore
  <2>2. k \in OnDisk(st)
    BY <2>1, <1>3 DEF OnDisk
  <2> QED
    BY <2>2 DEF Current
<1>4. ASSUME NEW k \in written PROVE FileName(k) \in DOMAIN files
  BY <1>1, <1>2
<1> HIDE DEF written, files
<1> QED
  BY <1>1, <1>2, <1>3, <1>4 DEF files

\* A config file calls a secret by its name and type.
LEMMA MentionOK ==
  ASSUME WorkerOK, NEW s \in SecretsOfWorld
  PROVE  Mention(s).name = s.name /\ Mention(s).type = s.type
<1>1. s = [kind |-> s.kind, name |-> s.name, type |-> s.type, wellFormed |-> s.wellFormed, rev |-> s.rev]
  BY ReferencesAssumption DEF ReferencesAssumption, SecretsOfWorld, OfKind, ObjectsOf, WorkerOK
<1>2. /\ [s EXCEPT !.rev = "in its file"].name = s.name
      /\ [s EXCEPT !.rev = "in its file"].type = s.type
  BY <1>1
<1> QED
  BY <1>2 DEF Mention

\* The secrets that an extended resource mentions are valid secrets of the store.
LEMMA ExSecrets ==
  ASSUME WorkerOK, StoreOK, NEW r, NEW s \in Ex(r, ControllerView).secrets
  PROVE  \E k \in DOMAIN store.refs :
           LET t == store.refs[k].secret
           IN /\ t \in SecretsOfWorld /\ ValidateSecret(t) /\ t.name = k
              /\ s.name = t.name /\ s.type = t.type
              /\ <<t.name, t.type>> \in SecretsOf(r, ControllerView)
<1> DEFINE view == ControllerView
<1>1. view.secrets = {store.refs[k].secret : k \in {j \in DOMAIN store.refs : ValidateSecret(store.refs[j].secret)}}
  BY DEF ControllerView
<1> HIDE DEF view
<1>2. Ex(r, view).secrets = {Mention(t) : t \in {u \in view.secrets : <<u.name, u.type>> \in SecretsOf(r, view)}}
  BY DEF Ex
<1>3. PICK t \in view.secrets : <<t.name, t.type>> \in SecretsOf(r, view) /\ s = Mention(t)
  BY <1>2 DEF view
<1>4. PICK k \in DOMAIN store.refs : t = store.refs[k].secret /\ ValidateSecret(t)
  BY <1>1, <1>3
<1>5. t \in SecretsOfWorld /\ t.name = k
  BY <1>4 DEF StoreOK, IsStore
<1>6. s.name = t.name /\ s.type = t.type
  BY <1>3, <1>5, MentionOK
<1> QED
  BY <1>3, <1>4, <1>5, <1>6 DEF view

\* An extended resource that has just been built names what its references find.
LEMMA ExJustified ==
  ASSUME WorkerOK, StoreOK, NEW r \in ObjectsOf(world), r.kind \in ResourceKinds
  PROVE  /\ Ex(r, ControllerView).obj = r
         /\ Justified(Ex(r, ControllerView), lister)
         /\ \A s \in Ex(r, ControllerView).secrets : s.name \in Names
<1> DEFINE view == ControllerView
           x == Ex(r, view)
<1>1. view.policies = AllPolicies(lister)
  BY DEF ControllerView
<1> HIDE DEF view
<1>2. /\ x.obj = r
      /\ x.ap = {Key(o) : o \in {a \in view.ap : Key(a) \in AppProtectOf(r, view)}}
  BY DEF Ex
<1>3. PoliciesOf(r, view) = PoliciesNow(r, lister)
  BY <1>1 DEF PoliciesOf, PoliciesNow
<1>4. ASSUME NEW a \in x.ap
      PROVE  \/ \E p \in Parts(r) : RefersToAppProtect(p, a)
             \/ \E p \in PoliciesNow(r, lister) : a \in p.ap
  <2>1. a \in AppProtectOf(r, view)
    BY <1>2
  <2> QED
    BY <2>1, <1>3 DEF AppProtectOf, RefersToAppProtect
<1>5. ASSUME NEW s \in x.secrets
      PROVE  /\ s.name \in Names
             /\ \/ \E p \in Parts(r) : p.role \in {"Ingress", "Master", "VirtualServer"} /\ s.name \in p.tls
                \/ \E p \in PoliciesNow(r, lister) : \E u \in p.secrets : u[1] = s.name
  <2>1. PICK t \in SecretsOfWorld : s.name = t.name /\ <<t.name, t.type>> \in SecretsOf(r, view)
    BY ExSecrets DEF view
  <2>2. s.name \in Names
    BY <2>1 DEF Names, SecretsOfWorld, OfKind, ObjectsOf, WorkerOK
  <2>3. \/ \E p \in Parts(r) : <<t.name, t.type>> \in p.tls \X {"tls"}
        \/ \E p \in PoliciesOf(r, view) : <<t.name, t.type>> \in p.secrets
    BY <2>1 DEF SecretsOf
  <2>4. CASE \E p \in Parts(r) : <<t.name, t.type>> \in p.tls \X {"tls"}
    <3>1. PICK p \in Parts(r) : <<t.name, t.type>> \in p.tls \X {"tls"}
      BY <2>4
    <3>2. t.name \in p.tls
      BY <3>1
    <3>3. p.role \in {"Ingress", "Master", "VirtualServer"}
      BY <3>1, <3>2, ReferencesAssumption DEF ReferencesAssumption, Parts, ObjectsOf, WorkerOK
    <3> QED
      BY <2>1, <2>2, <3>1, <3>2, <3>3
  <2>5. CASE \E p \in PoliciesOf(r, view) : <<t.name, t.type>> \in p.secrets
    <3>1. <<t.name, t.type>>[1] = t.name
      OBVIOUS
    <3> QED
      BY <2>1, <2>2, <2>5, <3>1, <1>3
  <2> QED
    BY <2>3, <2>4, <2>5
<1> QED
  BY <1>2, <1>4, <1>5 DEF Justified, view

\* createExtendedResources fetches the secrets that it mentions.
LEMMA BuildRefs ==
  ASSUME WorkerOK, JobOK, StoreOK, RefsOK, CallsOK, Build
  PROVE  RefsOK' /\ ExesOK' /\ CallsOK'
<1> DEFINE view == ControllerView
           res == UNION {job.plan[i].res : i \in DOMAIN job.plan}
           names == UNION {{u[1] : u \in SecretsOf(r, view)} \cup JWTKeys(r) : r \in res}
           jwt == UNION {JWTKeys(r) : r \in res}
           ex(k) == Ex(CHOOSE r \in At(res, k) : TRUE, view)
<1>1. /\ store' = SetPaths(GetSecrets(store, names), jwt)
      /\ job' = [job EXCEPT !.built = TRUE, !.exes = [k \in {Key(r) : r \in res} |-> ex(k)]]
      /\ UNCHANGED <<lister, queue, configured, disk>>
  BY DEF Build, FetchSecrets, nginx
<1>2. job'.plan = job.plan /\ job'.exes = [k \in {Key(r) : r \in res} |-> ex(k)]
  BY <1>1 DEF JobOK
<1>3. res = UNION {s.res : s \in Range(job.plan)}
  BY DEF Range
<1>4. res \subseteq configured
  BY <1>3 DEF CallsOK
<1> HIDE DEF res, jwt
<1>5. /\ DOMAIN store.files \subseteq DOMAIN store'.files
      /\ \A k \in names \cap DOMAIN store.refs :
           ValidateSecret(store.refs[k].secret) /\ HasFile(store.refs[k].secret) =>
             FileName(k) \in DOMAIN store'.files
  <2> HIDE DEF names
  <2> QED
    BY <1>1, FetchedFiles DEF StoreOK
<1>6. \A x : HasSecretFiles(x, store.files) => HasSecretFiles(x, store'.files)
  BY <1>5 DEF HasSecretFiles
<1>7. RefsOK'
  BY <1>1, <1>2, <1>6 DEF RefsOK
<1>8. ASSUME NEW k, Generates(Range(job.plan), k)
      PROVE  /\ Placed(job'.exes[k], k, configured) /\ HasSecretFiles(job'.exes[k], store'.files)
             /\ Justified(job'.exes[k], lister)
  <2>1. PICK s \in Range(job.plan) : \E r \in s.res : Key(r) = k
    BY <1>8 DEF Generates
  <2>2. PICK r \in s.res : Key(r) = k
    BY <2>1
  <2>3. r \in At(res, k)
    BY <2>1, <2>2, <1>3 DEF At
  <2> DEFINE q == CHOOSE q \in At(res, k) : TRUE
  <2>4. q \in res /\ Key(q) = k
    BY <2>3 DEF At
  <2>5. job'.exes[k] = Ex(q, view)
    BY <1>2, <2>4
  <2> HIDE DEF q
  <2>6. q \in configured /\ q \in ObjectsOf(world) /\ q.kind \in ResourceKinds
    BY <2>4, <1>4 DEF CallsOK, JobOK
  <2>7. /\ Ex(q, view).obj = q /\ Justified(Ex(q, view), lister)
        /\ \A t \in Ex(q, view).secrets : t.name \in Names
    BY <2>6, ExJustified
  <2>8. ASSUME NEW t \in Ex(q, view).secrets, HasFile(t)
        PROVE  FileName(t.name) \in DOMAIN store'.files
    <3>1. PICK j \in DOMAIN store.refs :
            LET u == store.refs[j].secret
            IN /\ ValidateSecret(u) /\ u.name = j /\ t.name = u.name /\ t.type = u.type
               /\ <<u.name, u.type>> \in SecretsOf(q, view)
      BY ExSecrets
    <3>2. HasFile(store.refs[j].secret)
      BY <3>1, <2>8 DEF HasFile
    <3>3. <<store.refs[j].secret.name, store.refs[j].secret.type>>[1] = j
      BY <3>1
    <3> HIDE DEF view
    <3>4. j \in names
      BY <3>1, <3>3, <2>4
    <3> QED
      BY <3>1, <3>2, <3>4, <1>5
  <2> QED
    BY <2>4, <2>5, <2>6, <2>7, <2>8 DEF Placed, HasSecretFiles
<1>9. ExesOK'
  BY <1>1, <1>2, <1>8 DEF ExesOK
<1>10. CallsOK'
  BY <1>1, <1>2 DEF CallsOK
<1> QED
  BY <1>7, <1>9, <1>10

\* The files of a call that writes config files.
LEMMA WrittenParts ==
  ASSUME DiskOK, NEW step, step.op \in Generating
  PROVE  LET exes == [k \in {Key(r) : r \in step.res} |-> job.exes[k]]
             kept == IF step.op = "write" THEN DOMAIN disk.ap \ step.arg ELSE DOMAIN disk.ap
         IN /\ Written(step).conf = Override(disk.conf, exes)
            /\ DOMAIN Written(step).ap = kept \cup UNION {exes[k].ap : k \in DOMAIN exes}
<1> DEFINE exes == [k \in {Key(r) : r \in step.res} |-> job.exes[k]]
           Shape(d) == d = [conf |-> d.conf, ap |-> d.ap, sigs |-> d.sigs, params |-> d.params,
                            special |-> d.special]
           names == UNION {exes[k].ap : k \in DOMAIN exes}
<1>1. /\ step.op = "write" => Written(step) = WriteConfigs(RemoveApFiles(disk, step.arg), exes)
      /\ step.op = "refresh" => Written(step) = WriteUserSigs(WriteConfigs(disk, exes), step.arg)
      /\ step.op = "config" => Written(step) = WriteConfigs(WriteMainConfig(disk), exes)
      /\ step.op = "endpoints" => Written(step) = WriteConfigs(disk, exes)
  BY DEF Written
<1> HIDE DEF exes
<1>2. Shape(disk)
  BY DEF DiskOK
<1>3. DOMAIN ApFiles(exes) = names
  BY DEF ApFiles
<1>4. \A map, new : DOMAIN Override(map, new) = DOMAIN map \cup DOMAIN new
  BY DEF Override
<1>5. ASSUME NEW d, Shape(d)
      PROVE  /\ Shape(WriteConfigs(d, exes)) /\ WriteConfigs(d, exes).conf = Override(d.conf, exes)
             /\ DOMAIN WriteConfigs(d, exes).ap = DOMAIN d.ap \cup names
  <2> DEFINE c == Override(d.conf, exes)
             a == Override(d.ap, ApFiles(exes))
  <2>1. DOMAIN a = DOMAIN d.ap \cup names
    BY <1>3, <1>4
  <2>2. WriteConfigs(d, exes) = [d EXCEPT !.conf = c, !.ap = a]
    BY Zenon DEF WriteConfigs
  <2> HIDE DEF c, a, names
  <2>3. WriteConfigs(d, exes) = [conf |-> c, ap |-> a, sigs |-> d.sigs, params |-> d.params,
                                 special |-> d.special]
    BY <2>2, <1>5
  <2> QED
    BY <2>1, <2>3 DEF c
<1>6. \A d, arg : Shape(d) => /\ WriteUserSigs(d, arg).conf = d.conf /\ WriteUserSigs(d, arg).ap = d.ap
                              /\ Shape(WriteMainConfig(d)) /\ WriteMainConfig(d).conf = d.conf
                              /\ WriteMainConfig(d).ap = d.ap
  BY DEF WriteUserSigs, WriteMainConfig
<1>7. \A arg : /\ Shape(RemoveApFiles(disk, arg)) /\ RemoveApFiles(disk, arg).conf = disk.conf
               /\ DOMAIN RemoveApFiles(disk, arg).ap = DOMAIN disk.ap \ arg
  BY <1>2 DEF RemoveApFiles
<1> HIDE DEF Shape, names
<1>8. CASE step.op = "write"
  BY <1>1, <1>5, <1>7, <1>8 DEF exes, names
<1>9. CASE step.op = "refresh"
  BY <1>1, <1>2, <1>5, <1>6, <1>9 DEF exes, names
<1>10. CASE step.op = "config"
  BY <1>1, <1>2, <1>5, <1>6, <1>10 DEF exes, names
<1>11. CASE step.op = "endpoints"
  BY <1>1, <1>2, <1>5, <1>11 DEF exes, names
<1> QED
  BY <1>8, <1>9, <1>10, <1>11 DEF Generating

\* A call that is done leaves the rest of the plan.
LEMMA CallRefs ==
  ASSUME WorkerOK, JobOK, ExesOK, CallsOK,
         Write \/ UpdateEndpoints \/ UpdateSpecialSecret \/ DeleteConfig \/ Report
  PROVE  /\ ExesOK' /\ CallsOK'
         /\ UNCHANGED <<lister, queue, configured, store>>
         /\ This \in Range(job.plan) /\ Range(job.plan) = {This} \cup Range(job'.plan)
         /\ Removed(Range(job'.plan)) = {}
<1>1. /\ job' = [built |-> job.built, exes |-> job.exes, plan |-> Tail(job.plan)]
      /\ job.plan # <<>> /\ IsPlan(job.plan) /\ IsPlan(job'.plan)
      /\ UNCHANGED <<lister, queue, configured>>
  BY CallStep DEF JobOK
<1>2. job'.plan = Tail(job.plan) /\ job'.built = job.built /\ job'.exes = job.exes
  BY <1>1
<1>3. store' = store
  BY DEF Write, UpdateEndpoints, UpdateSpecialSecret, DeleteConfig, Report, cnf
<1>4. This \in Range(job.plan) /\ Range(job.plan) = {This} \cup Range(job'.plan)
  BY <1>1, <1>2, PlanCallsTail DEF This
<1>5. \A k : Generates(Range(job'.plan), k) => Generates(Range(job.plan), k)
  BY <1>4 DEF Generates
<1>6. ExesOK'
  BY <1>1, <1>2, <1>3, <1>5 DEF ExesOK
<1>7. Removed(Range(job'.plan)) = {}
  BY <1>1, <1>2 DEF CallsOK
<1>8. job'.plan # <<>> => Removed(Range(Tail(job'.plan))) = {}
  <2>1. job'.plan # <<>> => Range(Tail(job'.plan)) \subseteq Range(job'.plan)
    <3>1. ASSUME NEW p, IsPlan(p), p # <<>> PROVE Range(Tail(p)) \subseteq Range(p)
      BY <3>1, PlanCallsTail
    <3> QED
      BY <3>1, <1>1
  <2>2. \A S, T : S \subseteq T => Removed(S) \subseteq Removed(T)
    BY DEF Removed
  <2> QED
    BY <2>1, <2>2, <1>7
<1>9. CallsOK'
  BY <1>1, <1>4, <1>8 DEF CallsOK
<1> QED
  BY <1>1, <1>3, <1>4, <1>6, <1>7, <1>9

\* The config files that a call writes name files that it writes or that exist.
LEMMA WriteRefs ==
  ASSUME WorkerOK, JobOK, DiskOK, RefsOK, ExesOK, CallsOK, Write \/ UpdateEndpoints
  PROVE  RefsOK'
<1> DEFINE exes == [k \in {Key(r) : r \in This.res} |-> job.exes[k]]
           kept == IF This.op = "write" THEN DOMAIN disk.ap \ This.arg ELSE DOMAIN disk.ap
<1>1. /\ disk' = Written(This) /\ This.op \in Generating /\ job.built
  BY DEF Write, UpdateEndpoints, Doing, This, Generating
<1>2. /\ disk'.conf = Override(disk.conf, exes)
      /\ DOMAIN disk'.ap = kept \cup UNION {exes[k].ap : k \in DOMAIN exes}
  BY <1>1, WrittenParts
<1>3. /\ UNCHANGED <<lister, queue, configured, store>>
      /\ This \in Range(job.plan) /\ Range(job.plan) = {This} \cup Range(job'.plan)
      /\ Removed(Range(job'.plan)) = {}
  BY CallRefs
<1>4. DOMAIN disk.ap \ Removed(Range(job.plan)) \subseteq kept
  BY <1>3 DEF Removed
<1> HIDE DEF kept
<1>5. ASSUME NEW k \in DOMAIN exes
      PROVE  Sound(disk'.conf[k], k, configured, queue.dirty, lister, store.files, DOMAIN disk'.ap)
  <2>1. disk'.conf[k] = job.exes[k] /\ exes[k] = job.exes[k]
    BY <1>2 DEF Override
  <2>2. job.exes[k].ap \subseteq DOMAIN disk'.ap
    BY <1>2, <2>1
  <2>3. Generates(Range(job.plan), k)
    BY <1>1, <1>3 DEF Generates
  <2> QED
    BY <2>1, <2>2, <2>3, <1>1 DEF ExesOK, Sound
<1>6. ASSUME NEW k \in DOMAIN disk'.conf, k \notin DOMAIN exes
      PROVE  \/ Rewritten(Range(job'.plan), k)
             \/ Sound(disk'.conf[k], k, configured, queue.dirty, lister, store.files, DOMAIN disk'.ap)
  <2>1. k \in DOMAIN disk.conf /\ disk'.conf[k] = disk.conf[k]
    BY <1>2, <1>6 DEF Override
  <2>2. Rewritten(Range(job.plan), k) => Rewritten(Range(job'.plan), k)
    BY <1>1, <1>3, <1>6 DEF Rewritten, Generates, Generating
  <2> QED
    BY <2>1, <2>2, <1>2, <1>4 DEF RefsOK, Sound
<1> HIDE DEF exes
<1> QED
  BY <1>3, <1>5, <1>6 DEF RefsOK, Sound

\* The other calls write no references.
LEMMA OtherCallRefs ==
  ASSUME WorkerOK, JobOK, DiskOK, RefsOK, ExesOK, CallsOK, UpdateSpecialSecret \/ DeleteConfig \/ Report
  PROVE  RefsOK'
<1>1. /\ UNCHANGED <<lister, queue, configured, store>>
      /\ This \in Range(job.plan) /\ Range(job.plan) = {This} \cup Range(job'.plan)
      /\ Removed(Range(job'.plan)) = {}
  BY CallRefs
<1>2. This.op \notin Generating
  BY DEF UpdateSpecialSecret, DeleteConfig, Report, Doing, This, Generating
<1>3. \A k : Rewritten(Range(job.plan), k) =>
        Rewritten(Range(job'.plan), k) \/ (This.op = "delete" /\ k \in This.arg)
  BY <1>1, <1>2 DEF Rewritten, Generates
<1>4. CASE DeleteConfig
  <2> DEFINE c == [k \in DOMAIN disk.conf \ This.arg |-> disk.conf[k]]
  <2>1. disk' = [disk EXCEPT !.conf = c]
    BY <1>4 DEF DeleteConfig
  <2>2. DOMAIN c = DOMAIN disk.conf \ This.arg /\ \A k \in DOMAIN c : c[k] = disk.conf[k]
    OBVIOUS
  <2> HIDE DEF c
  <2>3. disk'.conf = c /\ disk'.ap = disk.ap
    BY <2>1 DEF DiskOK
  <2> QED
    BY <2>2, <2>3, <1>1, <1>3 DEF RefsOK
<1>5. CASE UpdateSpecialSecret \/ Report
  <2>1. This.op # "delete"
    BY <1>5 DEF UpdateSpecialSecret, Report, Doing, This
  <2>2. disk'.conf = disk.conf /\ disk'.ap = disk.ap
    BY <1>5 DEF UpdateSpecialSecret, Report, nginx, DiskOK
  <2> QED
    BY <2>1, <2>2, <1>1, <1>3 DEF RefsOK
<1> QED
  BY <1>4, <1>5

\* A policy that an informer has brought up to date is queued.
LEMMA ObservedPolicies ==
  ASSUME WorkerOK, QueueOpen, Observe
  PROVE  \A obj : PolicyWaits(obj, queue'.dirty) \/ PoliciesNow(obj, lister') = PoliciesNow(obj, lister)
<1>1. PICK key \in Keys : /\ lister' = (lister \ At(lister, key)) \cup At(cluster, key)
                          /\ queue' = IF Enqueued(key) THEN Add(queue, key) ELSE queue
  BY DEF Observe
<1>2. \A o \in At(lister, key) \cup At(cluster, key) : o.kind = key[1] /\ o.name = key[2]
  BY DEF At, Key
<1>3. \A o \in lister' \cup lister : o.kind # key[1] \/ o.name # key[2] => o \in lister' /\ o \in lister
  BY <1>1, <1>2
<1>4. CASE key[1] # "Policy"
  <2>1. AllPolicies(lister') = AllPolicies(lister)
    BY <1>3, <1>4 DEF AllPolicies, OfKind
  <2> QED
    BY <2>1 DEF PoliciesNow
<1>5. CASE key[1] = "Policy"
  <2>1. Enqueued(key)
    BY <1>5 DEF Enqueued
  <2>2. queue'.dirty = queue.dirty \cup {key}
    BY <1>1, <2>1, AddedWaits
  <2>3. key = <<"Policy", key[2]>>
    BY <1>5, KeyParts
  <2>4. ASSUME NEW obj, ~PolicyWaits(obj, queue'.dirty)
        PROVE  PoliciesNow(obj, lister') = PoliciesNow(obj, lister)
    <3>1. \A q \in Parts(obj) : q.role \in PolicyRoles => key[2] \notin q.policies
      BY <2>2, <2>3, <2>4 DEF PolicyWaits
    <3>2. \A p : p.name # key[2] => (p \in AllPolicies(lister') <=> p \in AllPolicies(lister))
      BY <1>3 DEF AllPolicies, OfKind
    <3> QED
      BY <3>1, <3>2 DEF PoliciesNow
  <2> QED
    BY <2>4
<1> QED
  BY <1>4, <1>5

LEMMA ObserveRefs ==
  ASSUME WorkerOK, QueueOpen, RefsOK, ExesOK, CallsOK, Observe
  PROVE  RefsOK' /\ ExesOK' /\ CallsOK'
<1>1. [Next]_allVars /\ ~StartSync
  BY DEF Next, Observe, StartSync, Get, CanGet, WorkerOK
<1>2. queue.dirty \subseteq queue'.dirty
  BY <1>1, WaitingTasks
<1>3. UNCHANGED <<job, disk, store, configured>>
  BY DEF Observe, cnf, nginx
<1>4. \A obj : PolicyWaits(obj, queue.dirty) => PolicyWaits(obj, queue'.dirty)
  BY <1>2 DEF PolicyWaits
<1>5. \A x : Justified(x, lister) => PolicyWaits(x.obj, queue'.dirty) \/ Justified(x, lister')
  BY ObservedPolicies DEF Justified
<1> QED
  BY <1>3, <1>4, <1>5 DEF RefsOK, ExesOK, CallsOK

\* The inductive invariant of the references.
ReferencesInv == StoreOK /\ QueueOpen /\ RefsOK /\ ExesOK /\ CallsOK

LEMMA ReferencesInit == Init => ReferencesInv
<1> SUFFICES ASSUME Init PROVE ReferencesInv
  OBVIOUS
<1>1. StoreOK
  BY EmptyStoreOK DEF Init, StoreOK
<1>2. QueueOpen
  BY DEF Init, QueueOpen, NewQueue
<1>3. disk.conf = <<>> /\ configured = {} /\ job.plan = <<>> /\ job.built = FALSE
  BY DEF Init, IdleJob, Job
<1>4. DOMAIN disk.conf = {} /\ Range(job.plan) = {}
  BY <1>3, PlanCalls
<1>5. RefsOK /\ ExesOK /\ CallsOK
  BY <1>3, <1>4 DEF RefsOK, ExesOK, CallsOK
<1> QED
  BY <1>1, <1>2, <1>5 DEF ReferencesInv

\* Every step keeps the references.
LEMMA ReferencesStep ==
  ASSUME TypesOK, ReferencesInv, [Next]_allVars
  PROVE  ReferencesInv'
<1> USE DEF ReferencesInv
<1>1. WorkerOK /\ JobOK /\ DiskOK
  BY DEF TypesOK
<1>2. StoreOK' /\ QueueOpen'
  BY <1>1, StoreStep, WaitingTasks
<1>3. CASE StartSync
  BY <1>1, <1>2, <1>3, StartRefs
<1>4. CASE Build
  BY <1>1, <1>2, <1>4, BuildRefs
<1>5. CASE Write \/ UpdateEndpoints
  BY <1>1, <1>2, <1>5, CallRefs, WriteRefs
<1>6. CASE UpdateSpecialSecret \/ DeleteConfig \/ Report
  BY <1>1, <1>2, <1>6, CallRefs, OtherCallRefs
<1>7. CASE Observe
  BY <1>1, <1>2, <1>7, ObserveRefs
<1>8. CASE FinishSync
  <2>1. /\ job.plan = <<>> /\ job' = IdleJob /\ UNCHANGED <<lister, disk, store, configured>>
    BY <1>8 DEF FinishSync, cnf, nginx
  <2>2. job'.plan = <<>> /\ job'.built = FALSE
    BY <2>1 DEF IdleJob, Job
  <2>3. ~StartSync /\ ~Observe
    BY <2>1, <1>8 DEF FinishSync, StartSync, Observe
  <2>4. queue'.dirty = queue.dirty
    BY <2>3, <1>1, WaitingTasks
  <2>5. RefsOK' /\ ExesOK' /\ CallsOK'
    BY <2>1, <2>2, <2>4 DEF RefsOK, ExesOK, CallsOK
  <2> QED
    BY <2>5, <1>2
<1>9. ASSUME UNCHANGED <<job, disk, store, configured, lister, queue>>
      PROVE  ReferencesInv'
  BY <1>2, <1>9 DEF RefsOK, ExesOK, CallsOK
<1>10. CASE Load \/ RotateKey \/ Rotate \/ BecomeLeader \/ Lead \/ LoseLeadership \/ ObserveStatus
  BY <1>9, <1>10 DEF Load, RotateKey, Rotate, RotateCert, RotateReload, BecomeLeader, Lead,
       LeaderReadsStatus, LeaderWritesStatus, LoseLeadership, ObserveStatus, nginx, cnf, worker
<1>11. CASE EditPut \/ EditRemove \/ AllDone \/ UNCHANGED allVars
  BY <1>9, <1>11 DEF EditPut, EditRemove, Edit, AllDone, allVars, nginx, cnf, worker
<1> QED
  BY <1>3, <1>4, <1>5, <1>6, <1>7, <1>8, <1>10, <1>11 DEF Next, Work

\* For any worlds: between two tasks, a config file names a secret file or an App
\* Protect file that does not exist only when a policy of its resource is still to
\* be synced (syncSecret, syncAppProtectPolicy, syncAppProtectLogConf, syncPolicy,
\* the reference checkers, the Configurator).
THEOREM NoDanglingReferenceInvariant == Spec => []NoDanglingReference
<1>1. Init => ReferencesInv
  BY ReferencesInit
<1>2. TypesOK /\ ReferencesInv /\ [Next]_allVars => ReferencesInv'
  BY ReferencesStep
<1>3. TypesOK /\ ReferencesInv => NoDanglingReference
  <2> SUFFICES ASSUME TypesOK, ReferencesInv, current = {}, NEW k \in DOMAIN disk.conf,
                      Dangling([disk EXCEPT !.conf = [j \in {k} |-> disk.conf[j]]], store.files)
               PROVE  \E p \in Parts(disk.conf[k].obj) : \E n \in p.policies : <<"Policy", n>> \in queue.dirty
    BY DEF NoDanglingReference
  <2> DEFINE c == [j \in {k} |-> disk.conf[j]]
             d == [disk EXCEPT !.conf = c]
  <2>1. DOMAIN c = {k} /\ c[k] = disk.conf[k]
    OBVIOUS
  <2> HIDE DEF c
  <2>2. d.conf = c /\ d.ap = disk.ap
    BY DEF TypesOK, DiskOK
  <2>3. Dangling(d, store.files)
    BY DEF c
  <2> HIDE DEF d
  <2>4. \/ \E s \in disk.conf[k].secrets : HasFile(s) /\ FileName(s.name) \notin DOMAIN store.files
        \/ \E a \in disk.conf[k].ap : a \notin DOMAIN disk.ap
    BY <2>1, <2>2, <2>3 DEF Dangling
  <2>5. Sound(disk.conf[k], k, configured, queue.dirty, lister, store.files, DOMAIN disk.ap)
    BY RefsBetweenTasks DEF TypesOK, ReferencesInv
  <2>6. PolicyWaits(disk.conf[k].obj, queue.dirty)
    BY <2>4, <2>5 DEF Sound, HasSecretFiles
  <2> QED
    BY <2>6 DEF PolicyWaits
<1> QED
  BY <1>1, <1>2, <1>3, TypesInvariant, PTL DEF Spec

-----------------------------------------------------------------------------
(* What the config files say *)

Calls == Range(job.plan)

\* A call generates the config file of a resource and reloads NGINX.
Reloading(calls, k) ==
  \E s \in calls : s.op \in Generating \ {"endpoints"} /\ \E r \in s.res : Key(r) = k

\* A config file needs the file of a secret.
Needs(r, s, view) == <<s.name, s.type>> \in SecretsOf(r, view) \/ s.name \in JWTKeys(r)

\* The extended resource x says what a view says of r, but for the endpoints and
\* for the parameters of a ConfigMap that is broken.
Says(x, r, view) ==
  /\ x = [obj |-> r,
          policies |-> PoliciesOf(r, view),
          secrets |-> {Mention(s) : s \in {t \in view.secrets : <<t.name, t.type>> \in SecretsOf(r, view)}},
          ap |-> {Key(o) : o \in {a \in view.ap : Key(a) \in AppProtectOf(r, view)}},
          endpoints |-> x.endpoints,
          params |-> x.params]
  /\ IF r.kind = "TransportServer" THEN x.params = NoParams
     ELSE view.params.broken \/ x.params = view.params

\* The secrets that r needs are in their files.
SecretsThere(r, view, files) ==
  \A s \in view.secrets : HasFile(s) /\ Needs(r, s, view) =>
    FileName(s.name) \in DOMAIN files /\ files[FileName(s.name)] = s

\* So are the App Protect resources.
AppProtectThere(r, view, files) ==
  \A a \in view.ap : Key(a) \in AppProtectOf(r, view) => Key(a) \in DOMAIN files /\ files[Key(a)] = a

\* The config files d and the secret files serve r as a view says.
Serves(d, files, r, view) ==
  /\ Key(r) \in DOMAIN d.conf /\ Says(d.conf[Key(r)], r, view)
  /\ SecretsThere(r, view, files) /\ AppProtectThere(r, view, d.ap)

\* Two views say the same of r, but for the endpoints.
SameFor(r, v, w) ==
  /\ PoliciesOf(r, w) = PoliciesOf(r, v)
  /\ {s \in w.secrets : Needs(r, s, v)} = {s \in v.secrets : Needs(r, s, v)}
  /\ {a \in w.ap : Key(a) \in AppProtectOf(r, v)} = {a \in v.ap : Key(a) \in AppProtectOf(r, v)}
  /\ r.kind = "TransportServer" \/ w.params.broken \/ w.params = v.params

\* What a view says of a resource and of its files depends on nothing else.
LEMMA SameNeeds ==
  ASSUME NEW r, NEW v, NEW w, SameFor(r, v, w)
  PROVE  /\ SecretsOf(r, w) = SecretsOf(r, v) /\ AppProtectOf(r, w) = AppProtectOf(r, v)
         /\ \A s : Needs(r, s, w) <=> Needs(r, s, v)
<1>1. SecretsOf(r, w) = SecretsOf(r, v) /\ AppProtectOf(r, w) = AppProtectOf(r, v)
  BY DEF SameFor, SecretsOf, AppProtectOf
<1> QED
  BY <1>1 DEF Needs

LEMMA SaysSame ==
  ASSUME NEW x, NEW r, NEW v, NEW w, SameFor(r, v, w), Says(x, r, v)
  PROVE  Says(x, r, w)
<1> DEFINE S(view) == {t \in view.secrets : <<t.name, t.type>> \in SecretsOf(r, view)}
           A(view) == {a \in view.ap : Key(a) \in AppProtectOf(r, view)}
           secrets(view) == {Mention(s) : s \in S(view)}
           ap(view) == {Key(o) : o \in A(view)}
<1>1. S(w) = S(v)
  BY SameNeeds DEF SameFor, Needs
<1>2. A(w) = A(v)
  BY SameNeeds DEF SameFor
<1>3. PoliciesOf(r, w) = PoliciesOf(r, v)
  BY DEF SameFor
<1>4. secrets(w) = secrets(v) /\ ap(w) = ap(v)
  BY <1>1, <1>2, Zenon
<1>5. IF r.kind = "TransportServer" THEN x.params = NoParams ELSE w.params.broken \/ x.params = w.params
  BY DEF Says, SameFor
<1>6. x = [obj |-> r, policies |-> PoliciesOf(r, v), secrets |-> secrets(v), ap |-> ap(v),
           endpoints |-> x.endpoints, params |-> x.params]
  BY Zenon DEF Says
<1> HIDE DEF S, A, secrets, ap
<1>7. x = [obj |-> r, policies |-> PoliciesOf(r, w), secrets |-> secrets(w), ap |-> ap(w),
           endpoints |-> x.endpoints, params |-> x.params]
  BY <1>3, <1>4, <1>6
<1> QED
  BY <1>5, <1>7, Zenon DEF Says, S, A, secrets, ap

LEMMA ServesSame ==
  ASSUME NEW d, NEW files, NEW r, NEW v, NEW w, SameFor(r, v, w), Serves(d, files, r, v)
  PROVE  Serves(d, files, r, w)
<1>1. Says(d.conf[Key(r)], r, w)
  BY SaysSame DEF Serves
<1>2. SecretsThere(r, w, files)
  BY SameNeeds DEF Serves, SecretsThere, SameFor
<1>3. AppProtectThere(r, w, d.ap)
  BY SameNeeds DEF Serves, AppProtectThere, SameFor
<1> QED
  BY <1>1, <1>2, <1>3 DEF Serves

\* A view says of r what it says.
LEMMA ViewsAgree ==
  ASSUME NEW r, NEW v
  PROVE  SameFor(r, v, v) /\ Says(Ex(r, v), r, v) /\ Ex(r, v).endpoints = EndpointsOf(r, v)
<1>1. SameFor(r, v, v)
  BY DEF SameFor
<1>2. /\ Ex(r, v).endpoints = EndpointsOf(r, v)
      /\ Ex(r, v).params = IF r.kind = "TransportServer" THEN NoParams ELSE v.params
  BY DEF Ex
<1>3. Says(Ex(r, v), r, v)
  BY <1>2 DEF Says, Ex
<1> QED
  BY <1>1, <1>2, <1>3

-----------------------------------------------------------------------------
(* The calls that the sync functions plan *)

\* The call that rewrites config files, if there are any.
WriteCalls(res) == IF res = {} THEN {} ELSE {Step("write", res, {})}

\* The secret of a key, if it is the special one.
SpecialAt(key) ==
  {s \in At(lister, key) : s.name = World.special /\ s.type = "tls" /\ ValidateSecret(s)}

LEMMA StepIs ==
  ASSUME NEW op, NEW res, NEW arg
  PROVE  Step(op, res, arg).op = op /\ Step(op, res, arg).res = res /\ Step(op, res, arg).arg = arg
BY DEF Step

LEMMA RewriteRange ==
  ASSUME NEW res
  PROVE  Range(Rewrite(res)) = WriteCalls(res)
BY PlanCalls, Zenon DEF Rewrite, WriteCalls

LEMMA SecretPlan ==
  ASSUME JobOK, NEW key, SyncSecret(key)
  PROVE  Range(job'.plan) =
           (IF SpecialAt(key) = {} THEN {} ELSE {Step("special", {}, SpecialAt(key))})
             \cup WriteCalls(FindDependents(key))
<1> DEFINE special == SpecialAt(key)
           s == Step("special", {}, special)
           first == IF special = {} THEN <<>> ELSE <<s>>
           rest == Rewrite(FindDependents(key))
<1>1. job' = Job(first \o rest)
  BY Zenon DEF SyncSecret, SpecialAt
<1>2. FindDependents(key) \subseteq ObjectsOf(world)
  BY FoundResources DEF JobOK
<1>3. IsPlan(rest)
  BY <1>2, RewritePlan
<1>4. IsPlan(first)
  <2>1. "special" \in PlanOps /\ {} \in SUBSET ObjectsOf(world)
    BY DEF PlanOps
  <2> QED
    BY <2>1, ShortPlan, Zenon
<1> HIDE DEF s
<1>5. Range(first) = IF special = {} THEN {} ELSE {s}
  BY PlanCalls, Zenon
<1>6. Range(rest) = WriteCalls(FindDependents(key))
  BY RewriteRange
<1> HIDE DEF first, rest
<1>7. Range(job'.plan) = Range(first) \cup Range(rest)
  BY <1>1, <1>3, <1>4, JobIs, PlanCallsConcat
<1> QED
  BY <1>5, <1>6, <1>7 DEF s

LEMMA PolicyPlan ==
  ASSUME NEW key, SyncPolicy(key)
  PROVE  Range(job'.plan) = WriteCalls(FindResources(key))
BY JobIs, RewriteRange DEF SyncPolicy

LEMMA ServicePlan ==
  ASSUME JobOK, NEW key, SyncService(key)
  PROVE  Range(job'.plan) =
           (IF key[2] = World.external THEN {Step("report", Ingresses(configured), {})} ELSE {})
             \cup WriteCalls(FindResources(key))
<1> DEFINE s == Step("report", Ingresses(configured), {})
           first == IF key[2] = World.external THEN <<s>> ELSE <<>>
           rest == Rewrite(FindResources(key))
<1>1. job' = Job(first \o rest)
  BY Zenon DEF SyncService
<1>2. FindResources(key) \subseteq ObjectsOf(world)
  BY FoundResources DEF JobOK
<1>3. IsPlan(rest)
  BY <1>2, RewritePlan
<1>4. IsPlan(first)
  <2>1. "report" \in PlanOps /\ Ingresses(configured) \in SUBSET ObjectsOf(world)
    BY DEF PlanOps, Ingresses, OfKind, JobOK
  <2> QED
    BY <2>1, ShortPlan, Zenon
<1> HIDE DEF s
<1>5. Range(first) = IF key[2] = World.external THEN {s} ELSE {}
  BY PlanCalls, Zenon
<1>6. Range(rest) = WriteCalls(FindResources(key))
  BY RewriteRange
<1> HIDE DEF first, rest
<1>7. Range(job'.plan) = Range(first) \cup Range(rest)
  BY <1>1, <1>3, <1>4, JobIs, PlanCallsConcat
<1> QED
  BY <1>5, <1>6, <1>7 DEF s

LEMMA OneCallPlan ==
  ASSUME NEW op, NEW res, NEW arg, job' = Job(<<Step(op, res, arg)>>)
  PROVE  Range(job'.plan) = {Step(op, res, arg)}
BY JobIs, PlanCalls, Zenon

LEMMA EndpointsPlan ==
  ASSUME JobOK, NEW key, SyncEndpoints(key)
  PROVE  /\ \A s \in Range(job'.plan) : s.op = "endpoints"
         /\ \A r \in FindResources(key) :
              /\ At(lister, key) # {}
              /\ r.role \in {"Ingress", "Master", "VirtualServer", "TransportServer"}
              => Generates(Range(job'.plan), Key(r))
<1> DEFINE res == IF At(lister, key) = {} THEN {} ELSE FindResources(key)
           g(role) == {r \in res : r.role = role}
           c(role) == Step("endpoints", g(role), {})
           group(role) == IF g(role) = {} THEN <<>> ELSE <<c(role)>>
           i == group("Ingress")
           m == group("Master")
           v == group("VirtualServer")
           t == group("TransportServer")
           Good(role) == /\ IsPlan(group(role)) /\ \A s \in Range(group(role)) : s.op = "endpoints"
                         /\ \A r \in g(role) : Generates(Range(group(role)), Key(r))
<1>1. job'.plan = i \o m \o v \o t
  BY JobIs DEF SyncEndpoints
<1>2. ASSUME NEW role PROVE Good(role)
  <2>1. g(role) \in SUBSET ObjectsOf(world)
    BY FoundResources DEF JobOK
  <2> HIDE DEF g
  <2>2. c(role).op = "endpoints" /\ c(role).res = g(role)
    BY StepIs
  <2>3. "endpoints" \in PlanOps
    BY DEF PlanOps
  <2>4. IsPlan(group(role))
    BY <2>1, <2>3, ShortPlan, Zenon
  <2> HIDE DEF c
  <2>5. Range(group(role)) = IF g(role) = {} THEN {} ELSE {c(role)}
    BY PlanCalls, Zenon
  <2> HIDE DEF group
  <2> QED
    BY <2>2, <2>4, <2>5 DEF Generates, Generating
<1>3. Good("Ingress") /\ Good("Master") /\ Good("VirtualServer") /\ Good("TransportServer")
  BY <1>2
<1>4. IsPlan(i) /\ IsPlan(m) /\ IsPlan(v) /\ IsPlan(t)
  BY <1>3
<1> HIDE DEF i, m, v, t
<1>5. IsPlan(i \o m) /\ Range(i \o m) = Range(i) \cup Range(m)
  BY <1>4, LongPlan, PlanCallsConcat
<1>6. IsPlan(i \o m \o v) /\ Range(i \o m \o v) = Range(i \o m) \cup Range(v)
  BY <1>4, <1>5, LongPlan, PlanCallsConcat
<1>7. Range(i \o m \o v \o t) = Range(i \o m \o v) \cup Range(t)
  BY <1>4, <1>6, PlanCallsConcat
<1>8. Range(job'.plan) = Range(i) \cup Range(m) \cup Range(v) \cup Range(t)
  BY <1>1, <1>5, <1>6, <1>7
<1>9. ASSUME NEW role \in {"Ingress", "Master", "VirtualServer", "TransportServer"}
      PROVE  Range(group(role)) \subseteq Range(job'.plan)
  BY <1>8 DEF i, m, v, t
<1>10. \A s \in Range(job'.plan) : s.op = "endpoints"
  BY <1>3, <1>8 DEF i, m, v, t
<1>11. ASSUME NEW r \in FindResources(key), At(lister, key) # {},
              r.role \in {"Ingress", "Master", "VirtualServer", "TransportServer"}
       PROVE  Generates(Range(job'.plan), Key(r))
  <2>1. r \in g(r.role)
    BY <1>11
  <2>2. Good(r.role)
    BY <1>2
  <2> HIDE DEF g, group
  <2>3. Generates(Range(group(r.role)), Key(r))
    BY <2>1, <2>2
  <2> QED
    BY <2>3, <1>9, <1>11, MoreCalls
<1> QED
  BY <1>10, <1>11

LEMMA ResourcePlan ==
  ASSUME NEW key, SyncResource(key)
  PROVE  Range(job'.plan) =
           IF At(lister, key) = At(configured, key) THEN {}
           ELSE IF At(lister, key) = {} THEN {Step("delete", {}, {key})}
           ELSE WriteCalls(At(lister, key))
<1> DEFINE new == At(lister, key)
           old == At(configured, key)
           d == Step("delete", {}, {key})
<1>1. job'.plan = IF new = old THEN <<>> ELSE IF new = {} THEN <<d>> ELSE Rewrite(new)
  BY JobIs DEF SyncResource
<1> HIDE DEF d, new, old
<1>2. Range(<<>>) = {} /\ Range(<<d>>) = {d} /\ Range(Rewrite(new)) = WriteCalls(new)
  BY PlanCalls, RewriteRange
<1> QED
  BY <1>1, <1>2, Zenon DEF new, old, d

-----------------------------------------------------------------------------
(* The dependents of a secret or an App Protect resource *)

\* The reference checkers find every resource that needs it.
LEMMA NeededFound ==
  ASSUME WorkerOK, NEW r \in configured, r \in ObjectsOf(world), r.kind \in ResourceKinds, NEW key
  PROVE  /\ \A s : key[1] = "Secret" /\ key[2] = s.name /\ Needs(r, s, ControllerView) =>
              r \in FindDependents(key)
         /\ key[1] \in AppProtectKinds /\ key \in AppProtectOf(r, ControllerView) => r \in FindDependents(key)
<1> DEFINE view == ControllerView
<1>1. view.policies = AllPolicies(lister)
  BY DEF ControllerView
<1> HIDE DEF view
<1>2. PoliciesOf(r, view) = PoliciesNow(r, lister)
  BY <1>1 DEF PoliciesOf, PoliciesNow
<1>3. ASSUME NEW p \in PoliciesNow(r, lister)
      PROVE  r \in FindResources(Key(p)) /\ p \in AllPolicies(lister)
  <2>1. p \in AllPolicies(lister) /\ p.kind = "Policy"
    BY DEF PoliciesNow, AllPolicies, OfKind
  <2>2. PICK q \in Parts(r) : q.role \in PolicyRoles /\ p.name \in q.policies
    BY DEF PoliciesNow
  <2>3. Key(p)[1] = "Policy" /\ Key(p)[2] = p.name
    BY <2>1 DEF Key
  <2>4. RefersTo(q, Key(p))
    BY <2>2, <2>3 DEF RefersTo, RefersToPolicy
  <2> QED
    BY <2>1, <2>2, <2>4 DEF FindResources
<1>4. \A p \in PoliciesNow(r, lister) : p \in PoliciesFor(key) => r \in FindDependents(key)
  BY <1>3 DEF FindDependents
<1>5. \A p \in Parts(r) : RefersTo(p, key) => r \in FindDependents(key)
  BY DEF FindDependents, FindResources
<1>6. ASSUME NEW s, key[1] = "Secret", key[2] = s.name, Needs(r, s, view)
      PROVE  r \in FindDependents(key)
  <2>1. CASE s.name \in JWTKeys(r)
    <3>1. PICK p \in Parts(r) : World.plus /\ p.role \in IngressRoles /\ s.name \in p.jwt
      BY <2>1 DEF JWTKeys
    <3>2. RefersTo(p, key)
      BY <3>1, <1>6 DEF RefersTo, RefersToSecret
    <3> QED
      BY <3>2, <1>5
  <2>2. CASE \E p \in Parts(r) : <<s.name, s.type>> \in p.tls \X {"tls"}
    <3>1. PICK p \in Parts(r) : <<s.name, s.type>> \in p.tls \X {"tls"}
      BY <2>2
    <3>2. s.name \in p.tls
      BY <3>1
    <3>3. p.role \in {"Ingress", "Master", "VirtualServer"}
      BY <3>1, <3>2, ReferencesAssumption DEF ReferencesAssumption, Parts, ObjectsOf, WorkerOK
    <3>4. RefersTo(p, key)
      BY <3>2, <3>3, <1>6 DEF RefersTo, RefersToSecret
    <3> QED
      BY <3>4, <1>5
  <2>3. CASE \E p \in PoliciesOf(r, view) : <<s.name, s.type>> \in p.secrets
    <3>1. PICK p \in PoliciesOf(r, view) : <<s.name, s.type>> \in p.secrets
      BY <2>3
    <3>2. <<s.name, s.type>>[1] = s.name
      OBVIOUS
    <3>3. p \in PoliciesFor(key)
      BY <3>1, <3>2, <1>2, <1>3, <1>6 DEF PoliciesFor
    <3> QED
      BY <3>1, <3>3, <1>2, <1>4
  <2> QED
    BY <2>1, <2>2, <2>3, <1>6 DEF Needs, SecretsOf
<1>7. ASSUME key[1] \in AppProtectKinds, key \in AppProtectOf(r, view)
      PROVE  r \in FindDependents(key)
  <2>1. key[1] # "Secret" /\ key[1] # "Policy"
    BY <1>7 DEF AppProtectKinds
  <2>2. CASE \E p \in Parts(r) : p.role \in {"Ingress", "Master"} /\ key \in p.ap
    <3>1. PICK p \in Parts(r) : p.role \in {"Ingress", "Master"} /\ key \in p.ap
      BY <2>2
    <3>2. RefersTo(p, key)
      BY <3>1, <1>7 DEF RefersTo, RefersToAppProtect, AppProtectKinds
    <3> QED
      BY <3>2, <1>5
  <2>3. CASE \E p \in PoliciesOf(r, view) : key \in p.ap
    <3>1. PICK p \in PoliciesOf(r, view) : key \in p.ap
      BY <2>3
    <3>2. p \in PoliciesFor(key)
      BY <3>1, <2>1, <1>2, <1>3 DEF PoliciesFor
    <3> QED
      BY <3>1, <3>2, <1>2, <1>4
  <2> QED
    BY <2>2, <2>3, <1>7 DEF AppProtectOf
<1> QED
  BY <1>6, <1>7 DEF view

-----------------------------------------------------------------------------
(* The App Protect resources in force *)

\* The App Protect configuration stores objects by their names.
StoredByName(map, kind) == \A k \in DOMAIN map : Key(map[k].obj) = <<kind, k>>

ApStored ==
  /\ StoredByName(policies, "APPolicy") /\ StoredByName(logConfs, "APLogConf")
  /\ StoredByName(userSigs, "APUserSig")
  /\ \A k \in DOMAIN logConfs : logConfs[k] = CreateLogConfEx(logConfs[k].obj)

\* The object stored under a name.
StoredAt(map, n) == {map[j].obj : j \in DOMAIN map \cap {n}}

\* Two maps that differ at most at n.
OnlyAt(f, g, n) ==
  \A k : k # n => /\ k \in DOMAIN g <=> k \in DOMAIN f
                  /\ k \in DOMAIN f => g[k] = f[k]

\* The valid objects of a map.
ValidObjects(map) == Objects1(map, ValidKeys(map))

LEMMA MapChanges ==
  ASSUME NEW f, NEW n, NEW e
  PROVE  /\ OnlyAt(f, Set(f, n, e), n) /\ StoredAt(Set(f, n, e), n) = {e.obj} /\ Set(f, n, e)[n] = e
         /\ n \in DOMAIN Set(f, n, e)
         /\ OnlyAt(f, Unset(f, n), n) /\ StoredAt(Unset(f, n), n) = {} /\ n \notin DOMAIN Unset(f, n)
         /\ n \notin DOMAIN f => ValidObjects(Unset(f, n)) = ValidObjects(f)
<1>1. /\ DOMAIN Set(f, n, e) = DOMAIN f \cup {n} /\ Set(f, n, e)[n] = e
      /\ \A k \in DOMAIN f : k # n => Set(f, n, e)[k] = f[k]
  BY DEF Set
<1>2. /\ DOMAIN Unset(f, n) = DOMAIN f \ {n}
      /\ \A k \in DOMAIN f : k # n => Unset(f, n)[k] = f[k]
  BY DEF Unset
<1>3. ASSUME n \notin DOMAIN f PROVE ValidObjects(Unset(f, n)) = ValidObjects(f)
  BY <1>2, <1>3 DEF ValidObjects, Objects1, ValidKeys
<1> QED
  BY <1>1, <1>2, <1>3 DEF OnlyAt, StoredAt

\* The other objects stay as they are.
LEMMA OthersStored ==
  ASSUME NEW f, NEW g, NEW n, NEW kind, OnlyAt(f, g, n),
         StoredByName(f, kind), n \in DOMAIN g => Key(g[n].obj) = <<kind, n>>
  PROVE  /\ StoredByName(g, kind)
         /\ \A k : k # n => StoredAt(g, k) = StoredAt(f, k)
         /\ \A a : Key(a) # <<kind, n>> => (a \in ValidObjects(g) <=> a \in ValidObjects(f))
<1>1. StoredByName(g, kind)
  BY DEF OnlyAt, StoredByName
<1>2. \A k : k # n => StoredAt(g, k) = StoredAt(f, k)
  BY DEF OnlyAt, StoredAt
<1>3. ASSUME NEW a, Key(a) # <<kind, n>>
      PROVE  a \in ValidObjects(g) <=> a \in ValidObjects(f)
  <2>1. ASSUME a \in ValidObjects(g) PROVE a \in ValidObjects(f)
    <3>1. PICK k \in DOMAIN g : IsValid(g[k]) /\ a = g[k].obj
      BY <2>1 DEF ValidObjects, Objects1, ValidKeys
    <3>2. k # n
      BY <3>1, <1>1, <1>3 DEF StoredByName
    <3> QED
      BY <3>1, <3>2 DEF OnlyAt, ValidObjects, Objects1, ValidKeys
  <2>2. ASSUME a \in ValidObjects(f) PROVE a \in ValidObjects(g)
    <3>1. PICK k \in DOMAIN f : IsValid(f[k]) /\ a = f[k].obj
      BY <2>2 DEF ValidObjects, Objects1, ValidKeys
    <3>2. k # n
      BY <3>1, <1>3 DEF StoredByName
    <3> QED
      BY <3>1, <3>2 DEF OnlyAt, ValidObjects, Objects1, ValidKeys
  <2> QED
    BY <2>1, <2>2
<1> QED
  BY <1>1, <1>2, <1>3

\* The App Protect resources in force.
ApInForce == ValidObjects(policies) \cup ValidObjects(logConfs)

\* The version of an object that a lister holds.
LEMMA ListedObject ==
  ASSUME VersionsOK, NEW key, At(lister, key) # {}
  PROVE  LET o == CHOOSE o \in At(lister, key) : TRUE
         IN At(lister, key) = {o} /\ o \in lister /\ Key(o) = key /\ o.kind = key[1] /\ o.name = key[2]
<1> DEFINE o == CHOOSE o \in At(lister, key) : TRUE
<1>1. o \in At(lister, key)
  OBVIOUS
<1> HIDE DEF o
<1>2. o \in lister /\ Key(o) = key
  BY <1>1 DEF At
<1>3. \A p \in At(lister, key) : p = o
  BY <1>2 DEF At, VersionsOK, OnePerKey
<1>4. o.kind = key[1] /\ o.name = key[2]
  BY <1>2 DEF Key
<1> QED
  BY <1>1, <1>2, <1>3, <1>4 DEF o

\* The sync of a policy changes nothing but the policy.
LEMMA ApPolicySynced ==
  ASSUME WorkerOK, VersionsOK, ApStored, NEW key \in Keys, key[1] = "APPolicy", SyncAppProtectPolicy(key)
  PROVE  /\ ApStored' /\ UNCHANGED <<userSigs, logConfs>>
         /\ StoredAt(policies', key[2]) = At(lister, key)
         /\ \A n : n # key[2] => StoredAt(policies', n) = StoredAt(policies, n)
         /\ \A a : Key(a) # key => (a \in ApInForce' <=> a \in ApInForce)
         /\ IF apChange'.op = "none" THEN ApInForce' = ApInForce
            ELSE <<apChange'.kind, apChange'.name>> = key
         /\ apChange'.op = "Delete" => \A a \in ApInForce' : Key(a) # key
<1> DEFINE n == key[2]
           o == CHOOSE o \in At(lister, key) : TRUE
<1>1. key = <<"APPolicy", n>>
  BY KeyParts
<1>2. IF At(lister, key) = {} THEN DeletePolicy(n) ELSE AddOrUpdatePolicy(o)
  BY DEF SyncAppProtectPolicy
<1>3. At(lister, key) # {} => At(lister, key) = {o} /\ Key(o) = key /\ o.name = n
  BY ListedObject
<1> HIDE DEF n, o
<1>4. ASSUME OnlyAt(policies, policies', n), UNCHANGED <<userSigs, logConfs>>,
             n \in DOMAIN policies' => Key(policies'[n].obj) = key
      PROVE  /\ ApStored' /\ \A k : k # n => StoredAt(policies', k) = StoredAt(policies, k)
             /\ \A a : Key(a) # key => (a \in ApInForce' <=> a \in ApInForce)
  <2>1. /\ StoredByName(policies', "APPolicy")
        /\ \A k : k # n => StoredAt(policies', k) = StoredAt(policies, k)
        /\ \A a : Key(a) # key => (a \in ValidObjects(policies') <=> a \in ValidObjects(policies))
    BY <1>1, <1>4, OthersStored DEF ApStored
  <2> QED
    BY <2>1, <1>4 DEF ApStored, ApInForce
<1>5. ASSUME NEW a \in ValidObjects(policies') \cup ValidObjects(logConfs'), ApStored', Key(a) = key
      PROVE  n \in DOMAIN policies' /\ IsValid(policies'[n])
  <2>1. <<"APPolicy", n>>[1] = "APPolicy" /\ \A k : <<"APLogConf", k>>[1] = "APLogConf"
    OBVIOUS
  <2>2. a \notin ValidObjects(logConfs')
    BY <2>1, <1>1, <1>5 DEF ApStored, StoredByName, ValidObjects, Objects1, ValidKeys
  <2>3. PICK k \in DOMAIN policies' : IsValid(policies'[k]) /\ a = policies'[k].obj
    BY <2>2 DEF ValidObjects, Objects1, ValidKeys
  <2>4. k = n
    BY <2>3, <1>1, <1>5 DEF ApStored, StoredByName
  <2> QED
    BY <2>3, <2>4
<1>6. CASE At(lister, key) = {}
  <2>1. /\ policies' = Unset(policies, n) /\ UNCHANGED <<userSigs, logConfs>>
        /\ apChange' = IF n \in DOMAIN policies THEN Change("Delete", "APPolicy", n) ELSE NoUserSigChange
    BY <1>2, <1>6 DEF DeletePolicy
  <2>2. OnlyAt(policies, policies', n) /\ n \notin DOMAIN policies' /\ StoredAt(policies', n) = {}
        /\ (n \notin DOMAIN policies => ValidObjects(policies') = ValidObjects(policies))
    BY <2>1, MapChanges
  <2>3. IF n \in DOMAIN policies
          THEN apChange'.op = "Delete" /\ apChange'.kind = "APPolicy" /\ apChange'.name = n
          ELSE apChange'.op = "none"
    BY <2>1 DEF Change, NoUserSigChange
  <2>4. ApStored'
    BY <2>1, <2>2, <1>4
  <2>5. \A a \in ApInForce' : Key(a) # key
    BY <2>2, <2>4, <1>5 DEF ApInForce
  <2>6. apChange'.op = "none" => ApInForce' = ApInForce
    BY <2>1, <2>2, <2>3 DEF ApInForce
  <2> QED
    BY <2>1, <2>2, <2>3, <2>4, <2>5, <2>6, <1>1, <1>4, <1>6 DEF n
<1>7. CASE At(lister, key) # {}
  <2> DEFINE ex == CreatePolicyEx(o)
             checked == IF IsValid(ex) /\ ~Verified(ex, userSigs)
                          THEN [ex EXCEPT !.error = "missingUserSig"] ELSE ex
  <2>1. /\ policies' = Set(policies, o.name, checked) /\ UNCHANGED <<userSigs, logConfs>>
        /\ apChange' = Change(IF IsValid(checked) THEN "AddOrUpdate" ELSE "Delete", "APPolicy", o.name)
    BY <1>2, <1>7 DEF AddOrUpdatePolicy
  <2>2. checked.obj = o
    BY DEF CreatePolicyEx
  <2> HIDE DEF checked
  <2>3. OnlyAt(policies, policies', n) /\ StoredAt(policies', n) = {o} /\ policies'[n] = checked
    BY <2>1, <2>2, <1>3, <1>7, MapChanges
  <2>4. /\ apChange'.op = IF IsValid(checked) THEN "AddOrUpdate" ELSE "Delete"
        /\ apChange'.kind = "APPolicy" /\ apChange'.name = n
    BY <2>1, <1>3, <1>7 DEF Change
  <2>5. ApStored'
    BY <2>1, <2>2, <2>3, <1>3, <1>4, <1>7
  <2>6. apChange'.op = "Delete" => \A a \in ApInForce' : Key(a) # key
    BY <2>3, <2>4, <2>5, <1>5 DEF ApInForce
  <2> QED
    BY <2>1, <2>2, <2>3, <2>4, <2>5, <2>6, <1>1, <1>3, <1>4, <1>7 DEF n
<1> QED
  BY <1>6, <1>7

\* So does the sync of a log configuration.
LEMMA ApLogConfSynced ==
  ASSUME WorkerOK, VersionsOK, ApStored, NEW key \in Keys, key[1] = "APLogConf", SyncAppProtectLogConf(key)
  PROVE  /\ ApStored' /\ UNCHANGED <<userSigs, policies>>
         /\ StoredAt(logConfs', key[2]) = At(lister, key)
         /\ \A n : n # key[2] => StoredAt(logConfs', n) = StoredAt(logConfs, n)
         /\ \A a : Key(a) # key => (a \in ApInForce' <=> a \in ApInForce)
         /\ IF apChange'.op = "none" THEN ApInForce' = ApInForce
            ELSE <<apChange'.kind, apChange'.name>> = key
         /\ apChange'.op = "Delete" => \A a \in ApInForce' : Key(a) # key
<1> DEFINE n == key[2]
           o == CHOOSE o \in At(lister, key) : TRUE
<1>1. key = <<"APLogConf", n>>
  BY KeyParts
<1>2. IF At(lister, key) = {} THEN DeleteLogConf(n) ELSE AddOrUpdateLogConf(o)
  BY DEF SyncAppProtectLogConf
<1>3. At(lister, key) # {} => At(lister, key) = {o} /\ Key(o) = key /\ o.name = n
  BY ListedObject
<1> HIDE DEF n, o
<1>4. ASSUME OnlyAt(logConfs, logConfs', n), UNCHANGED <<userSigs, policies>>,
             n \in DOMAIN logConfs' => /\ Key(logConfs'[n].obj) = key
                                       /\ logConfs'[n] = CreateLogConfEx(logConfs'[n].obj)
      PROVE  /\ ApStored' /\ \A k : k # n => StoredAt(logConfs', k) = StoredAt(logConfs, k)
             /\ \A a : Key(a) # key => (a \in ApInForce' <=> a \in ApInForce)
  <2>1. /\ StoredByName(logConfs', "APLogConf")
        /\ \A k : k # n => StoredAt(logConfs', k) = StoredAt(logConfs, k)
        /\ \A a : Key(a) # key => (a \in ValidObjects(logConfs') <=> a \in ValidObjects(logConfs))
    BY <1>1, <1>4, OthersStored DEF ApStored
  <2>2. \A k \in DOMAIN logConfs' : logConfs'[k] = CreateLogConfEx(logConfs'[k].obj)
    BY <1>4 DEF ApStored, OnlyAt
  <2> QED
    BY <2>1, <2>2, <1>4 DEF ApStored, ApInForce
<1>5. ASSUME NEW a \in ValidObjects(policies') \cup ValidObjects(logConfs'), ApStored', Key(a) = key
      PROVE  n \in DOMAIN logConfs' /\ IsValid(logConfs'[n])
  <2>1. <<"APLogConf", n>>[1] = "APLogConf" /\ \A k : <<"APPolicy", k>>[1] = "APPolicy"
    OBVIOUS
  <2>2. a \notin ValidObjects(policies')
    BY <2>1, <1>1, <1>5 DEF ApStored, StoredByName, ValidObjects, Objects1, ValidKeys
  <2>3. PICK k \in DOMAIN logConfs' : IsValid(logConfs'[k]) /\ a = logConfs'[k].obj
    BY <2>2 DEF ValidObjects, Objects1, ValidKeys
  <2>4. k = n
    BY <2>3, <1>1, <1>5 DEF ApStored, StoredByName
  <2> QED
    BY <2>3, <2>4
<1>6. CASE At(lister, key) = {}
  <2>1. /\ logConfs' = Unset(logConfs, n) /\ UNCHANGED <<userSigs, policies>>
        /\ apChange' = IF n \in DOMAIN logConfs THEN Change("Delete", "APLogConf", n) ELSE NoUserSigChange
    BY <1>2, <1>6 DEF DeleteLogConf
  <2>2. OnlyAt(logConfs, logConfs', n) /\ n \notin DOMAIN logConfs' /\ StoredAt(logConfs', n) = {}
        /\ (n \notin DOMAIN logConfs => ValidObjects(logConfs') = ValidObjects(logConfs))
    BY <2>1, MapChanges
  <2>3. IF n \in DOMAIN logConfs
          THEN apChange'.op = "Delete" /\ apChange'.kind = "APLogConf" /\ apChange'.name = n
          ELSE apChange'.op = "none"
    BY <2>1 DEF Change, NoUserSigChange
  <2>4. ApStored'
    BY <2>1, <2>2, <1>4
  <2>5. \A a \in ApInForce' : Key(a) # key
    BY <2>2, <2>4, <1>5 DEF ApInForce
  <2>6. apChange'.op = "none" => ApInForce' = ApInForce
    BY <2>1, <2>2, <2>3 DEF ApInForce
  <2> QED
    BY <2>1, <2>2, <2>3, <2>4, <2>5, <2>6, <1>1, <1>4, <1>6 DEF n
<1>7. CASE At(lister, key) # {}
  <2> DEFINE ex == CreateLogConfEx(o)
  <2>1. /\ logConfs' = Set(logConfs, o.name, ex) /\ UNCHANGED <<userSigs, policies>>
        /\ apChange' = Change(IF IsValid(ex) THEN "AddOrUpdate" ELSE "Delete", "APLogConf", o.name)
    BY <1>2, <1>7 DEF AddOrUpdateLogConf
  <2>2. ex.obj = o /\ ex = CreateLogConfEx(ex.obj)
    BY DEF CreateLogConfEx
  <2> HIDE DEF ex
  <2>3. OnlyAt(logConfs, logConfs', n) /\ StoredAt(logConfs', n) = {o} /\ logConfs'[n] = ex
    BY <2>1, <2>2, <1>3, <1>7, MapChanges
  <2>4. /\ apChange'.op = IF IsValid(ex) THEN "AddOrUpdate" ELSE "Delete"
        /\ apChange'.kind = "APLogConf" /\ apChange'.name = n
    BY <2>1, <1>3, <1>7 DEF Change
  <2>5. ApStored'
    BY <2>1, <2>2, <2>3, <1>3, <1>4, <1>7
  <2>6. apChange'.op = "Delete" => \A a \in ApInForce' : Key(a) # key
    BY <2>3, <2>4, <2>5, <1>5 DEF ApInForce
  <2> QED
    BY <2>1, <2>2, <2>3, <2>4, <2>5, <2>6, <1>1, <1>3, <1>4, <1>7 DEF n
<1> QED
  BY <1>6, <1>7

\* Maps of the same objects.
LEMMA SameObjects ==
  ASSUME NEW f, NEW g, Objs(f) = Objs(g)
  PROVE  /\ DOMAIN f = DOMAIN g /\ \A k \in DOMAIN f : f[k].obj = g[k].obj
         /\ \A n : StoredAt(f, n) = StoredAt(g, n)
         /\ \A kind : StoredByName(f, kind) <=> StoredByName(g, kind)
<1>1. /\ DOMAIN Objs(f) = DOMAIN f /\ DOMAIN Objs(g) = DOMAIN g
      /\ \A k \in DOMAIN f : Objs(f)[k] = f[k].obj
      /\ \A k \in DOMAIN g : Objs(g)[k] = g[k].obj
  BY DEF Objs
<1>2. DOMAIN f = DOMAIN g /\ \A k \in DOMAIN f : f[k].obj = g[k].obj
  BY <1>1
<1> QED
  BY <1>2 DEF StoredAt, StoredByName

\* A change of the signatures changes which policies are in force, and says which.
LEMMA ReconciledChange ==
  ASSUME APInv, NEW sigs, SigCreated(sigs), SigErrors(sigs), ReconcileAll(sigs)
  PROVE  /\ Objs(userSigs') = Objs(sigs) /\ Objs(policies') = Objs(policies) /\ UNCHANGED logConfs
         /\ apChange'.UserSigs = ValidObjects(userSigs')
         /\ \A k \in DOMAIN policies :
              \/ IsValid(policies'[k]) <=> IsValid(policies[k])
              \/ k \in apChange'.PolicyAddsOrUpdates \cup apChange'.PolicyDeletions
<1>1. /\ userSigs' = Reconcile(sigs) /\ policies' = Verify(policies, userSigs') /\ UNCHANGED logConfs
      /\ apChange' = BuildUserSigChange(userSigs', policies')
  BY DEF ReconcileAll
<1>2. /\ SigCreated(userSigs') /\ Objs(userSigs') = Objs(sigs)
      /\ ValidKeys(userSigs') = Abs!Active(Objs(userSigs'))
  BY <1>1, ReconcileActive
<1>3. Objs(policies') = Objs(policies)
  BY <1>1, <1>2, VerifyInForce DEF APInv, PoliciesOK
<1>4. /\ apChange'.PolicyDeletions = ValidKeys(policies) \ ValidKeys(policies')
      /\ apChange'.PolicyAddsOrUpdates = ValidKeys(policies') \ ValidKeys(policies)
      /\ apChange'.UserSigs = ValidObjects(userSigs')
  BY <1>1 DEF BuildUserSigChange, ValidObjects
<1>5. DOMAIN policies' = DOMAIN policies
  BY <1>3, SameObjects
<1>6. \A k \in DOMAIN policies :
        \/ IsValid(policies'[k]) <=> IsValid(policies[k])
        \/ k \in apChange'.PolicyAddsOrUpdates \cup apChange'.PolicyDeletions
  BY <1>4, <1>5 DEF ValidKeys
<1> QED
  BY <1>1, <1>2, <1>3, <1>4, <1>6

LEMMA ApUserSigSynced ==
  ASSUME WorkerOK, VersionsOK, APInv, ApStored, NEW key \in Keys, key[1] = "APUserSig",
         SyncAppProtectUserSig(key)
  PROVE  /\ ApStored' /\ UNCHANGED logConfs
         /\ StoredAt(userSigs', key[2]) = At(lister, key)
         /\ \A n : n # key[2] => StoredAt(userSigs', n) = StoredAt(userSigs, n)
         /\ \A n : StoredAt(policies', n) = StoredAt(policies, n)
         /\ \A a : \/ a \in ApInForce' <=> a \in ApInForce
                   \/ \E n \in apChange'.PolicyAddsOrUpdates \cup apChange'.PolicyDeletions :
                        Key(a) = <<"APPolicy", n>>
         /\ apChange'.UserSigs \in {ValidObjects(userSigs'), {}}
<1> DEFINE n == key[2]
           o == CHOOSE o \in At(lister, key) : TRUE
           changed == apChange'.PolicyAddsOrUpdates \cup apChange'.PolicyDeletions
<1>1. key = <<"APUserSig", n>>
  BY KeyParts
<1>2. IF At(lister, key) = {} THEN DeleteUserSig(n) ELSE AddOrUpdateUserSig(o)
  BY DEF SyncAppProtectUserSig
<1>3. At(lister, key) # {} => At(lister, key) = {o} /\ Key(o) = key /\ o.name = n /\ o \in APUserSigs
  BY ListedObject, StoredObject
<1> HIDE DEF n, o
<1>4. ASSUME NEW sigs, SigCreated(sigs), SigErrors(sigs), ReconcileAll(sigs),
             OnlyAt(userSigs, sigs, n), StoredAt(sigs, n) = At(lister, key),
             n \in DOMAIN sigs => Key(sigs[n].obj) = key
      PROVE  /\ ApStored' /\ UNCHANGED logConfs
             /\ StoredAt(userSigs', n) = At(lister, key)
             /\ \A k : k # n => StoredAt(userSigs', k) = StoredAt(userSigs, k)
             /\ \A k : StoredAt(policies', k) = StoredAt(policies, k)
             /\ \A a : (a \in ApInForce' <=> a \in ApInForce) \/ \E k \in changed : Key(a) = <<"APPolicy", k>>
             /\ apChange'.UserSigs \in {ValidObjects(userSigs'), {}}
  <2>1. /\ Objs(userSigs') = Objs(sigs) /\ Objs(policies') = Objs(policies) /\ UNCHANGED logConfs
        /\ apChange'.UserSigs = ValidObjects(userSigs')
        /\ \A k \in DOMAIN policies : (IsValid(policies'[k]) <=> IsValid(policies[k])) \/ k \in changed
    BY <1>4, ReconciledChange
  <2> HIDE DEF changed
  <2>2. StoredByName(sigs, "APUserSig") /\ \A k : k # n => StoredAt(sigs, k) = StoredAt(userSigs, k)
    BY <1>1, <1>4, OthersStored DEF ApStored
  <2>3. StoredByName(userSigs', "APUserSig") /\ \A k : StoredAt(userSigs', k) = StoredAt(sigs, k)
    BY <2>1, <2>2, SameObjects
  <2>4. /\ StoredByName(policies', "APPolicy") /\ \A k : StoredAt(policies', k) = StoredAt(policies, k)
        /\ DOMAIN policies' = DOMAIN policies /\ \A k \in DOMAIN policies : policies'[k].obj = policies[k].obj
    BY <2>1, SameObjects DEF ApStored
  <2>5. ApStored'
    BY <2>1, <2>3, <2>4 DEF ApStored
  <2>6. ASSUME NEW a, ~\E k \in changed : Key(a) = <<"APPolicy", k>>
        PROVE  a \in ApInForce' <=> a \in ApInForce
    <3>1. ASSUME NEW k \in DOMAIN policies, a = policies[k].obj
          PROVE  IsValid(policies'[k]) <=> IsValid(policies[k])
      <4>1. Key(a) = <<"APPolicy", k>>
        BY <3>1 DEF ApStored, StoredByName
      <4> QED
        BY <4>1, <2>1, <2>6
    <3>2. a \in ValidObjects(policies') <=> a \in ValidObjects(policies)
      BY <3>1, <2>4 DEF ValidObjects, Objects1, ValidKeys
    <3> QED
      BY <3>2, <2>1 DEF ApInForce
  <2> QED
    BY <2>1, <2>2, <2>3, <2>4, <2>5, <2>6, <1>4
<1>5. CASE At(lister, key) # {}
  <2> DEFINE e == CreateUserSigEx(o)
             sigs == Set(userSigs, o.name, e)
  <2>1. ReconcileAll(sigs)
    BY <1>2, <1>5 DEF AddOrUpdateUserSig
  <2>2. SigCreated(sigs) /\ SigErrors(sigs)
    BY <1>3, <1>5, SetSig DEF APInv
  <2>3. e.obj = o
    BY DEF CreateUserSigEx
  <2> HIDE DEF e
  <2>4. OnlyAt(userSigs, sigs, n) /\ StoredAt(sigs, n) = {o} /\ sigs[n] = e
    BY <2>3, <1>3, <1>5, MapChanges
  <2> HIDE DEF sigs
  <2> QED
    BY <2>1, <2>2, <2>3, <2>4, <1>3, <1>4, <1>5 DEF n
<1>6. CASE At(lister, key) = {} /\ n \in DOMAIN userSigs
  <2> DEFINE sigs == Unset(userSigs, n)
  <2>1. ReconcileAll(sigs)
    BY <1>2, <1>6 DEF DeleteUserSig
  <2>2. SigCreated(sigs) /\ SigErrors(sigs)
    BY <1>6, UnsetSig DEF APInv
  <2>3. OnlyAt(userSigs, sigs, n) /\ StoredAt(sigs, n) = {} /\ n \notin DOMAIN sigs
    BY MapChanges
  <2> HIDE DEF sigs
  <2> QED
    BY <2>1, <2>2, <2>3, <1>4, <1>6 DEF n
<1>7. CASE At(lister, key) = {} /\ n \notin DOMAIN userSigs
  <2>1. /\ UNCHANGED <<policies, logConfs, userSigs>>
        /\ apChange' = [op |-> "userSigs", PolicyDeletions |-> {}, PolicyAddsOrUpdates |-> {}, UserSigs |-> {}]
    BY <1>2, <1>7 DEF DeleteUserSig
  <2>2. apChange'.UserSigs = {}
    BY <2>1
  <2>3. StoredAt(userSigs, n) = {}
    BY <1>7 DEF StoredAt
  <2>4. ApStored' /\ ApInForce' = ApInForce
    BY <2>1 DEF ApStored, ApInForce
  <2> QED
    BY <2>1, <2>2, <2>3, <2>4, <1>7 DEF n
<1> QED
  BY <1>5, <1>6, <1>7

\* The plans of the App Protect syncs.
LEMMA AppProtectPlanned ==
  ASSUME NEW key, SyncAppProtectPolicy(key) \/ SyncAppProtectLogConf(key)
  PROVE  LET change == apChange'
             target == <<change.kind, change.name>>
             dep == FindDependents(target)
         IN Range(job'.plan) =
              IF change.op = "none" THEN {}
              ELSE {Step("write", dep, IF change.op = "Delete" /\ dep # {} THEN {target} ELSE {})}
<1> DEFINE change == apChange'
           target == <<change.kind, change.name>>
           dep == FindDependents(target)
           arg == IF change.op = "Delete" /\ dep # {} THEN {target} ELSE {}
           w == Step("write", dep, arg)
<1>1. job'.plan = AppProtectPlan(change)
  BY JobIs DEF SyncAppProtectPolicy, SyncAppProtectLogConf
<1> HIDE DEF change
<1>2. AppProtectPlan(change) = IF change.op = "none" THEN <<>> ELSE <<w>>
  BY Zenon DEF AppProtectPlan
<1> HIDE DEF w, dep, arg
<1>3. Range(job'.plan) = IF change.op = "none" THEN {} ELSE {w}
  BY <1>1, <1>2, PlanCalls, Zenon
<1> QED
  BY <1>3, Zenon DEF w, dep, arg, change

LEMMA UserSigPlanned ==
  ASSUME NEW key, SyncAppProtectUserSig(key)
  PROVE  LET changed == apChange'.PolicyAddsOrUpdates \cup apChange'.PolicyDeletions
         IN Range(job'.plan) =
              {Step("refresh", UNION {FindDependents(<<"APPolicy", n>>) : n \in changed}, apChange'.UserSigs)}
<1> DEFINE changed == apChange'.PolicyAddsOrUpdates \cup apChange'.PolicyDeletions
           res == UNION {FindDependents(<<"APPolicy", n>>) : n \in changed}
<1>1. job' = Job(<<Step("refresh", res, apChange'.UserSigs)>>)
  BY Zenon DEF SyncAppProtectUserSig, UserSigPlan
<1> HIDE DEF res
<1>2. Range(job'.plan) = {Step("refresh", res, apChange'.UserSigs)}
  BY <1>1, OneCallPlan
<1> QED
  BY <1>2, Zenon DEF res

-----------------------------------------------------------------------------
(* The secrets in the store *)

\* The secret stored under a name, and the valid ones.
Held(st, n) == {st.refs[j].secret : j \in DOMAIN st.refs \cap {n}}
ValidIn(st) == {st.refs[k].secret : k \in {j \in DOMAIN st.refs : ValidateSecret(st.refs[j].secret)}}

LEMMA ValidHeld ==
  ASSUME NEW st, NEW S, IsStore(st, S)
  PROVE  \A s : s \in ValidIn(st) <=> ValidateSecret(s) /\ s \in Held(st, s.name)
BY DEF ValidIn, Held, IsStore

\* A valid secret that has a file is in it.
LEMMA FileIsCurrent ==
  ASSUME NEW st, NEW S, IsStore(st, S), SecretsOK(S), Current(st),
         NEW s \in ValidIn(st), FileName(s.name) \in DOMAIN st.files
  PROVE  st.files[FileName(s.name)] = s
<1>1. PICK k \in OnDisk(st) : FileName(k) = FileName(s.name)
  BY DEF Current
<1>2. PICK j \in DOMAIN st.refs : s = st.refs[j].secret
  BY DEF ValidIn
<1>3. k \in DOMAIN st.refs /\ st.refs[k].secret.name = k /\ st.refs[k].secret \in S
  BY <1>1 DEF OnDisk, IsStore
<1>4. s.name = j /\ s \in S
  BY <1>2 DEF IsStore
<1>5. k = j
  BY <1>1, <1>3, <1>4 DEF SecretsOK
<1> QED
  BY <1>1, <1>2, <1>5 DEF Current

\* The sync of a secret takes it over from the lister, and no other.
LEMMA SecretSynced ==
  ASSUME WorkerOK, VersionsOK, NEW key \in Keys, key[1] = "Secret", SyncSecret(key)
  PROVE  /\ Held(store', key[2]) = At(lister, key)
         /\ \A n : n # key[2] => Held(store', n) = Held(store, n)
<1> DEFINE s == CHOOSE s \in At(lister, key) : TRUE
<1>1. store' = IF At(lister, key) = {} THEN DeleteSecret(store, key[2]) ELSE AddOrUpdateSecret(store, s)
  BY DEF SyncSecret
<1>2. At(lister, key) # {} => At(lister, key) = {s} /\ s.name = key[2]
  BY ListedObject
<1> HIDE DEF s
<1>3. CASE At(lister, key) = {}
  <2>1. store'.refs = UnsetKey(store.refs, key[2]) \/ (store' = store /\ key[2] \notin DOMAIN store.refs)
    BY <1>1, <1>3 DEF DeleteSecret
  <2> QED
    BY <2>1, <1>3 DEF Held, UnsetKey
<1>4. CASE At(lister, key) # {}
  <2>1. PICK p : store'.refs = SetKey(store.refs, key[2], [secret |-> s, path |-> p])
    BY <1>1, <1>2, <1>4 DEF AddOrUpdateSecret
  <2> DEFINE ref == [secret |-> s, path |-> p]
  <2>2. ref.secret = s
    OBVIOUS
  <2> HIDE DEF ref
  <2>3. store'.refs = SetKey(store.refs, key[2], ref)
    BY <2>1 DEF ref
  <2>4. DOMAIN store'.refs = DOMAIN store.refs \cup {key[2]} /\ store'.refs[key[2]] = ref
        /\ \A k \in DOMAIN store.refs : k # key[2] => store'.refs[k] = store.refs[k]
    BY <2>3 DEF SetKey
  <2>5. Held(store', key[2]) = {s}
    BY <2>2, <2>4 DEF Held
  <2> QED
    BY <2>4, <2>5, <1>2, <1>4 DEF Held
<1> QED
  BY <1>3, <1>4

\* Fetching secrets changes none.
LEMMA SecretsFetched ==
  ASSUME NEW S, NEW st, IsStore(st, S), NEW res, NEW view
  PROVE  LET new == FetchSecrets(st, res, view)
         IN ValidIn(new) = ValidIn(st) /\ \A n : Held(new, n) = Held(st, n)
<1> DEFINE new == FetchSecrets(st, res, view)
           jwt == UNION {JWTKeys(r) : r \in res}
           names == UNION {{u[1] : u \in SecretsOf(r, view)} \cup JWTKeys(r) : r \in res}
           fetched == GetSecrets(st, names)
<1>1. new = SetPaths(fetched, jwt)
  BY Zenon DEF FetchSecrets
<1> HIDE DEF new, jwt, names
<1>2. \A x, v : "secret" \in DOMAIN x =>
        "secret" \in DOMAIN [x EXCEPT !.path = v] /\ [x EXCEPT !.path = v].secret = x.secret
  OBVIOUS
<1>3. /\ DOMAIN fetched.refs = DOMAIN st.refs
      /\ \A k \in DOMAIN st.refs : \E v : fetched.refs[k] \in {st.refs[k], [st.refs[k] EXCEPT !.path = v]}
  BY DEF GetSecrets
<1>4. /\ DOMAIN new.refs = DOMAIN fetched.refs
      /\ \A k \in DOMAIN fetched.refs : \E v : new.refs[k] \in {fetched.refs[k], [fetched.refs[k] EXCEPT !.path = v]}
  <2> HIDE DEF fetched
  <2> QED
    BY <1>1 DEF SetPaths
<1> HIDE DEF fetched
<1>5. \A k \in DOMAIN st.refs : new.refs[k].secret = st.refs[k].secret
  <2> SUFFICES ASSUME NEW k \in DOMAIN st.refs PROVE new.refs[k].secret = st.refs[k].secret
    OBVIOUS
  <2>1. "secret" \in DOMAIN st.refs[k]
    <3>1. \A a, b : "secret" \in DOMAIN [secret |-> a, path |-> b]
      OBVIOUS
    <3> QED
      BY <3>1 DEF IsStore
  <2>2. "secret" \in DOMAIN fetched.refs[k] /\ fetched.refs[k].secret = st.refs[k].secret
    BY <2>1, <1>2, <1>3
  <2> QED
    BY <2>2, <1>2, <1>3, <1>4
<1>6. ValidIn(new) = ValidIn(st) /\ \A n : Held(new, n) = Held(st, n)
  BY <1>3, <1>4, <1>5 DEF ValidIn, Held
<1> QED
  BY <1>6 DEF new

-----------------------------------------------------------------------------
(* What a step changes for a resource *)

ReloadOps == {"write", "refresh", "config", "special", "delete"}

\* The secret files of r stay.
FilesKept(r) ==
  SecretsThere(r, ControllerView', store.files) => SecretsThere(r, ControllerView', store'.files)

\* The next view says the same of r, and its files stay.
SameNext(r) == r \in configured /\ SameFor(r, ControllerView, ControllerView') /\ FilesKept(r)

LEMMA Views ==
  /\ ControllerView.secrets = ValidIn(store) /\ ControllerView'.secrets = ValidIn(store')
  /\ ControllerView.policies = AllPolicies(lister) /\ ControllerView'.policies = AllPolicies(lister')
  /\ ControllerView.ap = ApInForce /\ ControllerView'.ap = ApInForce'
  /\ ControllerView.params = cfgParams /\ ControllerView'.params = cfgParams'
  /\ ControllerView.services = OfKind(lister, "Service") /\ ControllerView'.services = OfKind(lister', "Service")
  /\ ControllerView.endpoints = OfKind(lister, "Endpoints") /\ ControllerView'.endpoints = OfKind(lister', "Endpoints")
BY DEF ControllerView, ValidIn, ApInForce, ValidObjects

\* The call that rewrites resources reloads NGINX with them.
LEMMA WritesReload ==
  ASSUME NEW res, NEW r \in res, NEW calls, WriteCalls(res) \subseteq calls
  PROVE  Reloading(calls, Key(r))
<1> DEFINE s == Step("write", res, {})
<1>1. s.op = "write" /\ s.res = res
  BY StepIs
<1> HIDE DEF s
<1>2. s \in calls
  BY Zenon DEF WriteCalls, s
<1> QED
  BY <1>1, <1>2 DEF Reloading, Generating

LEMMA CallReloads ==
  ASSUME NEW op \in {"write", "refresh", "config"}, NEW res, NEW arg, NEW r \in res, NEW calls,
         Step(op, res, arg) \in calls
  PROVE  Reloading(calls, Key(r))
<1> DEFINE s == Step(op, res, arg)
<1>1. s.op = op /\ s.res = res
  BY StepIs
<1> HIDE DEF s
<1>2. s \in calls
  BY DEF s
<1> QED
  BY <1>1, <1>2 DEF Reloading, Generating

\* Two views with the same policies.
LEMMA StillSame ==
  ASSUME NEW r, NEW v, NEW w, w.policies = v.policies,
         \A s : Needs(r, s, v) => (s \in w.secrets <=> s \in v.secrets),
         \A a : Key(a) \in AppProtectOf(r, v) => (a \in w.ap <=> a \in v.ap),
         r.kind = "TransportServer" \/ w.params.broken \/ w.params = v.params
  PROVE  SameFor(r, v, w)
BY DEF SameFor, PoliciesOf

LEMMA NothingChanged ==
  ASSUME NEW r \in configured, UNCHANGED <<lister, store, cfgParams>>, ApInForce' = ApInForce
  PROVE  SameNext(r)
<1>1. SameFor(r, ControllerView, ControllerView')
  <2> HIDE DEF ControllerView
  <2> QED
    BY Views, StillSame
<1> QED
  BY <1>1 DEF SameNext, FilesKept

LEMMA SecretSame ==
  ASSUME WorkerOK, VersionsOK, JobOK, StoreOK, CallsOK, NEW key \in Keys, key[1] = "Secret", SyncSecret(key),
         UNCHANGED <<world, lister>>, NEW r \in configured
  PROVE  Reloading(Range(job'.plan), Key(r)) \/ SameNext(r)
<1> DEFINE v == ControllerView
           w == ControllerView'
<1>1. r \in ObjectsOf(world) /\ r.kind \in ResourceKinds
  BY DEF JobOK, CallsOK
<1>2. CASE r \in FindDependents(key)
  BY <1>2, SecretPlan, WritesReload
<1>3. CASE r \notin FindDependents(key)
  <2>1. \A s : Needs(r, s, v) => s.name # key[2]
    BY <1>1, <1>3, NeededFound
  <2>2. UNCHANGED <<policies, logConfs, cfgParams>>
    BY DEF SyncSecret, apVars
  <2>3. ApInForce' = ApInForce
    BY <2>2 DEF ApInForce
  <2>4. StoreOK' /\ UNCHANGED SecretsOfWorld
    BY SyncSecretOK DEF SecretsOfWorld, ObjectsOf
  <2>5. \A s : s.name # key[2] => (s \in ValidIn(store') <=> s \in ValidIn(store))
    BY <2>4, ValidHeld, SecretSynced DEF StoreOK
  <2> HIDE DEF v, w
  <2>6. SameFor(r, v, w)
    BY <2>1, <2>2, <2>3, <2>5, Views, StillSame DEF v, w
  <2>7. \A s : Needs(r, s, w) => s.name # key[2]
    BY <2>1, <2>6, SameNeeds
  <2>8. ASSUME SecretsThere(r, w, store.files), NEW s \in w.secrets, HasFile(s), Needs(r, s, w)
        PROVE  FileName(s.name) \in DOMAIN store'.files /\ store'.files[FileName(s.name)] = s
    <3>1. FileName(s.name) \in DOMAIN store.files /\ s.name # key[2]
      BY <2>7, <2>8 DEF SecretsThere
    <3>2. s \in ValidIn(store')
      BY <2>8, Views DEF w
    <3>3. s \in SecretsOfWorld
      BY <3>2, <2>4 DEF ValidIn, StoreOK, IsStore
    <3>4. s.name \in Names /\ key[2] \in Names
      <4>1. PICK o \in ObjectsOf(world) : key[1] = o.kind /\ key[2] = o.name
        BY KeyParts
      <4> QED
        BY <4>1, <3>3 DEF Names, SecretsOfWorld, OfKind, ObjectsOf, WorkerOK
    <3>5. FileName(s.name) # FileName(key[2])
      BY <3>1, <3>4, NoFileNameCollision DEF NoFileNameCollision
    <3>6. FileName(s.name) \in DOMAIN store'.files
      BY <3>1, <3>5, OtherSecretFiles
    <3> QED
      BY <3>2, <3>6, <2>4, SecretsOfWorldOK, FileIsCurrent DEF StoreOK
  <2>9. FilesKept(r)
    BY <2>8 DEF FilesKept, SecretsThere, w
  <2> QED
    BY <2>6, <2>9 DEF SameNext, v, w
<1> QED
  BY <1>2, <1>3

LEMMA AppProtectSame ==
  ASSUME WorkerOK, VersionsOK, JobOK, CallsOK, ApStored, NEW key \in Keys,
         \/ key[1] = "APPolicy" /\ SyncAppProtectPolicy(key)
         \/ key[1] = "APLogConf" /\ SyncAppProtectLogConf(key),
         UNCHANGED lister, NEW r \in configured
  PROVE  Reloading(Range(job'.plan), Key(r)) \/ SameNext(r)
<1> DEFINE v == ControllerView
           w == ControllerView'
<1>1. r \in ObjectsOf(world) /\ r.kind \in ResourceKinds /\ key[1] \in AppProtectKinds
  BY DEF JobOK, CallsOK, AppProtectKinds
<1>2. /\ \A a : Key(a) # key => (a \in ApInForce' <=> a \in ApInForce)
      /\ IF apChange'.op = "none" THEN ApInForce' = ApInForce
         ELSE <<apChange'.kind, apChange'.name>> = key
  BY ApPolicySynced, ApLogConfSynced
<1>3. UNCHANGED <<store, cfgParams>>
  BY DEF SyncAppProtectPolicy, SyncAppProtectLogConf, cnf
<1>4. CASE apChange'.op = "none"
  BY <1>2, <1>3, <1>4, NothingChanged
<1>5. CASE apChange'.op # "none" /\ r \in FindDependents(key)
  <2>1. \E arg : Step("write", FindDependents(key), arg) \in Range(job'.plan)
    BY <1>2, <1>5, AppProtectPlanned
  <2> QED
    BY <2>1, <1>5, CallReloads
<1>6. CASE r \notin FindDependents(key)
  <2>1. key \notin AppProtectOf(r, v)
    BY <1>1, <1>6, NeededFound
  <2> HIDE DEF v, w
  <2>2. SameFor(r, v, w)
    BY <2>1, <1>2, <1>3, Views, StillSame DEF v, w
  <2> QED
    BY <2>2, <1>3 DEF SameNext, FilesKept, v, w
<1> QED
  BY <1>4, <1>5, <1>6

LEMMA UserSigSame ==
  ASSUME WorkerOK, VersionsOK, JobOK, CallsOK, APInv, ApStored, NEW key \in Keys, key[1] = "APUserSig",
         SyncAppProtectUserSig(key), UNCHANGED lister, NEW r \in configured
  PROVE  Reloading(Range(job'.plan), Key(r)) \/ SameNext(r)
<1> DEFINE v == ControllerView
           w == ControllerView'
           changed == apChange'.PolicyAddsOrUpdates \cup apChange'.PolicyDeletions
           res == UNION {FindDependents(<<"APPolicy", n>>) : n \in changed}
<1>1. r \in ObjectsOf(world) /\ r.kind \in ResourceKinds
  BY DEF JobOK, CallsOK
<1>2. \A a : (a \in ApInForce' <=> a \in ApInForce) \/ \E n \in changed : Key(a) = <<"APPolicy", n>>
  BY ApUserSigSynced
<1>3. UNCHANGED <<store, cfgParams>>
  BY DEF SyncAppProtectUserSig, cnf
<1>4. \E arg : Step("refresh", res, arg) \in Range(job'.plan)
  BY UserSigPlanned
<1> HIDE DEF changed
<1>5. CASE r \in res
  <2> HIDE DEF res
  <2> QED
    BY <1>4, <1>5, CallReloads
<1>6. CASE r \notin res
  <2>1. ASSUME NEW n \in changed PROVE <<"APPolicy", n>> \notin AppProtectOf(r, v)
    <3>1. <<"APPolicy", n>>[1] \in AppProtectKinds
      BY DEF AppProtectKinds
    <3>2. r \notin FindDependents(<<"APPolicy", n>>)
      BY <1>6
    <3> QED
      BY <3>1, <3>2, <1>1, NeededFound
  <2> HIDE DEF v, w
  <2>2. SameFor(r, v, w)
    BY <2>1, <1>2, <1>3, Views, StillSame DEF v, w
  <2> QED
    BY <2>2, <1>3 DEF SameNext, FilesKept, v, w
<1> QED
  BY <1>5, <1>6

LEMMA ConfigMapSame ==
  ASSUME NEW key, SyncConfigMap(key), UNCHANGED lister, NEW r \in configured
  PROVE  Reloading(Range(job'.plan), Key(r)) \/ SameNext(r)
<1> DEFINE v == ControllerView
           w == ControllerView'
           all == {q \in configured : q.kind # "TransportServer"}
<1>1. UNCHANGED <<store, policies, logConfs>>
  BY DEF SyncConfigMap, apVars
<1>2. ApInForce' = ApInForce
  BY <1>1 DEF ApInForce
<1>3. job' = Job(<<Step(IF cfgParams'.broken THEN "report" ELSE "config", all, {})>>)
  BY DEF SyncConfigMap
<1>4. CASE cfgParams'.broken \/ r.kind = "TransportServer"
  <2> HIDE DEF v, w
  <2>1. SameFor(r, v, w)
    BY <1>1, <1>2, <1>4, Views, StillSame DEF v, w
  <2> QED
    BY <2>1, <1>1 DEF SameNext, FilesKept, v, w
<1>5. CASE ~cfgParams'.broken /\ r \in all
  <2> HIDE DEF all
  <2>1. Step("config", all, {}) \in Range(job'.plan)
    BY <1>3, <1>5, OneCallPlan
  <2> QED
    BY <2>1, <1>5, CallReloads
<1> QED
  BY <1>4, <1>5

\* The sync functions.
SyncOf(key) ==
  \/ key[1] = "Secret" /\ SyncSecret(key)
  \/ key[1] = "Policy" /\ SyncPolicy(key)
  \/ key[1] = "APPolicy" /\ SyncAppProtectPolicy(key)
  \/ key[1] = "APLogConf" /\ SyncAppProtectLogConf(key)
  \/ key[1] = "APUserSig" /\ SyncAppProtectUserSig(key)
  \/ key[1] = "ConfigMap" /\ SyncConfigMap(key)
  \/ key[1] = "Service" /\ SyncService(key)
  \/ key[1] = "IngressLink" /\ SyncIngressLink(key)
  \/ key[1] = "Endpoints" /\ SyncEndpoints(key)
  \/ key[1] \in ResourceKinds /\ SyncResource(key)

LEMMA StartsSync ==
  ASSUME WorkerOK, JobOK, QueueOpen, StartSync
  PROVE  \E key \in Keys : /\ SyncOf(key) /\ queue'.dirty = queue.dirty \ {key} /\ current' = {key}
                           /\ UNCHANGED <<world, cluster, lister, disk, running, loading, reload>>
                           /\ Calls = {} /\ job'.built = FALSE
<1> DEFINE key == Head(queue.items)
<1>1. key \in Keys /\ current = {}
  BY StartSyncOK
<1>2. queue'.dirty = queue.dirty \ {key}
  <2>1. [Next]_allVars
    BY DEF Next, Work
  <2> QED
    BY <2>1, WaitingTasks
<1>3. SyncOf(key) /\ current' = {key} /\ UNCHANGED <<world, cluster, lister, disk, running, loading, reload>>
  BY DEF StartSync, SyncOf, nginx
<1>4. Calls = {}
  BY <1>1, PlanCalls DEF Calls, WorkerOK
<1>5. job'.built = FALSE
  <2>1. job' = Job(job'.plan)
    BY StartPlan
  <2>2. \A p : Job(p).built = FALSE
    BY DEF Job
  <2> QED
    BY <2>1, <2>2
<1> HIDE DEF key
<1> QED
  BY <1>1, <1>2, <1>3, <1>4, <1>5

\* Other syncs than those of resources leave the Configuration alone.
LEMMA SyncKeeps ==
  ASSUME NEW key, SyncOf(key)
  PROVE  /\ key[1] \notin ResourceKinds => UNCHANGED configured
         /\ key[1] \in ResourceKinds => SyncResource(key)
         /\ key[1] # "Secret" => UNCHANGED store
         /\ key[1] # "ConfigMap" => UNCHANGED cfgParams
         /\ key[1] \notin {"APPolicy", "APLogConf", "APUserSig"} => UNCHANGED apVars
<1> USE DEF SyncOf, cnf, ResourceKinds
<1>1. key[1] \notin ResourceKinds => UNCHANGED configured
  BY DEF SyncSecret, SyncPolicy, SyncAppProtectPolicy, SyncAppProtectLogConf, SyncAppProtectUserSig,
       SyncConfigMap, SyncService, SyncIngressLink, SyncEndpoints
<1>2. key[1] \in ResourceKinds => SyncResource(key)
  OBVIOUS
<1>3. key[1] # "Secret" => UNCHANGED store
  BY DEF SyncPolicy, SyncAppProtectPolicy, SyncAppProtectLogConf, SyncAppProtectUserSig,
       SyncConfigMap, SyncService, SyncIngressLink, SyncEndpoints, SyncResource
<1>4. key[1] # "ConfigMap" => UNCHANGED cfgParams
  BY DEF SyncSecret, SyncPolicy, SyncAppProtectPolicy, SyncAppProtectLogConf, SyncAppProtectUserSig,
       SyncService, SyncIngressLink, SyncEndpoints, SyncResource
<1>5. key[1] \notin {"APPolicy", "APLogConf", "APUserSig"} => UNCHANGED apVars
  BY DEF SyncSecret, SyncPolicy, SyncConfigMap, SyncService, SyncIngressLink, SyncEndpoints, SyncResource
<1> QED
  BY <1>1, <1>2, <1>3, <1>4, <1>5

\* A resource that a sync changes is rewritten, and so is one whose policy was
\* waiting for the sync.
LEMMA SyncSame ==
  ASSUME WorkerOK, VersionsOK, JobOK, StoreOK, CallsOK, APInv, ApStored, NEW key \in Keys, SyncOf(key),
         UNCHANGED <<world, lister>>, queue'.dirty = queue.dirty \ {key}, NEW r \in configured'
  PROVE  \/ Reloading(Range(job'.plan), Key(r))
         \/ SameNext(r) /\ (PolicyWaits(r, queue.dirty) => PolicyWaits(r, queue'.dirty))
<1>1. ASSUME r \in configured
      PROVE  \/ Reloading(Range(job'.plan), Key(r))
             \/ PolicyWaits(r, queue.dirty) => PolicyWaits(r, queue'.dirty)
  <2>1. SUFFICES ASSUME key[1] = "Policy", r \in FindResources(key)
                 PROVE  Reloading(Range(job'.plan), Key(r))
    BY <1>1, WaitingFound
  <2>2. SyncPolicy(key)
    BY <2>1 DEF SyncOf, ResourceKinds
  <2> QED
    BY <2>1, <2>2, PolicyPlan, WritesReload
<1>2. CASE key[1] \in ResourceKinds
  <2> DEFINE new == At(lister, key)
             old == At(configured, key)
  <2>1. /\ configured' = (configured \ old) \cup new
        /\ Range(job'.plan) = IF new = old THEN {} ELSE IF new = {} THEN {Step("delete", {}, {key})}
                              ELSE WriteCalls(new)
    BY <1>2, SyncKeeps, ResourcePlan DEF SyncResource
  <2>2. UNCHANGED <<store, cfgParams, apVars>>
    BY <1>2, SyncKeeps DEF ResourceKinds
  <2>3. ApInForce' = ApInForce
    BY <2>2 DEF ApInForce, apVars
  <2>4. old \subseteq configured
    BY DEF At
  <2> HIDE DEF new, old
  <2>5. CASE r \in configured
    BY <2>2, <2>3, <2>5, <1>1, NothingChanged
  <2>6. CASE r \notin configured
    <3>1. r \in new /\ new # old
      BY <2>1, <2>4, <2>6
    <3> QED
      BY <3>1, <2>1, WritesReload
  <2> QED
    BY <2>5, <2>6
<1>3. CASE key[1] \notin ResourceKinds
  <2>1. r \in configured
    BY <1>3, SyncKeeps
  <2>2. CASE key[1] = "Secret"
    BY <2>1, <2>2, <1>1, SecretSame DEF SyncOf, ResourceKinds
  <2>3. CASE key[1] \in {"APPolicy", "APLogConf"}
    BY <2>1, <2>3, <1>1, AppProtectSame DEF SyncOf, ResourceKinds
  <2>4. CASE key[1] = "APUserSig"
    BY <2>1, <2>4, <1>1, UserSigSame DEF SyncOf, ResourceKinds
  <2>5. CASE key[1] = "ConfigMap"
    BY <2>1, <2>5, <1>1, ConfigMapSame DEF SyncOf, ResourceKinds
  <2>6. CASE key[1] \notin {"Secret", "APPolicy", "APLogConf", "APUserSig", "ConfigMap"}
    <3>1. UNCHANGED <<store, cfgParams, apVars>>
      BY <2>6, SyncKeeps
    <3>2. ApInForce' = ApInForce
      BY <3>1 DEF ApInForce, apVars
    <3> QED
      BY <3>1, <3>2, <2>1, <1>1, NothingChanged
  <2> QED
    BY <2>2, <2>3, <2>4, <2>5, <2>6
<1> QED
  BY <1>2, <1>3

\* A sync that changes the Configuration reloads NGINX.
LEMMA SyncReconfigures ==
  ASSUME VersionsOK, NEW key, SyncOf(key)
  PROVE  /\ configured' = configured \/ \E s \in Range(job'.plan) : s.op \in ReloadOps
         /\ OnePerKey(configured) => OnePerKey(configured')
<1>1. CASE key[1] \notin ResourceKinds
  BY <1>1, SyncKeeps
<1>2. CASE key[1] \in ResourceKinds
  <2> DEFINE new == At(lister, key)
             old == At(configured, key)
             d == Step("delete", {}, {key})
             w == Step("write", new, {})
  <2>1. /\ configured' = (configured \ old) \cup new
        /\ Range(job'.plan) = IF new = old THEN {} ELSE IF new = {} THEN {d} ELSE WriteCalls(new)
    BY <1>2, SyncKeeps, ResourcePlan DEF SyncResource
  <2>2. d.op = "delete" /\ w.op = "write" /\ (new # {} => WriteCalls(new) = {w})
    BY StepIs DEF WriteCalls
  <2>3. /\ old = {r \in configured : Key(r) = key}
        /\ new = {r \in lister : Key(r) = key}
    BY DEF At
  <2> HIDE DEF new, old, d, w
  <2>4. CASE new = old
    BY <2>1, <2>3, <2>4
  <2>5. CASE new # old
    <3>1. \E s \in Range(job'.plan) : s.op \in ReloadOps
      BY <2>1, <2>2, <2>5 DEF ReloadOps
    <3>2. OnePerKey(configured) => OnePerKey(configured')
      BY <2>1, <2>3 DEF OnePerKey, VersionsOK
    <3> QED
      BY <3>1, <3>2
  <2> QED
    BY <2>4, <2>5
<1> QED
  BY <1>1, <1>2

-----------------------------------------------------------------------------
(* What the controller knows of the objects *)

\* It holds the object of a key that the lister holds.
KnownAt(kind, n) ==
  /\ kind \in ResourceKinds => At(configured, <<kind, n>>) = At(lister, <<kind, n>>)
  /\ kind = "Secret" => Held(store, n) = At(lister, <<kind, n>>)
  /\ kind = "APPolicy" => StoredAt(policies, n) = At(lister, <<kind, n>>)
  /\ kind = "APLogConf" => StoredAt(logConfs, n) = At(lister, <<kind, n>>)
  /\ kind = "APUserSig" => StoredAt(userSigs, n) = At(lister, <<kind, n>>)

\* The ConfigMap in a set of objects.
ParamsOf(maps) == IF maps = {} THEN NoParams ELSE CHOOSE o \in maps : TRUE
ParamsIn(objects) == ParamsOf(OfKind(objects, "ConfigMap"))

\* The controller knows every object that is not still to be synced.
KnownOK ==
  /\ \A kind, n : <<kind, n>> \in queue.dirty \/ KnownAt(kind, n)
  /\ (\E k \in queue.dirty : k[1] = "ConfigMap") \/ cfgParams = ParamsIn(lister)
  /\ OnePerKey(configured) /\ ApStored /\ APInv

LEMMA SyncKnown ==
  ASSUME WorkerOK, VersionsOK, APInv, ApStored, NEW key \in Keys, SyncOf(key), UNCHANGED lister
  PROVE  /\ ApStored' /\ KnownAt(key[1], key[2])'
         /\ \A kind, n : <<kind, n>> # key /\ KnownAt(kind, n) => KnownAt(kind, n)'
<1>1. key = <<key[1], key[2]>>
  BY KeyParts
<1>2. /\ key[1] \notin ResourceKinds => UNCHANGED configured
      /\ key[1] # "Secret" => UNCHANGED store
      /\ key[1] \notin {"APPolicy", "APLogConf", "APUserSig"} => UNCHANGED apVars
  BY SyncKeeps
<1>3. UNCHANGED apVars => ApStored' /\ UNCHANGED <<policies, logConfs, userSigs>>
  BY DEF ApStored, apVars
<1>4. CASE key[1] \in ResourceKinds
  <2>1. configured' = (configured \ At(configured, key)) \cup At(lister, key)
    BY <1>4, SyncKeeps DEF SyncResource
  <2>2. At(configured', key) = At(lister, key) /\ \A k : k # key => At(configured', k) = At(configured, k)
    BY <2>1 DEF At
  <2>3. UNCHANGED <<store, apVars>>
    BY <1>2, <1>4 DEF ResourceKinds
  <2> QED
    BY <2>2, <2>3, <1>1, <1>3, <1>4 DEF KnownAt, ResourceKinds
<1>5. CASE key[1] = "Secret"
  <2>1. /\ Held(store', key[2]) = At(lister, key)
        /\ \A n : n # key[2] => Held(store', n) = Held(store, n)
    BY <1>5, SecretSynced DEF SyncOf, ResourceKinds
  <2>2. UNCHANGED <<configured, apVars>>
    BY <1>2, <1>5 DEF ResourceKinds
  <2> QED
    BY <2>1, <2>2, <1>1, <1>3, <1>5 DEF KnownAt, ResourceKinds
<1>6. CASE key[1] = "APPolicy"
  <2>1. /\ ApStored' /\ UNCHANGED <<userSigs, logConfs>>
        /\ StoredAt(policies', key[2]) = At(lister, key)
        /\ \A n : n # key[2] => StoredAt(policies', n) = StoredAt(policies, n)
    BY <1>6, ApPolicySynced DEF SyncOf, ResourceKinds
  <2>2. UNCHANGED <<configured, store>>
    BY <1>2, <1>6 DEF ResourceKinds
  <2> QED
    BY <2>1, <2>2, <1>1, <1>6 DEF KnownAt, ResourceKinds
<1>7. CASE key[1] = "APLogConf"
  <2>1. /\ ApStored' /\ UNCHANGED <<userSigs, policies>>
        /\ StoredAt(logConfs', key[2]) = At(lister, key)
        /\ \A n : n # key[2] => StoredAt(logConfs', n) = StoredAt(logConfs, n)
    BY <1>7, ApLogConfSynced DEF SyncOf, ResourceKinds
  <2>2. UNCHANGED <<configured, store>>
    BY <1>2, <1>7 DEF ResourceKinds
  <2> QED
    BY <2>1, <2>2, <1>1, <1>7 DEF KnownAt, ResourceKinds
<1>8. CASE key[1] = "APUserSig"
  <2>1. /\ ApStored' /\ UNCHANGED logConfs
        /\ StoredAt(userSigs', key[2]) = At(lister, key)
        /\ \A n : n # key[2] => StoredAt(userSigs', n) = StoredAt(userSigs, n)
        /\ \A n : StoredAt(policies', n) = StoredAt(policies, n)
    BY <1>8, ApUserSigSynced DEF SyncOf, ResourceKinds
  <2>2. UNCHANGED <<configured, store>>
    BY <1>2, <1>8 DEF ResourceKinds
  <2> QED
    BY <2>1, <2>2, <1>1, <1>8 DEF KnownAt, ResourceKinds
<1>9. CASE key[1] \notin ResourceKinds \cup {"Secret", "APPolicy", "APLogConf", "APUserSig"}
  <2>1. UNCHANGED <<configured, store, apVars>>
    BY <1>2, <1>9
  <2> QED
    BY <2>1, <1>3, <1>9 DEF KnownAt
<1> QED
  BY <1>4, <1>5, <1>6, <1>7, <1>8, <1>9

\* There is one ConfigMap.
LEMMA OneMap ==
  ASSUME WorkerOK, NEW key \in Keys, key[1] = "ConfigMap", NEW objects, objects \subseteq ObjectsOf(world)
  PROVE  OfKind(objects, "ConfigMap") = At(objects, key)
<1>1. \A o \in OfKind(objects, "ConfigMap") : Key(o) = key
  BY OneSource DEF OfKind
<1>2. \A o : Key(o)[1] = o.kind
  BY DEF Key
<1> QED
  BY <1>1, <1>2 DEF OfKind, At

LEMMA KnownStep ==
  ASSUME TypesOK, ReferencesInv, KnownOK, [Next]_allVars
  PROVE  KnownOK'
<1>1. WorkerOK /\ VersionsOK /\ JobOK /\ QueueOpen /\ StoreOK
  BY DEF TypesOK, ReferencesInv
<1>2. APInv'
  BY <1>1, StepIsOperation, APStep DEF KnownOK
<1>3. CASE StartSync
  <2>1. PICK key \in Keys : SyncOf(key) /\ queue'.dirty = queue.dirty \ {key} /\ UNCHANGED <<world, lister>>
    BY <1>1, <1>3, StartsSync
  <2>2. key = <<key[1], key[2]>>
    BY KeyParts
  <2>3. /\ ApStored' /\ KnownAt(key[1], key[2])'
        /\ \A kind, n : <<kind, n>> # key /\ KnownAt(kind, n) => KnownAt(kind, n)'
    BY <2>1, <1>1, SyncKnown DEF KnownOK
  <2>4. ASSUME NEW kind, NEW n PROVE <<kind, n>> \in queue'.dirty \/ KnownAt(kind, n)'
    <3>1. CASE <<kind, n>> = key
      <4>1. kind = key[1] /\ n = key[2]
        BY <3>1
      <4> QED
        BY <4>1, <2>3
    <3>2. CASE <<kind, n>> # key
      BY <3>2, <2>1, <2>3 DEF KnownOK
    <3> QED
      BY <3>1, <3>2
  <2>5. (\E k \in queue'.dirty : k[1] = "ConfigMap") \/ cfgParams' = ParamsIn(lister')
    <3>1. CASE key[1] = "ConfigMap"
      <4>1. OfKind(lister, "ConfigMap") = At(lister, key)
        BY <3>1, <1>1, OneMap DEF WorkerOK
      <4>2. cfgParams' = ParamsOf(At(lister, key))
        BY <3>1, <2>1 DEF SyncOf, SyncConfigMap, ResourceKinds, ParamsOf
      <4>3. cfgParams' = ParamsIn(lister)
        BY <4>1, <4>2 DEF ParamsIn
      <4> QED
        BY <4>3, <2>1
    <3>2. CASE key[1] # "ConfigMap"
      <4>1. UNCHANGED cfgParams
        BY <3>2, <2>1, SyncKeeps
      <4> QED
        BY <4>1, <3>2, <2>1 DEF KnownOK
    <3> QED
      BY <3>1, <3>2
  <2>6. OnePerKey(configured')
    BY <2>1, <1>1, SyncReconfigures DEF KnownOK
  <2> QED
    BY <2>3, <2>4, <2>5, <2>6, <1>2 DEF KnownOK
<1>4. CASE Observe
  <2>1. PICK key \in Keys :
          /\ lister' = (lister \ At(lister, key)) \cup At(cluster, key)
          /\ queue' = IF Enqueued(key) THEN Add(queue, key) ELSE queue
          /\ UNCHANGED <<world, configured, store, cfgParams, policies, logConfs, userSigs>>
    BY <1>4 DEF Observe, cnf, apVars
  <2>2. /\ queue.dirty \subseteq queue'.dirty
        /\ key[1] # "Service" => key \in queue'.dirty
    BY <2>1, <1>1, AddedWaits DEF Enqueued
  <2>3. \A k : k # key => At(lister', k) = At(lister, k)
    BY <2>1 DEF At
  <2>4. ASSUME NEW kind, NEW n PROVE <<kind, n>> \in queue'.dirty \/ KnownAt(kind, n)'
    <3>1. CASE <<kind, n>> = key /\ kind # "Service"
      <4>1. <<kind, n>>[1] = kind
        OBVIOUS
      <4> QED
        BY <4>1, <3>1, <2>2
    <3>2. CASE <<kind, n>> # key
      BY <3>2, <2>1, <2>2, <2>3 DEF KnownOK, KnownAt
    <3>3. CASE kind = "Service"
      BY <3>3 DEF KnownAt, ResourceKinds
    <3> QED
      BY <3>1, <3>2, <3>3
  <2>5. (\E k \in queue'.dirty : k[1] = "ConfigMap") \/ cfgParams' = ParamsIn(lister')
    <3>1. CASE key[1] = "ConfigMap"
      BY <3>1, <2>2
    <3>2. CASE key[1] # "ConfigMap"
      <4>1. OfKind(lister', "ConfigMap") = OfKind(lister, "ConfigMap")
        BY <3>2, <2>1 DEF OfKind, At, Key
      <4>2. ParamsIn(lister') = ParamsIn(lister)
        BY <4>1 DEF ParamsIn
      <4> QED
        BY <4>2, <2>1, <2>2 DEF KnownOK
    <3> QED
      BY <3>1, <3>2
  <2>6. OnePerKey(configured') /\ ApStored'
    BY <2>1 DEF KnownOK, ApStored
  <2> QED
    BY <2>4, <2>5, <2>6, <1>2 DEF KnownOK
<1>5. CASE ~StartSync /\ ~Observe
  <2>1. UNCHANGED <<lister, configured>> /\ queue'.dirty = queue.dirty
    BY <1>1, <1>5, QuietStep, WaitingTasks
  <2>2. UNCHANGED <<cfgParams, policies, logConfs, userSigs>>
    BY <1>5 DEF Next, Work, Build, Write, UpdateEndpoints, UpdateSpecialSecret, DeleteConfig,
       Report, FinishSync, Load, RotateKey, Rotate, RotateCert, RotateReload, BecomeLeader, Lead,
       LeaderReadsStatus, LeaderWritesStatus, LoseLeadership, ObserveStatus, EditPut, EditRemove, Edit,
       AllDone, allVars, cnf, apVars
  <2>3. \A n : Held(store', n) = Held(store, n)
    <3>1. CASE Build
      <4>1. PICK res : store' = FetchSecrets(store, res, ControllerView)
        BY <3>1 DEF Build
      <4> QED
        BY <4>1, <1>1, SecretsFetched DEF StoreOK
    <3>2. CASE ~Build
      <4>1. UNCHANGED store
        BY <3>2, <1>5 DEF Next, Work, Write, UpdateEndpoints, UpdateSpecialSecret, DeleteConfig,
           Report, FinishSync, Load, RotateKey, Rotate, RotateCert, RotateReload, BecomeLeader, Lead,
           LeaderReadsStatus, LeaderWritesStatus, LoseLeadership, ObserveStatus, EditPut, EditRemove, Edit,
           AllDone, allVars, cnf
      <4> QED
        BY <4>1
    <3> QED
      BY <3>1, <3>2
  <2> QED
    BY <2>1, <2>2, <2>3, <1>2 DEF KnownOK, KnownAt, ApStored
<1> QED
  BY <1>3, <1>4, <1>5

\* A call that writes config files writes the App Protect resources that they name
\* as they are in force, and keeps the others; and what it does to the rest.
LEMMA WrittenMore ==
  ASSUME DiskOK, OnePerKey(ApInForce), NEW step, step.op \in Generating
  PROVE  /\ Written(step).special = disk.special
         /\ Written(step).params = IF step.op = "config" THEN cfgParams ELSE disk.params
         /\ Written(step).sigs = IF step.op = "refresh" THEN step.arg ELSE disk.sigs
         /\ \A a \in ApInForce :
              (\/ \E r \in step.res : Key(a) \in job.exes[Key(r)].ap
               \/ /\ Key(a) \in DOMAIN disk.ap /\ disk.ap[Key(a)] = a
                  /\ step.op = "write" => Key(a) \notin step.arg)
              => Key(a) \in DOMAIN Written(step).ap /\ Written(step).ap[Key(a)] = a
<1> DEFINE exes == [k \in {Key(r) : r \in step.res} |-> job.exes[k]]
           Shape(d) == d = [conf |-> d.conf, ap |-> d.ap, sigs |-> d.sigs, params |-> d.params,
                            special |-> d.special]
           names == UNION {exes[k].ap : k \in DOMAIN exes}
           Has(f, a) == Key(a) \in DOMAIN f /\ f[Key(a)] = a
<1>1. /\ step.op = "write" => Written(step) = WriteConfigs(RemoveApFiles(disk, step.arg), exes)
      /\ step.op = "refresh" => Written(step) = WriteUserSigs(WriteConfigs(disk, exes), step.arg)
      /\ step.op = "config" => Written(step) = WriteConfigs(WriteMainConfig(disk), exes)
      /\ step.op = "endpoints" => Written(step) = WriteConfigs(disk, exes)
  BY DEF Written
<1>2. \A a : (\E r \in step.res : Key(a) \in job.exes[Key(r)].ap) <=> Key(a) \in names
  OBVIOUS
<1> HIDE DEF exes
<1>3. Shape(disk)
  BY DEF DiskOK
<1>4. DOMAIN ApFiles(exes) = names /\ \A a \in ApInForce : Key(a) \in names => ApFiles(exes)[Key(a)] = a
  <2> DEFINE objs == {o \in ControllerView.ap : Key(o) \in names}
  <2>1. ApFiles(exes) = [k \in names |-> CHOOSE o \in objs : Key(o) = k]
    BY Zenon DEF ApFiles
  <2>2. \A o \in objs : o \in ApInForce
    BY Views
  <2>3. \A a \in ApInForce : Key(a) \in names => a \in objs
    BY Views
  <2> HIDE DEF names, objs
  <2>4. ASSUME NEW a \in ApInForce, Key(a) \in names PROVE ApFiles(exes)[Key(a)] = a
    <3>1. \E o \in objs : Key(o) = Key(a)
      BY <2>3, <2>4
    <3>2. \A o \in objs : Key(o) = Key(a) => o = a
      BY <2>2 DEF OnePerKey
    <3>3. (CHOOSE o \in objs : Key(o) = Key(a)) = a
      BY <3>1, <3>2
    <3> QED
      BY <3>3, <2>1, <2>4
  <2> QED
    BY <2>1, <2>4
<1>5. ASSUME NEW d, Shape(d)
      PROVE  /\ Shape(WriteConfigs(d, exes)) /\ WriteConfigs(d, exes).special = d.special
             /\ WriteConfigs(d, exes).params = d.params /\ WriteConfigs(d, exes).sigs = d.sigs
             /\ \A a \in ApInForce : Key(a) \in names \/ Has(d.ap, a) => Has(WriteConfigs(d, exes).ap, a)
  <2> DEFINE c == Override(d.conf, exes)
             f == Override(d.ap, ApFiles(exes))
  <2>1. \A a \in ApInForce : Key(a) \in names \/ Has(d.ap, a) => Has(f, a)
    <3> HIDE DEF names
    <3>1. DOMAIN f = DOMAIN d.ap \cup names
          /\ \A k \in DOMAIN f : f[k] = IF k \in names THEN ApFiles(exes)[k] ELSE d.ap[k]
      BY <1>4 DEF Override
    <3> HIDE DEF f
    <3> QED
      BY <3>1, <1>4
  <2>2. WriteConfigs(d, exes) = [d EXCEPT !.conf = c, !.ap = f]
    BY Zenon DEF WriteConfigs
  <2> HIDE DEF c, f, names, Has
  <2>3. WriteConfigs(d, exes) = [conf |-> c, ap |-> f, sigs |-> d.sigs, params |-> d.params,
                                 special |-> d.special]
    BY <2>2, <1>5
  <2> QED
    BY <2>1, <2>3
<1>6. \A d, arg : Shape(d) =>
        /\ WriteUserSigs(d, arg).ap = d.ap /\ WriteUserSigs(d, arg).sigs = arg
        /\ WriteUserSigs(d, arg).params = d.params /\ WriteUserSigs(d, arg).special = d.special
        /\ Shape(WriteMainConfig(d)) /\ WriteMainConfig(d).ap = d.ap /\ WriteMainConfig(d).sigs = d.sigs
        /\ WriteMainConfig(d).params = cfgParams /\ WriteMainConfig(d).special = d.special
  BY DEF WriteUserSigs, WriteMainConfig
<1>7. \A arg : /\ Shape(RemoveApFiles(disk, arg)) /\ RemoveApFiles(disk, arg).sigs = disk.sigs
               /\ RemoveApFiles(disk, arg).params = disk.params /\ RemoveApFiles(disk, arg).special = disk.special
               /\ \A a : Has(disk.ap, a) /\ Key(a) \notin arg => Has(RemoveApFiles(disk, arg).ap, a)
  BY <1>3 DEF RemoveApFiles
<1>8. SUFFICES /\ Written(step).special = disk.special
               /\ Written(step).params = IF step.op = "config" THEN cfgParams ELSE disk.params
               /\ Written(step).sigs = IF step.op = "refresh" THEN step.arg ELSE disk.sigs
               /\ \A a \in ApInForce :
                    Key(a) \in names \/ (Has(disk.ap, a) /\ (step.op = "write" => Key(a) \notin step.arg)) =>
                      Has(Written(step).ap, a)
  BY <1>2
<1> HIDE DEF Shape, names, Has
<1>9. CASE step.op = "write"
  BY <1>1, <1>5, <1>7, <1>9
<1>10. CASE step.op = "refresh"
  BY <1>1, <1>3, <1>5, <1>6, <1>10
<1>11. CASE step.op = "config"
  BY <1>1, <1>3, <1>5, <1>6, <1>11
<1>12. CASE step.op = "endpoints"
  BY <1>1, <1>3, <1>5, <1>12
<1> QED
  BY <1>9, <1>10, <1>11, <1>12 DEF Generating

\* No two App Protect resources in force have the same key.
LEMMA ApOnePerKey == ApStored => OnePerKey(ApInForce)
<1> SUFFICES ASSUME ApStored, NEW a \in ApInForce, NEW b \in ApInForce, Key(a) = Key(b) PROVE a = b
  BY DEF OnePerKey
<1>1. \A k, j : <<"APPolicy", k>> # <<"APLogConf", j>>
  OBVIOUS
<1>2. \A kind, k, j : <<kind, k>> = <<kind, j>> => k = j
  OBVIOUS
<1>3. \A x \in ApInForce : \/ \E k \in DOMAIN policies : x = policies[k].obj /\ Key(x) = <<"APPolicy", k>>
                           \/ \E k \in DOMAIN logConfs : x = logConfs[k].obj /\ Key(x) = <<"APLogConf", k>>
  BY DEF ApInForce, ValidObjects, Objects1, ValidKeys, ApStored, StoredByName
<1> QED
  BY <1>1, <1>2, <1>3

-----------------------------------------------------------------------------
(* The calls and the main config file *)

\* The special secret in a set of objects.
SpecialKey == <<"Secret", World.special>>
SpecialIn(objects) ==
  {s \in objects : Key(s) = SpecialKey /\ s.type = "tls" /\ ValidateSecret(s)}

Calling(op) == \E s \in Calls : s.op = op

\* The calls that are left are right: none removes the file of an App Protect
\* resource in force, or the config file of a configured resource.
CallsNow ==
  \A s \in Calls :
    /\ s.op = "write" => \A a \in ApInForce : Key(a) \notin s.arg
    /\ s.op = "delete" => \A r \in configured : Key(r) \notin s.arg
    /\ s.op = "refresh" => s.arg \in {ValidObjects(userSigs), {}}

\* The parameters, the signatures and the special secret, unless a call is left.
ParamsWritten == Calling("config") \/ cfgParams.broken \/ disk.params = cfgParams
SigsWritten == Calling("refresh") \/ disk.sigs \in {ValidObjects(userSigs), {}}
SpecialWritten ==
  \/ SpecialKey \in queue.dirty \/ SpecialIn(lister) = {}
  \/ IF Calling("special") THEN \A s \in Calls : s.op = "special" => s.arg = SpecialIn(lister)
     ELSE disk.special = SpecialIn(lister)

MainOK == CallsNow /\ ParamsWritten /\ SigsWritten /\ SpecialWritten

\* What the calls of a plan are, and which a plan must have.
SyncCall(key, s) ==
  /\ s.op = "write" => \/ s.arg = {}
                       \/ key[1] \in AppProtectKinds /\ apChange'.op = "Delete" /\ s.arg = {key}
  /\ s.op = "delete" => key[1] \in ResourceKinds /\ s.arg = {key} /\ At(lister, key) = {}
  /\ s.op = "refresh" => key[1] = "APUserSig" /\ s.arg = apChange'.UserSigs
  /\ s.op = "special" => key[1] = "Secret" /\ s.arg = SpecialAt(key)

LEMMA WriteCallIs ==
  ASSUME NEW key, NEW res, NEW s \in WriteCalls(res)
  PROVE  SyncCall(key, s) /\ s.op = "write"
<1> DEFINE w == Step("write", res, {})
<1>1. w.op = "write" /\ w.arg = {}
  BY StepIs
<1> HIDE DEF w
<1>2. s = w
  BY Zenon DEF WriteCalls, w
<1> QED
  BY <1>1, <1>2 DEF SyncCall

LEMMA SyncCalls ==
  ASSUME WorkerOK, VersionsOK, JobOK, APInv, ApStored, NEW key \in Keys, SyncOf(key)
  PROVE  /\ \A s \in Range(job'.plan) : SyncCall(key, s)
         /\ key[1] = "APUserSig" => \E s \in Range(job'.plan) : s.op = "refresh"
         /\ key[1] = "ConfigMap" => cfgParams'.broken \/ \E s \in Range(job'.plan) : s.op = "config"
         /\ key[1] = "Secret" /\ SpecialAt(key) # {} => \E s \in Range(job'.plan) : s.op = "special"
<1> USE DEF ResourceKinds
<1>1. ASSUME NEW op \in {"report", "endpoints", "config"}, NEW s, s.op = op PROVE SyncCall(key, s)
  BY <1>1 DEF SyncCall
<1>2. CASE key[1] = "Secret"
  <2> DEFINE c == Step("special", {}, SpecialAt(key))
  <2>1. Range(job'.plan) = (IF SpecialAt(key) = {} THEN {} ELSE {c}) \cup WriteCalls(FindDependents(key))
    BY <1>2, SecretPlan DEF SyncOf
  <2>2. c.op = "special" /\ c.arg = SpecialAt(key)
    BY StepIs
  <2> HIDE DEF c
  <2>3. SyncCall(key, c)
    BY <2>2, <1>2 DEF SyncCall
  <2> QED
    BY <2>1, <2>2, <2>3, <1>2, WriteCallIs
<1>3. CASE key[1] = "Policy"
  <2>1. Range(job'.plan) = WriteCalls(FindResources(key))
    BY <1>3, PolicyPlan DEF SyncOf
  <2> QED
    BY <2>1, <1>3, WriteCallIs
<1>4. CASE key[1] \in AppProtectKinds
  <2> DEFINE target == <<apChange'.kind, apChange'.name>>
             dep == FindDependents(target)
             arg == IF apChange'.op = "Delete" /\ dep # {} THEN {target} ELSE {}
             c == Step("write", dep, arg)
  <2>1. Range(job'.plan) = IF apChange'.op = "none" THEN {} ELSE {c}
    BY <1>4, AppProtectPlanned DEF SyncOf, AppProtectKinds
  <2>2. apChange'.op # "none" => target = key
    BY <1>4, ApPolicySynced, ApLogConfSynced DEF SyncOf, AppProtectKinds
  <2>3. c.op = "write" /\ c.arg = arg
    BY StepIs
  <2>4. arg = {} \/ (apChange'.op = "Delete" /\ arg = {target})
    OBVIOUS
  <2> HIDE DEF c, arg, target
  <2>5. apChange'.op # "none" => SyncCall(key, c)
    BY <2>2, <2>3, <2>4, <1>4 DEF SyncCall
  <2> QED
    BY <2>1, <2>5, <1>4 DEF AppProtectKinds
<1>5. CASE key[1] = "APUserSig"
  <2>1. PICK res : Range(job'.plan) = {Step("refresh", res, apChange'.UserSigs)}
    BY <1>5, UserSigPlanned DEF SyncOf
  <2> DEFINE c == Step("refresh", res, apChange'.UserSigs)
  <2>2. c.op = "refresh" /\ c.arg = apChange'.UserSigs
    BY StepIs
  <2> HIDE DEF c
  <2>3. SyncCall(key, c) /\ Range(job'.plan) = {c}
    BY <2>1, <2>2, <1>5 DEF SyncCall, c
  <2> QED
    BY <2>2, <2>3, <1>5
<1>6. CASE key[1] = "ConfigMap"
  <2> DEFINE op == IF cfgParams'.broken THEN "report" ELSE "config"
  <2>1. PICK res : job' = Job(<<Step(op, res, {})>>)
    BY <1>6 DEF SyncOf, SyncConfigMap
  <2> DEFINE c == Step(op, res, {})
  <2>2. Range(job'.plan) = {c}
    BY <2>1, OneCallPlan
  <2>3. c.op = op
    BY StepIs
  <2> HIDE DEF c
  <2> QED
    BY <2>2, <2>3, <1>1, <1>6
<1>7. CASE key[1] = "Service"
  <2> DEFINE c == Step("report", Ingresses(configured), {})
  <2>1. Range(job'.plan) = (IF key[2] = World.external THEN {c} ELSE {}) \cup WriteCalls(FindResources(key))
    BY <1>7, ServicePlan DEF SyncOf
  <2>2. c.op = "report"
    BY StepIs
  <2> HIDE DEF c
  <2> QED
    BY <2>1, <2>2, <1>1, <1>7, WriteCallIs
<1>8. CASE key[1] = "IngressLink"
  <2> DEFINE c == Step("report", Ingresses(configured), {})
  <2>1. Range(job'.plan) = {c}
    BY <1>8, OneCallPlan DEF SyncOf, SyncIngressLink
  <2>2. c.op = "report"
    BY StepIs
  <2> HIDE DEF c
  <2> QED
    BY <2>1, <2>2, <1>1, <1>8
<1>9. CASE key[1] = "Endpoints"
  BY <1>1, <1>9, EndpointsPlan DEF SyncOf
<1>10. CASE key[1] \in ResourceKinds
  <2> DEFINE d == Step("delete", {}, {key})
  <2>1. Range(job'.plan) = IF At(lister, key) = At(configured, key) THEN {}
                           ELSE IF At(lister, key) = {} THEN {d} ELSE WriteCalls(At(lister, key))
    BY <1>10, SyncKeeps, ResourcePlan
  <2>2. d.op = "delete" /\ d.arg = {key}
    BY StepIs
  <2> HIDE DEF d
  <2>3. At(lister, key) = {} => SyncCall(key, d)
    BY <2>2, <1>10 DEF SyncCall
  <2> QED
    BY <2>1, <2>3, <1>10, WriteCallIs
<1> QED
  BY <1>2, <1>3, <1>4, <1>5, <1>6, <1>7, <1>8, <1>9, <1>10 DEF SyncOf, AppProtectKinds

\* A sync leaves the calls that it takes.
LEMMA SyncMain ==
  ASSUME WorkerOK, VersionsOK, JobOK, QueueOpen, APInv, ApStored, MainOK, NEW key \in Keys, SyncOf(key),
         UNCHANGED <<world, lister, disk>>, queue'.dirty = queue.dirty \ {key}, Calls = {}
  PROVE  MainOK'
<1> DEFINE calls == Range(job'.plan)
<1>1. /\ \A s \in calls : SyncCall(key, s)
      /\ key[1] = "APUserSig" => \E s \in calls : s.op = "refresh"
      /\ key[1] = "ConfigMap" => cfgParams'.broken \/ \E s \in calls : s.op = "config"
      /\ key[1] = "Secret" /\ SpecialAt(key) # {} => \E s \in calls : s.op = "special"
  BY SyncCalls
<1>2. Calls' = calls
  BY DEF Calls
<1> HIDE DEF calls
<1>3. CallsNow'
  <2> SUFFICES ASSUME NEW s \in calls
               PROVE  /\ s.op = "write" => \A a \in ApInForce' : Key(a) \notin s.arg
                      /\ s.op = "delete" => \A r \in configured' : Key(r) \notin s.arg
                      /\ s.op = "refresh" => s.arg \in {ValidObjects(userSigs'), {}}
    BY <1>2 DEF CallsNow
  <2>1. ASSUME s.op = "write" PROVE \A a \in ApInForce' : Key(a) \notin s.arg
    <3>1. CASE s.arg = {}
      BY <3>1
    <3>2. CASE key[1] \in AppProtectKinds /\ apChange'.op = "Delete" /\ s.arg = {key}
      BY <3>2, ApPolicySynced, ApLogConfSynced DEF SyncOf, AppProtectKinds, ResourceKinds
    <3> QED
      BY <3>1, <3>2, <2>1, <1>1 DEF SyncCall
  <2>2. ASSUME s.op = "delete" PROVE \A r \in configured' : Key(r) \notin s.arg
    <3>1. key[1] \in ResourceKinds /\ s.arg = {key} /\ At(lister, key) = {}
      BY <2>2, <1>1 DEF SyncCall
    <3>2. configured' = (configured \ At(configured, key)) \cup At(lister, key)
      BY <3>1, SyncKeeps DEF SyncResource
    <3> QED
      BY <3>1, <3>2 DEF At
  <2>3. ASSUME s.op = "refresh" PROVE s.arg \in {ValidObjects(userSigs'), {}}
    BY <2>3, <1>1, ApUserSigSynced DEF SyncCall, SyncOf, ResourceKinds
  <2> QED
    BY <2>1, <2>2, <2>3
<1>4. ~Calling("config") /\ ~Calling("refresh") /\ ~Calling("special")
  BY DEF Calling
<1>5. ParamsWritten'
  <2>1. CASE key[1] = "ConfigMap"
    BY <2>1, <1>1, <1>2 DEF ParamsWritten, Calling
  <2>2. CASE key[1] # "ConfigMap"
    BY <2>2, <1>4, SyncKeeps DEF ParamsWritten, MainOK
  <2> QED
    BY <2>1, <2>2
<1>6. SigsWritten'
  <2>1. CASE key[1] = "APUserSig"
    BY <2>1, <1>1, <1>2 DEF SigsWritten, Calling
  <2>2. CASE key[1] # "APUserSig"
    <3>1. UNCHANGED userSigs
      <4>1. CASE key[1] \in AppProtectKinds
        BY <4>1, ApPolicySynced, ApLogConfSynced DEF SyncOf, AppProtectKinds, ResourceKinds
      <4>2. CASE key[1] \notin AppProtectKinds
        BY <4>2, <2>2, SyncKeeps DEF AppProtectKinds, apVars
      <4> QED
        BY <4>1, <4>2
    <3> QED
      BY <3>1, <1>4 DEF SigsWritten, MainOK
  <2> QED
    BY <2>1, <2>2
<1>7. SpecialWritten'
  <2>1. SpecialKey' = SpecialKey /\ World' = World
    BY DEF SpecialKey, World
  <2>2. SpecialIn(lister)' = SpecialIn(lister)
    BY <2>1 DEF SpecialIn
  <2>3. SpecialAt(key) = {s \in At(lister, key) : s.name = World.special /\ s.type = "tls" /\ ValidateSecret(s)}
    BY DEF SpecialAt
  <2>4. CASE key = SpecialKey
    <3>1. SpecialKey[1] = "Secret" /\ SpecialKey[2] = World.special
      BY DEF SpecialKey
    <3>2. SpecialAt(key) = SpecialIn(lister)
      BY <2>3, <2>4, <3>1 DEF SpecialIn, At, Key
    <3> QED
      BY <3>1, <3>2, <2>2, <2>4, <1>1, <1>2 DEF SpecialWritten, Calling, SyncCall
  <2>5. CASE key # SpecialKey
    <3>1. \A s \in calls : s.op # "special" \/ SpecialIn(lister) = {}
      <4>1. ASSUME NEW s \in calls, s.op = "special" PROVE FALSE
        <5>1. key[1] = "Secret" /\ key = <<key[1], key[2]>>
          BY <4>1, <1>1, KeyParts DEF SyncCall
        <5>2. key[2] # World.special
          BY <5>1, <2>5 DEF SpecialKey
        <5>3. SpecialAt(key) = {}
          BY <5>2, <2>3 DEF At, Key
        <5>4. Range(job'.plan) = WriteCalls(FindDependents(key))
          BY <5>1, <5>3, SecretPlan DEF SyncOf, ResourceKinds
        <5> QED
          BY <5>4, <4>1, WriteCallIs DEF calls
      <4> QED
        BY <4>1
    <3>2. SpecialIn(lister) # {} => ~Calling("special")'
      BY <3>1, <1>2 DEF Calling
    <3> QED
      BY <3>2, <2>1, <2>2, <2>5, <1>4 DEF SpecialWritten, MainOK
  <2> QED
    BY <2>4, <2>5
<1> QED
  BY <1>3, <1>5, <1>6, <1>7 DEF MainOK

\* The calls of the Configurator and of the status updater.
Call == Write \/ UpdateEndpoints \/ UpdateSpecialSecret \/ DeleteConfig \/ Report

\* Only the syncs change what the Configurator generates from, but for the listers.
LEMMA StepKinds ==
  ASSUME [Next]_allVars, ~StartSync
  PROVE  /\ UNCHANGED <<world, configured, cfgParams, policies, logConfs, userSigs>>
         /\ Call \/ Observe \/ Build \/ FinishSync \/ UNCHANGED <<job, disk, store, lister, queue>>
<1>1. UNCHANGED <<world, configured, cfgParams, policies, logConfs, userSigs>>
  BY DEF Next, Work, Build, Write, UpdateEndpoints, UpdateSpecialSecret, DeleteConfig,
       Report, FinishSync, Load, RotateKey, Rotate, RotateCert, RotateReload, BecomeLeader, Lead,
       LeaderReadsStatus, LeaderWritesStatus, LoseLeadership, ObserveStatus, EditPut, EditRemove, Edit,
       Observe, AllDone, allVars, cnf, apVars
<1>2. CASE Work \/ Observe
  BY <1>1, <1>2 DEF Work, Call
<1>3. CASE ~Work /\ ~Observe
  <2>1. UNCHANGED <<job, disk, store, lister, queue>>
    BY <1>3 DEF Next, Load, RotateKey, Rotate, RotateCert, RotateReload, BecomeLeader, Lead,
         LeaderReadsStatus, LeaderWritesStatus, LoseLeadership, ObserveStatus, EditPut, EditRemove, Edit,
         AllDone, allVars, cnf, nginx, worker
  <2> QED
    BY <1>1, <2>1
<1> QED
  BY <1>1, <1>2, <1>3

\* A call is the first of the calls that are left.
LEMMA CallTaken ==
  ASSUME WorkerOK, JobOK, ExesOK, CallsOK, Call
  PROVE  /\ This \in Calls /\ Calls = {This} \cup Calls'
         /\ job'.built = job.built /\ job'.exes = job.exes
         /\ UNCHANGED <<world, lister, queue, configured, store, cfgParams, policies, logConfs, userSigs>>
<1>1. /\ UNCHANGED <<lister, queue, configured, store>>
      /\ This \in Calls /\ Calls = {This} \cup Calls'
  BY CallRefs DEF Call, Calls
<1>2. job' = [built |-> job.built, exes |-> job.exes, plan |-> Tail(job.plan)] /\ UNCHANGED world
  BY CallStep DEF Call
<1>3. UNCHANGED <<cfgParams, policies, logConfs, userSigs>>
  BY DEF Call, Write, UpdateEndpoints, UpdateSpecialSecret, DeleteConfig, Report, cnf, apVars
<1>4. job'.built = job.built /\ job'.exes = job.exes
  BY <1>2
<1> QED
  BY <1>1, <1>2, <1>3, <1>4

\* What the calls do to the main config file, the signatures and the special secret.
LEMMA CallWrites ==
  ASSUME DiskOK, OnePerKey(ApInForce), Call
  PROVE  /\ This.op \in Generating => disk' = Written(This) /\ job.built
         /\ This.op = "special" => disk' = [disk EXCEPT !.special = This.arg]
         /\ This.op = "delete" => disk' = [disk EXCEPT !.conf = [k \in DOMAIN disk.conf \ This.arg |-> disk.conf[k]]]
         /\ This.op = "report" => disk' = disk
         /\ disk'.params = IF This.op = "config" THEN cfgParams ELSE disk.params
         /\ disk'.sigs = IF This.op = "refresh" THEN This.arg ELSE disk.sigs
         /\ disk'.special = IF This.op = "special" THEN This.arg ELSE disk.special
         /\ This.op \in PlanOps
<1>0. PlanOps = Generating \cup {"special", "delete", "report"}
  BY DEF PlanOps, Generating
<1>1. CASE Write \/ UpdateEndpoints
  <2>1. disk' = Written(This) /\ This.op \in Generating /\ job.built
    BY <1>1 DEF Write, UpdateEndpoints, Doing, This, Generating
  <2>2. This.op \notin {"special", "delete", "report"}
    BY <2>1 DEF Generating
  <2> QED
    BY <2>1, <2>2, <1>0, WrittenMore
<1>2. CASE UpdateSpecialSecret
  <2>1. This.op = "special" /\ disk' = [disk EXCEPT !.special = This.arg]
    BY <1>2 DEF UpdateSpecialSecret, Doing, This
  <2> QED
    BY <2>1, <1>0 DEF DiskOK, Generating
<1>3. CASE DeleteConfig
  <2> DEFINE c == [k \in DOMAIN disk.conf \ This.arg |-> disk.conf[k]]
  <2>1. This.op = "delete" /\ disk' = [disk EXCEPT !.conf = c]
    BY <1>3 DEF DeleteConfig, Doing, This
  <2> HIDE DEF c
  <2>2. disk'.params = disk.params /\ disk'.sigs = disk.sigs /\ disk'.special = disk.special
    BY <2>1 DEF DiskOK
  <2> QED
    BY <2>1, <2>2, <1>0 DEF Generating, c
<1>4. CASE Report
  <2>1. This.op = "report" /\ disk' = disk
    BY <1>4 DEF Report, Doing, This, nginx
  <2> QED
    BY <2>1, <1>0 DEF Generating
<1> QED
  BY <1>1, <1>2, <1>3, <1>4 DEF Call

LEMMA MainStep ==
  ASSUME TypesOK, ReferencesInv, KnownOK, MainOK, [Next]_allVars
  PROVE  MainOK'
<1>1. WorkerOK /\ VersionsOK /\ JobOK /\ DiskOK /\ QueueOpen /\ ExesOK /\ CallsOK /\ APInv /\ ApStored
  BY DEF TypesOK, ReferencesInv, KnownOK
<1>2. CASE StartSync
  BY <1>1, <1>2, StartsSync, SyncMain
<1>3. ASSUME UNCHANGED <<world, configured, cfgParams, policies, logConfs, userSigs, disk, lister>>,
             queue'.dirty = queue.dirty, Calls' = Calls
      PROVE  MainOK'
  <2>1. ApInForce' = ApInForce
    BY <1>3 DEF ApInForce
  <2>2. SpecialKey' = SpecialKey /\ SpecialIn(lister)' = SpecialIn(lister)
    BY <1>3 DEF SpecialKey, World, SpecialIn
  <2> QED
    BY <2>1, <2>2, <1>3 DEF MainOK, CallsNow, ParamsWritten, SigsWritten, SpecialWritten, Calling
<1>4. CASE ~StartSync /\ Call
  <2>1. /\ Calls = {This} \cup Calls'
        /\ UNCHANGED <<world, lister, queue, configured, cfgParams, policies, logConfs, userSigs>>
    BY <1>1, <1>4, CallTaken
  <2>2. /\ disk'.params = IF This.op = "config" THEN cfgParams ELSE disk.params
        /\ disk'.sigs = IF This.op = "refresh" THEN This.arg ELSE disk.sigs
        /\ disk'.special = IF This.op = "special" THEN This.arg ELSE disk.special
    BY <1>1, <1>4, CallWrites, ApOnePerKey
  <2>3. ApInForce' = ApInForce
    BY <2>1 DEF ApInForce
  <2>4. SpecialKey' = SpecialKey /\ SpecialIn(lister)' = SpecialIn(lister)
    BY <2>1 DEF SpecialKey, World, SpecialIn
  <2>5. CallsNow'
    BY <2>1, <2>3 DEF MainOK, CallsNow
  <2>6. ParamsWritten' /\ SigsWritten'
    BY <2>1, <2>2 DEF MainOK, CallsNow, ParamsWritten, SigsWritten, Calling
  <2>7. SpecialWritten'
    BY <2>1, <2>2, <2>4 DEF MainOK, SpecialWritten, Calling
  <2> QED
    BY <2>5, <2>6, <2>7 DEF MainOK
<1>5. CASE ~StartSync /\ Observe
  <2>1. PICK key \in Keys : /\ lister' = (lister \ At(lister, key)) \cup At(cluster, key)
                            /\ queue' = IF Enqueued(key) THEN Add(queue, key) ELSE queue
                            /\ UNCHANGED <<job, disk>>
    BY <1>5 DEF Observe, nginx
  <2>2. UNCHANGED <<world, configured, cfgParams, policies, logConfs, userSigs>>
    BY <1>5, StepKinds
  <2>3. ApInForce' = ApInForce /\ Calls' = Calls
    BY <2>1, <2>2 DEF ApInForce, Calls
  <2>4. CallsNow' /\ ParamsWritten' /\ SigsWritten'
    BY <2>1, <2>2, <2>3 DEF MainOK, CallsNow, ParamsWritten, SigsWritten, Calling
  <2>5. SpecialKey' = SpecialKey
    BY <2>2 DEF SpecialKey, World
  <2>6. queue.dirty \subseteq queue'.dirty /\ (Enqueued(key) => key \in queue'.dirty)
    BY <2>1, <1>1, AddedWaits
  <2>7. CASE key = SpecialKey
    <3>1. Enqueued(key)
      BY <2>7 DEF Enqueued, SpecialKey
    <3> QED
      BY <3>1, <2>4, <2>5, <2>6, <2>7 DEF MainOK, SpecialWritten
  <2>8. CASE key # SpecialKey
    <3>1. SpecialIn(lister') = SpecialIn(lister)
      BY <2>1, <2>8 DEF SpecialIn, At
    <3>2. SpecialIn(lister)' = SpecialIn(lister)
      BY <3>1, <2>5 DEF SpecialIn
    <3>3. SpecialWritten'
      BY <3>2, <2>1, <2>3, <2>5, <2>6 DEF MainOK, SpecialWritten, Calling
    <3> QED
      BY <3>3, <2>4 DEF MainOK
  <2> QED
    BY <2>7, <2>8
<1>6. CASE ~StartSync /\ ~Call /\ ~Observe
  <2>1. UNCHANGED <<world, configured, cfgParams, policies, logConfs, userSigs, lister>>
        /\ queue'.dirty = queue.dirty
    BY <1>6, <1>1, StepKinds, QuietStep, WaitingTasks
  <2>2. CASE Build
    <3>1. job' = [job EXCEPT !.built = job'.built, !.exes = job'.exes] /\ UNCHANGED disk
      <4>1. PICK b, x : job' = [job EXCEPT !.built = b, !.exes = x] /\ UNCHANGED disk
        BY <2>2 DEF Build, nginx
      <4>2. job'.built = b /\ job'.exes = x
        BY <4>1, <1>1 DEF JobOK
      <4> QED
        BY <4>1, <4>2
    <3>2. job'.plan = job.plan
      BY <3>1, <1>1 DEF JobOK
    <3> QED
      BY <3>1, <3>2, <2>1, <1>3 DEF Calls
  <2>3. CASE FinishSync
    <3>1. job'.plan = job.plan /\ UNCHANGED disk
      BY <2>3 DEF FinishSync, IdleJob, Job, nginx
    <3> QED
      BY <3>1, <2>1, <1>3 DEF Calls
  <2>4. CASE UNCHANGED <<job, disk>>
    BY <2>4, <2>1, <1>3 DEF Calls
  <2> QED
    BY <2>2, <2>3, <2>4, <1>6, StepKinds
<1> QED
  BY <1>2, <1>4, <1>5, <1>6

-----------------------------------------------------------------------------
(* Endpoints *)

Svc(n) == <<"Service", n>>
Ep(n) == <<"Endpoints", n>>

\* A service that can have Endpoints has them as long as it exists.
EndpointsThere == \A n : Ep(n) \in Keys /\ At(cluster, Svc(n)) # {} => At(cluster, Ep(n)) # {}

LEMMA EndpointsOfWorld ==
  ASSUME world \in DOMAIN Worlds, NEW n, Ep(n) \in Keys
  PROVE  At(World.objects, Ep(n)) # {} /\ Ep(n) \notin World.removable
<1>1. PICK o \in ObjectsOf(world) : Key(o) = Ep(n)
  BY KeysOfWorld
<1>2. o.kind = "Endpoints"
  BY <1>1 DEF Key, Ep
<1>3. Key(o) \notin World.removable /\ \E e \in World.objects : Key(e) = Key(o)
  BY <1>2, ServicesAssumption DEF ServicesAssumption, ObjectsOf, World
<1> QED
  BY <1>1, <1>3 DEF At

LEMMA EndpointsThereInit == Init => EndpointsThere
BY EndpointsOfWorld DEF Init, EndpointsThere

LEMMA EndpointsThereStep ==
  ASSUME WorkerOK, EndpointsThere, [Next]_allVars
  PROVE  EndpointsThere'
<1>1. UNCHANGED world /\ world \in DOMAIN Worlds
  BY SameWorld DEF WorkerOK
<1>2. Keys' = Keys
  BY <1>1 DEF Keys, World
<1>3. \A n : Svc(n)[1] = "Service" /\ Svc(n)[2] = n /\ Ep(n)[1] = "Endpoints" /\ Ep(n)[2] = n
  BY DEF Svc, Ep
<1>4. \A n, m : Ep(n) = Ep(m) => n = m
  BY DEF Ep
<1>5. CASE EditPut
  <2>1. PICK o \in World.variants :
          LET missing == IF At(cluster, EndpointsKey(Key(o))) = {}
                           THEN At(World.objects, EndpointsKey(Key(o))) \ At(World.objects, Key(o)) ELSE {}
          IN cluster' = (cluster \ At(cluster, Key(o))) \cup {o} \cup missing
    BY <1>5 DEF EditPut, Edit
  <2> DEFINE k == Key(o)
             missing == IF At(cluster, EndpointsKey(k)) = {}
                          THEN At(World.objects, EndpointsKey(k)) \ At(World.objects, k) ELSE {}
  <2>2. cluster' = (cluster \ At(cluster, k)) \cup {o} \cup missing
    BY <2>1
  <2>3. k = <<k[1], k[2]>>
    BY DEF Key
  <2>4. ASSUME NEW n, Ep(n) \in Keys, At(cluster', Svc(n)) # {}
        PROVE  At(cluster', Ep(n)) # {}
    <3>1. CASE k = Svc(n)
      <4>1. EndpointsKey(k) = Ep(n) /\ Ep(n) # Svc(n)
        BY <3>1, <1>3 DEF EndpointsKey, Ep
      <4>2. CASE At(cluster, Ep(n)) = {}
        <5>1. At(World.objects, Ep(n)) # {}
          BY <2>4, <1>1, EndpointsOfWorld
        <5>2. missing = At(World.objects, Ep(n)) \ At(World.objects, Svc(n))
          BY <4>1, <4>2, <3>1
        <5> QED
          BY <5>1, <5>2, <4>1, <2>2 DEF At
      <4>3. CASE At(cluster, Ep(n)) # {}
        BY <4>1, <4>3, <3>1, <2>2 DEF At
      <4> QED
        BY <4>2, <4>3
    <3>2. CASE k = Ep(n)
      <4>1. o \in At(cluster', Ep(n))
        BY <3>2, <2>2 DEF At
      <4> QED
        BY <4>1
    <3>3. CASE k # Svc(n) /\ k # Ep(n)
      <4>1. \A m \in missing : Key(m) # Svc(n)
        <5>1. \A m \in missing : Key(m) = EndpointsKey(k) /\ Key(m) # k
          BY DEF At
        <5>2. EndpointsKey(k) = k \/ EndpointsKey(k) = Ep(k[2])
          BY DEF EndpointsKey, Ep
        <5> QED
          BY <5>1, <5>2, <1>3
      <4>2. At(cluster, Svc(n)) # {}
        <5> HIDE DEF missing
        <5> QED
          BY <4>1, <3>3, <2>2, <2>4 DEF At
      <4>3. At(cluster, Ep(n)) # {}
        BY <4>2, <2>4 DEF EndpointsThere
      <4> HIDE DEF missing
      <4> QED
        BY <4>3, <3>3, <2>2 DEF At
    <3> QED
      BY <3>1, <3>2, <3>3
  <2> QED
    BY <2>4, <1>2 DEF EndpointsThere
<1>6. CASE EditRemove
  <2>1. PICK key \in World.removable : cluster' = {o \in cluster : Key(o) \notin {key, EndpointsKey(key)}}
    BY <1>6 DEF EditRemove, Edit
  <2>2. key \in Keys
    BY <1>1, KeysOfWorld, ServicesAssumption DEF ServicesAssumption, World, ObjectsOf
  <2>3. key = <<key[1], key[2]>>
    BY <2>2, KeyParts
  <2>4. ASSUME NEW n, Ep(n) \in Keys, At(cluster', Svc(n)) # {}
        PROVE  At(cluster', Ep(n)) # {}
    <3>1. key # Svc(n) /\ At(cluster, Svc(n)) # {}
      BY <2>1, <2>4 DEF At
    <3>2. key # Ep(n)
      BY <2>4, <1>1, EndpointsOfWorld
    <3>3. EndpointsKey(key) # Ep(n)
      <4>1. CASE key[1] = "Service"
        <5>1. EndpointsKey(key) = Ep(key[2]) /\ key = Svc(key[2])
          BY <4>1, <2>3 DEF EndpointsKey, Ep, Svc
        <5> QED
          BY <5>1, <3>1, <1>4
      <4>2. CASE key[1] # "Service"
        BY <4>2, <3>2 DEF EndpointsKey
      <4> QED
        BY <4>1, <4>2
    <3>4. At(cluster, Ep(n)) # {}
      BY <3>1, <2>4 DEF EndpointsThere
    <3> QED
      BY <3>2, <3>3, <3>4, <2>1 DEF At
  <2> QED
    BY <2>4, <1>2 DEF EndpointsThere
<1>7. CASE ~EditPut /\ ~EditRemove
  <2>1. UNCHANGED cluster
    BY <1>7 DEF Next, Work, StartSync, Build, Write, UpdateEndpoints, UpdateSpecialSecret, DeleteConfig,
         Report, FinishSync, Load, RotateKey, Rotate, RotateCert, RotateReload, BecomeLeader, Lead,
         LeaderReadsStatus, LeaderWritesStatus, LoseLeadership, ObserveStatus, Observe, AllDone, allVars
  <2> QED
    BY <2>1, <1>2 DEF EndpointsThere
<1> QED
  BY <1>5, <1>6, <1>7

\* The endpoints of r may not be those of the listers: a service of it or its
\* Endpoints are still to be synced, or to be seen.
Late(r, tasks, objects) ==
  \E p \in Parts(r) : \E n \in p.services :
    \/ Svc(n) \in tasks
    \/ /\ n \notin p.clusterIP /\ Ep(n) \in Keys /\ At(objects, Svc(n)) # {}
       /\ Ep(n) \in tasks \/ At(objects, Ep(n)) = {}

\* The services and the endpoints of r in v are in w.
Within(r, v, w) ==
  \A p \in Parts(r) :
    /\ \A s \in v.services : s.name \in p.services =>
         \E t \in w.services : t.name = s.name /\ t.ports = s.ports
    /\ \A s \in v.services : \A e \in v.endpoints :
         s.name = e.name /\ e.name \in p.services \ p.clusterIP => e \in w.endpoints

LEMMA EndpointsWithin ==
  ASSUME NEW r, NEW v, NEW w, Within(r, v, w), \A p \in Parts(r) : p.clusterIP \subseteq p.services
  PROVE  EndpointsOf(r, v) \subseteq EndpointsOf(r, w)
<1> DEFINE pods == UNION {p.services \ p.clusterIP : p \in Parts(r)}
           cluster_ips == UNION {p.clusterIP : p \in Parts(r)}
           x(s, a) == [name |-> s.name, ports |-> s.ports, addrs |-> a]
           P(y, u) == \E s \in u.services : \E e \in u.endpoints :
                        s.name \in pods /\ e.name = s.name /\ y = x(s, e.addrs)
           C(y, u) == \E s \in u.services : s.name \in cluster_ips /\ y = x(s, "clusterIP")
<1>1. ASSUME NEW u PROVE \A y : y \in EndpointsOf(r, u) <=> P(y, u) \/ C(y, u)
  <2> DEFINE served(names) == {s \in u.services : s.name \in names}
             at(s) == {f \in u.endpoints : f.name = s.name}
             A == UNION {{x(s, e.addrs) : e \in at(s)} : s \in served(pods)}
             B == {x(s, "clusterIP") : s \in served(cluster_ips)}
  <2>1. EndpointsOf(r, u) = A \cup B
    BY Zenon DEF EndpointsOf
  <2> HIDE DEF x, pods, cluster_ips
  <2>2. \A y : y \in A <=> P(y, u)
    OBVIOUS
  <2>3. \A y : y \in B <=> C(y, u)
    OBVIOUS
  <2> HIDE DEF P, C, A, B
  <2> QED
    BY <2>1, <2>2, <2>3
<1>2. \A s, t, a : s.name = t.name /\ s.ports = t.ports => x(s, a) = x(t, a)
  OBVIOUS
<1> HIDE DEF x
<1>3. ASSUME NEW y, P(y, v) PROVE P(y, w)
  <2>1. PICK s \in v.services, e \in v.endpoints : s.name \in pods /\ e.name = s.name /\ y = x(s, e.addrs)
    BY <1>3
  <2>2. PICK p \in Parts(r) : s.name \in p.services \ p.clusterIP
    BY <2>1
  <2>3. PICK t \in w.services : t.name = s.name /\ t.ports = s.ports
    BY <2>2 DEF Within
  <2>4. e \in w.endpoints
    BY <2>1, <2>2 DEF Within
  <2> HIDE DEF pods
  <2> QED
    BY <2>1, <2>3, <2>4, <1>2
<1>4. ASSUME NEW y, C(y, v) PROVE C(y, w)
  <2>1. PICK s \in v.services : s.name \in cluster_ips /\ y = x(s, "clusterIP")
    BY <1>4
  <2>2. PICK p \in Parts(r) : s.name \in p.services
    BY <2>1
  <2>3. PICK t \in w.services : t.name = s.name /\ t.ports = s.ports
    BY <2>2 DEF Within
  <2> HIDE DEF cluster_ips
  <2> QED
    BY <2>1, <2>3, <1>2
<1> HIDE DEF P, C
<1> QED
  BY <1>1, <1>3, <1>4

LEMMA EndpointsSame ==
  ASSUME NEW r, NEW v, NEW w, w.services = v.services, w.endpoints = v.endpoints
  PROVE  EndpointsOf(r, w) = EndpointsOf(r, v)
BY DEF EndpointsOf

\* What the resources of a world are like.
LEMMA ResourceOfWorld ==
  ASSUME WorkerOK, NEW r \in ObjectsOf(world), r.kind \in ResourceKinds
  PROVE  /\ r.role \in {"Ingress", "Master", "VirtualServer", "TransportServer"}
         /\ \A p \in Parts(r) : p.clusterIP \subseteq p.services
BY ServicesAssumption DEF ServicesAssumption, ObjectsOf, WorkerOK, Parts

\* An informer makes no resource late without queueing a task for it.
LEMMA ObserveLate ==
  ASSUME WorkerOK, QueueOpen, Observe, NEW r \in ObjectsOf(world), r.kind \in ResourceKinds
  PROVE  \/ Late(r, queue.dirty, lister)'
         \/ /\ ~Late(r, queue.dirty, lister)
            /\ EndpointsOf(r, ControllerView') = EndpointsOf(r, ControllerView)
<1>1. PICK key \in Keys : /\ lister' = (lister \ At(lister, key)) \cup At(cluster, key)
                          /\ queue' = IF Enqueued(key) THEN Add(queue, key) ELSE queue
                          /\ UNCHANGED world
  BY DEF Observe
<1>2. queue.dirty \subseteq queue'.dirty /\ (Enqueued(key) => key \in queue'.dirty)
  BY <1>1, AddedWaits
<1>3. key = <<key[1], key[2]>>
  BY KeyParts
<1>4. \A k : k # key => At(lister', k) = At(lister, k)
  BY <1>1 DEF At
<1>5. At(lister', key) = At(cluster, key)
  BY <1>1 DEF At
<1>6. Keys' = Keys
  BY <1>1 DEF Keys, World
<1>7. SUFFICES ASSUME ~Late(r, queue'.dirty, lister')
               PROVE  /\ ~Late(r, queue.dirty, lister)
                      /\ EndpointsOf(r, ControllerView') = EndpointsOf(r, ControllerView)
  BY <1>6 DEF Late
<1>8. ASSUME NEW p \in Parts(r), NEW n \in p.services, key = Svc(n)
      PROVE  {o.ports : o \in At(lister', key)} = {o.ports : o \in At(lister, key)}
  <2>1. key \notin queue'.dirty
    BY <1>7, <1>8 DEF Late
  <2>2. key[1] = "Service"
    BY <1>8 DEF Svc
  <2>3. {o.ports : o \in At(cluster, key)} = {o.ports : o \in At(lister, key)}
    BY <2>1, <2>2, <1>2 DEF Enqueued
  <2> QED
    BY <2>3, <1>5
<1>9. ASSUME NEW p \in Parts(r), NEW n \in p.services
      PROVE  At(lister', Svc(n)) = {} <=> At(lister, Svc(n)) = {}
  <2>1. CASE key = Svc(n)
    BY <2>1, <1>8
  <2>2. CASE key # Svc(n)
    BY <2>2, <1>4
  <2> QED
    BY <2>1, <2>2
<1>10. ASSUME NEW p \in Parts(r), NEW n \in p.services, n \notin p.clusterIP, key = Ep(n)
       PROVE  At(lister', Svc(n)) = {} /\ At(lister, Svc(n)) = {}
  <2>1. key \in queue'.dirty
    BY <1>10, <1>2 DEF Enqueued, Ep
  <2> QED
    BY <2>1, <1>7, <1>9, <1>10 DEF Late
<1>11. ~Late(r, queue.dirty, lister)
  <2> SUFFICES ASSUME NEW p \in Parts(r), NEW n \in p.services,
                      \/ Svc(n) \in queue.dirty
                      \/ /\ n \notin p.clusterIP /\ Ep(n) \in Keys /\ At(lister, Svc(n)) # {}
                         /\ Ep(n) \in queue.dirty \/ At(lister, Ep(n)) = {}
               PROVE  FALSE
    BY DEF Late
  <2>1. CASE Svc(n) \in queue.dirty
    BY <2>1, <1>2, <1>7 DEF Late
  <2>2. CASE key = Ep(n) /\ Svc(n) \notin queue.dirty
    BY <2>2, <1>10
  <2>3. CASE key # Ep(n) /\ Svc(n) \notin queue.dirty
    <3>1. At(lister', Ep(n)) = At(lister, Ep(n)) /\ At(lister', Svc(n)) # {}
      BY <2>3, <1>4, <1>9
    <3> QED
      BY <3>1, <2>3, <1>2, <1>7 DEF Late
  <2> QED
    BY <2>1, <2>2, <2>3
<1>12. ASSUME NEW v, NEW w, NEW old, NEW new,
              v.services = OfKind(old, "Service"), w.services = OfKind(new, "Service"),
              v.endpoints = OfKind(old, "Endpoints"), w.endpoints = OfKind(new, "Endpoints"),
              <<old, new>> = <<lister, lister'>> \/ <<old, new>> = <<lister', lister>>
       PROVE  EndpointsOf(r, v) \subseteq EndpointsOf(r, w)
  <2>1. \A S, o, kind, n : o \in OfKind(S, kind) /\ o.name = n <=> o \in At(S, <<kind, n>>)
    BY DEF Key, OfKind, At
  <2>0. \A S, o, n : /\ o \in OfKind(S, "Service") /\ o.name = n <=> o \in At(S, Svc(n))
                     /\ o \in OfKind(S, "Endpoints") /\ o.name = n <=> o \in At(S, Ep(n))
    BY <2>1 DEF Svc, Ep
  <2>2. \A n, o : (o \in v.services /\ o.name = n <=> o \in At(old, Svc(n)))
             /\ (o \in w.services /\ o.name = n <=> o \in At(new, Svc(n)))
             /\ (o \in v.endpoints /\ o.name = n <=> o \in At(old, Ep(n)))
             /\ (o \in w.endpoints /\ o.name = n <=> o \in At(new, Ep(n)))
    BY <2>0, <1>12
  <2>3. ASSUME NEW p \in Parts(r), NEW s \in v.services, s.name \in p.services
        PROVE  \E t \in w.services : t.name = s.name /\ t.ports = s.ports
    <3>1. s \in At(old, Svc(s.name))
      BY <2>2
    <3>2. CASE key = Svc(s.name)
      <4>1. {o.ports : o \in At(new, key)} = {o.ports : o \in At(old, key)}
        BY <3>2, <2>3, <1>8, <1>12
      <4>2. s.ports \in {o.ports : o \in At(new, key)}
        BY <4>1, <3>1, <3>2
      <4> QED
        BY <4>2, <3>2, <2>2
    <3>3. CASE key # Svc(s.name)
      BY <3>1, <3>3, <2>2, <1>4, <1>12
    <3> QED
      BY <3>2, <3>3
  <2>4. ASSUME NEW p \in Parts(r), NEW s \in v.services, NEW e \in v.endpoints,
               s.name = e.name, e.name \in p.services \ p.clusterIP
        PROVE  e \in w.endpoints
    <3>1. s \in At(old, Svc(e.name)) /\ e \in At(old, Ep(e.name))
      BY <2>2, <2>4
    <3>2. key # Ep(e.name)
      BY <3>1, <2>4, <1>10, <1>12
    <3> QED
      BY <3>1, <3>2, <2>2, <1>4, <1>12
  <2>5. Within(r, v, w)
    BY <2>3, <2>4 DEF Within
  <2> QED
    BY <2>5, EndpointsWithin, ResourceOfWorld
<1>13. EndpointsOf(r, ControllerView') = EndpointsOf(r, ControllerView)
  <2> DEFINE v == ControllerView
             w == ControllerView'
  <2>1. /\ v.services = OfKind(lister, "Service") /\ w.services = OfKind(lister', "Service")
        /\ v.endpoints = OfKind(lister, "Endpoints") /\ w.endpoints = OfKind(lister', "Endpoints")
    BY Views
  <2> HIDE DEF v, w
  <2>2. EndpointsOf(r, v) \subseteq EndpointsOf(r, w)
    BY <2>1, <1>12
  <2>3. EndpointsOf(r, w) \subseteq EndpointsOf(r, v)
    BY <2>1, <1>12
  <2> QED
    BY <2>2, <2>3 DEF v, w
<1> QED
  BY <1>11, <1>13

\* The syncs of services and Endpoints generate the config of a late resource.
LEMMA SyncLate ==
  ASSUME WorkerOK, JobOK, NEW key \in Keys, SyncOf(key), UNCHANGED <<world, lister>>,
         queue'.dirty = queue.dirty \ {key},
         NEW r \in configured, r \in ObjectsOf(world), r.kind \in ResourceKinds,
         Late(r, queue.dirty, lister)
  PROVE  Generates(Range(job'.plan), Key(r)) \/ Late(r, queue.dirty, lister)'
<1>1. Keys' = Keys
  BY DEF Keys, World
<1> DEFINE L(p, n) == \/ Svc(n) \in queue.dirty
                      \/ /\ n \notin p.clusterIP /\ Ep(n) \in Keys /\ At(lister, Svc(n)) # {}
                         /\ Ep(n) \in queue.dirty \/ At(lister, Ep(n)) = {}
<1>0. PICK p \in Parts(r) : \E n \in p.services : L(p, n)
  BY DEF Late
<1>2. PICK n \in p.services : L(p, n)
  BY <1>0
<1>3. CASE key = Svc(n)
  <2>1. key[1] = "Service" /\ key[2] = n
    BY <1>3 DEF Svc
  <2>2. r \in FindResources(key)
    BY <2>1 DEF FindResources, RefersTo, RefersToService
  <2>3. Reloading(Range(job'.plan), Key(r))
    BY <2>1, <2>2, ServicePlan, WritesReload DEF SyncOf, ResourceKinds
  <2> QED
    BY <2>3 DEF Reloading, Generates
<1>4. CASE key = Ep(n) /\ n \notin p.clusterIP /\ At(lister, Ep(n)) # {}
  <2>1. key[1] = "Endpoints" /\ key[2] = n
    BY <1>4 DEF Ep
  <2>2. r \in FindResources(key)
    BY <2>1, <1>4 DEF FindResources, RefersTo, RefersToService
  <2> QED
    BY <2>1, <2>2, <1>4, EndpointsPlan, ResourceOfWorld DEF SyncOf, ResourceKinds
<1>5. CASE key # Svc(n) /\ (key # Ep(n) \/ n \in p.clusterIP \/ At(lister, Ep(n)) = {})
  <2>1. Late(r, queue'.dirty, lister)
    BY <1>2, <1>5 DEF Late
  <2> QED
    BY <2>1, <1>1 DEF Late
<1> QED
  BY <1>3, <1>4, <1>5

-----------------------------------------------------------------------------
(* The config files *)

\* The config file of r is right, but for its endpoints; and the endpoints are.
Right(r) == Serves(disk, store.files, r, ControllerView)
EndpointsRight(r) ==
  Key(r) \in DOMAIN disk.conf /\ disk.conf[Key(r)].endpoints = EndpointsOf(r, ControllerView)

\* Something of r is still to be synced.
Waits(r) == PolicyWaits(r, queue.dirty)
IsLate(r) == Late(r, queue.dirty, lister)

\* So are the secret files of r; so is the extended resource of r that is built.
HasSecrets(r) == SecretsThere(r, ControllerView, store.files)
BuiltRight(r) == Key(r) \in DOMAIN job.exes /\ (Waits(r) \/ Says(job.exes[Key(r)], r, ControllerView))
BuiltEndpoints(r) == IsLate(r) \/ job.exes[Key(r)].endpoints = EndpointsOf(r, ControllerView)

\* The config files and the extended resources are right, unless they are about to
\* be generated or something is still to be synced.
ConfServed == \A r \in configured : Reloading(Calls, Key(r)) \/ Waits(r) \/ Right(r)
EndpointsServed == \A r \in configured : Generates(Calls, Key(r)) \/ IsLate(r) \/ EndpointsRight(r)
BuiltServed ==
  job.built => \A s \in Calls : s.op \in Generating => \A r \in s.res :
    BuiltRight(r) /\ BuiltEndpoints(r) /\ (Waits(r) \/ HasSecrets(r))
ConfOK == ConfServed /\ EndpointsServed /\ BuiltServed

\* What is right in the next state.
LEMMA NextRight ==
  ASSUME UNCHANGED world, NEW r
  PROVE  /\ Right(r)' <=> Serves(disk', store'.files, r, ControllerView')
         /\ HasSecrets(r)' <=> SecretsThere(r, ControllerView', store'.files)
         /\ IsLate(r)' <=> Late(r, queue'.dirty, lister')
<1>1. JWTKeys(r)' = JWTKeys(r)
  BY DEF JWTKeys, World
<1>2. Keys' = Keys
  BY DEF Keys, World
<1>3. HasSecrets(r)' <=> SecretsThere(r, ControllerView', store'.files)
  BY <1>1 DEF HasSecrets, SecretsThere, Needs
<1>4. SecretsThere(r, ControllerView, store.files)' <=> SecretsThere(r, ControllerView', store'.files)
  BY <1>3 DEF HasSecrets
<1>5. Right(r)' <=> Serves(disk', store'.files, r, ControllerView')
  BY <1>4 DEF Right, Serves
<1>6. IsLate(r)' <=> Late(r, queue'.dirty, lister')
  BY <1>2 DEF IsLate, Late
<1> QED
  BY <1>3, <1>5, <1>6

LEMMA SameView ==
  ASSUME UNCHANGED <<lister, cfgParams, policies, logConfs>>, ValidIn(store') = ValidIn(store)
  PROVE  ControllerView' = ControllerView
<1>1. ApInForce' = ApInForce
  BY DEF ApInForce
<1> DEFINE view(S, P, A, V, E, C) ==
             [secrets |-> S, policies |-> P, ap |-> A, services |-> V, endpoints |-> E, params |-> C]
<1>2. ControllerView = view(ValidIn(store), AllPolicies(lister), ApInForce, OfKind(lister, "Service"),
                            OfKind(lister, "Endpoints"), cfgParams)
  BY Zenon DEF ControllerView, ValidIn, ApInForce, ValidObjects
<1>3. ControllerView' = view(ValidIn(store'), AllPolicies(lister'), ApInForce', OfKind(lister', "Service"),
                            OfKind(lister', "Endpoints"), cfgParams')
  BY Zenon DEF ControllerView, ValidIn, ApInForce, ValidObjects
<1> HIDE DEF view
<1> QED
  BY <1>1, <1>2, <1>3

\* A resource for which nothing changes stays right.
LEMMA RightKept ==
  ASSUME NEW r, SameNext(r), UNCHANGED <<world, disk>>, Right(r)
  PROVE  Right(r)'
<1>1. Serves(disk, store.files, r, ControllerView')
  BY ServesSame DEF SameNext, Right
<1>2. SecretsThere(r, ControllerView', store'.files)
  BY <1>1 DEF Serves, SameNext, FilesKept
<1>3. Serves(disk', store'.files, r, ControllerView')
  BY <1>1, <1>2 DEF Serves
<1> QED
  BY <1>3, NextRight

LEMMA EndpointsKeptRight ==
  ASSUME NEW r, UNCHANGED <<disk, lister>>
  PROVE  /\ EndpointsOf(r, ControllerView') = EndpointsOf(r, ControllerView)
         /\ EndpointsRight(r)' <=> EndpointsRight(r)
<1>1. EndpointsOf(r, ControllerView') = EndpointsOf(r, ControllerView)
  BY Views, EndpointsSame
<1> QED
  BY <1>1 DEF EndpointsRight

LEMMA SyncConf ==
  ASSUME TypesOK, ReferencesInv, KnownOK, ConfOK, StartSync
  PROVE  ConfOK'
<1>1. WorkerOK /\ VersionsOK /\ JobOK /\ QueueOpen /\ StoreOK /\ CallsOK /\ APInv /\ ApStored
  BY DEF TypesOK, ReferencesInv, KnownOK
<1>2. PICK key \in Keys :
        /\ SyncOf(key) /\ queue'.dirty = queue.dirty \ {key} /\ UNCHANGED <<world, lister, disk>>
        /\ Calls = {} /\ job'.built = FALSE
  BY <1>1, StartsSync
<1>3. ASSUME NEW r \in configured'
      PROVE  \/ Reloading(Calls', Key(r))
             \/ SameNext(r) /\ r \in configured /\ (Waits(r) => Waits(r)')
  <2>1. \/ Reloading(Range(job'.plan), Key(r))
        \/ SameNext(r) /\ (PolicyWaits(r, queue.dirty) => PolicyWaits(r, queue'.dirty))
    BY <1>1, <1>2, SyncSame
  <2> QED
    BY <2>1 DEF Calls, Waits, SameNext, PolicyWaits
<1>4. \A k : ~Reloading(Calls, k) /\ ~Generates(Calls, k)
  BY <1>2 DEF Reloading, Generates
<1>5. ConfServed'
  <2> SUFFICES ASSUME NEW r \in configured' PROVE Reloading(Calls', Key(r)) \/ Waits(r)' \/ Right(r)'
    BY DEF ConfServed, Reloading
  <2> QED
    BY <1>2, <1>3, <1>4, RightKept DEF ConfOK, ConfServed
<1>6. EndpointsServed'
  <2> SUFFICES ASSUME NEW r \in configured'
               PROVE  Generates(Calls', Key(r)) \/ IsLate(r)' \/ EndpointsRight(r)'
    BY DEF EndpointsServed, Generates
  <2>1. Reloading(Calls', Key(r)) => Generates(Calls', Key(r))
    BY DEF Reloading, Generates
  <2>2. SUFFICES ASSUME r \in configured PROVE Generates(Calls', Key(r)) \/ IsLate(r)' \/ EndpointsRight(r)'
    BY <2>1, <1>3
  <2>3. r \in ObjectsOf(world) /\ r.kind \in ResourceKinds
    BY <2>2, <1>1 DEF JobOK, CallsOK
  <2>4. IsLate(r) \/ EndpointsRight(r)
    BY <2>2, <1>4 DEF ConfOK, EndpointsServed
  <2>5. CASE IsLate(r)
    BY <2>2, <2>3, <2>5, <1>1, <1>2, SyncLate DEF IsLate, Calls
  <2>6. CASE EndpointsRight(r)
    BY <2>6, <1>2, EndpointsKeptRight
  <2> QED
    BY <2>4, <2>5, <2>6
<1>7. BuiltServed'
  BY <1>2 DEF BuiltServed
<1> QED
  BY <1>5, <1>6, <1>7 DEF ConfOK

\* What an informer brings up to date changes nothing for a resource, or a policy
\* of it is queued.
LEMMA ObserveSame ==
  ASSUME WorkerOK, QueueOpen, Observe, NEW r \in configured
  PROVE  Waits(r)' \/ (~Waits(r) /\ SameNext(r))
<1>1. [Next]_allVars /\ ~StartSync
  BY DEF Next, Observe, StartSync, Get, CanGet, WorkerOK
<1>2. queue.dirty \subseteq queue'.dirty
  BY <1>1, WaitingTasks
<1>3. UNCHANGED <<store, configured, cfgParams, policies, logConfs>>
  BY DEF Observe, cnf, apVars
<1>4. SUFFICES ASSUME ~PolicyWaits(r, queue'.dirty) PROVE ~Waits(r) /\ SameNext(r)
  BY DEF Waits, PolicyWaits
<1>5. ~Waits(r)
  BY <1>2, <1>4 DEF Waits, PolicyWaits
<1>6. PoliciesNow(r, lister') = PoliciesNow(r, lister)
  BY <1>4, ObservedPolicies
<1> DEFINE v == ControllerView
           w == ControllerView'
<1>7. /\ w.secrets = v.secrets /\ w.ap = v.ap /\ w.params = v.params
      /\ v.policies = AllPolicies(lister) /\ w.policies = AllPolicies(lister')
  BY <1>3, Views DEF ApInForce
<1> HIDE DEF v, w
<1>8. PoliciesOf(r, w) = PoliciesOf(r, v)
  BY <1>6, <1>7 DEF PoliciesNow, PoliciesOf
<1>9. SameFor(r, v, w)
  BY <1>7, <1>8 DEF SameFor
<1> QED
  BY <1>3, <1>5, <1>9 DEF SameNext, FilesKept, v, w

LEMMA ObserveConf ==
  ASSUME TypesOK, ReferencesInv, ConfOK, Observe
  PROVE  ConfOK'
<1>1. WorkerOK /\ JobOK /\ QueueOpen /\ CallsOK
  BY DEF TypesOK, ReferencesInv
<1>2. UNCHANGED <<world, job, disk, store, configured>>
  BY DEF Observe, cnf, nginx
<1>3. Calls' = Calls
  BY <1>2 DEF Calls
<1>4. ASSUME NEW r \in configured
      PROVE  IsLate(r)' \/ (~IsLate(r) /\ EndpointsOf(r, ControllerView') = EndpointsOf(r, ControllerView))
  <2>1. r \in ObjectsOf(world) /\ r.kind \in ResourceKinds
    BY <1>1 DEF JobOK, CallsOK
  <2> QED
    BY <2>1, <1>1, ObserveLate DEF IsLate
<1>5. ConfServed'
  <2> SUFFICES ASSUME NEW r \in configured PROVE Reloading(Calls, Key(r)) \/ Waits(r)' \/ Right(r)'
    BY <1>2, <1>3 DEF ConfServed, Reloading
  <2> QED
    BY <1>1, <1>2, ObserveSame, RightKept DEF ConfOK, ConfServed
<1>6. EndpointsServed'
  <2> SUFFICES ASSUME NEW r \in configured
               PROVE  Generates(Calls, Key(r)) \/ IsLate(r)' \/ EndpointsRight(r)'
    BY <1>2, <1>3 DEF EndpointsServed, Generates
  <2> QED
    BY <1>2, <1>4 DEF ConfOK, EndpointsServed, EndpointsRight
<1>7. BuiltServed'
  <2> SUFFICES ASSUME job.built, NEW s \in Calls, s.op \in Generating, NEW r \in s.res
               PROVE  BuiltRight(r)' /\ BuiltEndpoints(r)' /\ (Waits(r)' \/ HasSecrets(r)')
    BY <1>2, <1>3 DEF BuiltServed
  <2>1. BuiltRight(r) /\ BuiltEndpoints(r) /\ (Waits(r) \/ HasSecrets(r))
    BY DEF ConfOK, BuiltServed
  <2>2. r \in configured
    BY <1>1 DEF CallsOK, Calls
  <2>3. BuiltEndpoints(r)'
    BY <2>1, <2>2, <1>2, <1>4 DEF BuiltEndpoints
  <2>4. CASE Waits(r)'
    BY <2>1, <2>3, <2>4, <1>2 DEF BuiltRight
  <2>5. CASE ~Waits(r) /\ SameNext(r)
    <3>1. Says(job.exes[Key(r)], r, ControllerView')
      BY <2>1, <2>5, SaysSame DEF BuiltRight, SameNext
    <3>2. SecretsThere(r, ControllerView', store'.files)
      <4>1. SecretsThere(r, ControllerView', store.files)
        BY <2>1, <2>5, SameNeeds DEF HasSecrets, SecretsThere, SameNext, SameFor
      <4> QED
        BY <4>1, <2>5 DEF SameNext, FilesKept
    <3>3. HasSecrets(r)'
      BY <3>2, <1>2, NextRight
    <3> QED
      BY <3>1, <3>3, <2>1, <2>3, <1>2 DEF BuiltRight
  <2> QED
    BY <2>2, <2>4, <2>5, <1>1, ObserveSame
<1> QED
  BY <1>5, <1>6, <1>7 DEF ConfOK

\* What createExtendedResources builds and fetches.
LEMMA BuildIs ==
  ASSUME WorkerOK, JobOK, StoreOK, CallsOK, OnePerKey(configured), Build
  PROVE  /\ UNCHANGED <<world, lister, queue, configured, disk, cfgParams, policies, logConfs>>
         /\ Calls' = Calls /\ ValidIn(store') = ValidIn(store) /\ DOMAIN store.files \subseteq DOMAIN store'.files
         /\ \A s \in Calls : \A r \in s.res :
              /\ Key(r) \in DOMAIN job'.exes /\ job'.exes[Key(r)] = Ex(r, ControllerView)
              /\ \A t \in ValidIn(store) : HasFile(t) /\ Needs(r, t, ControllerView) =>
                   FileName(t.name) \in DOMAIN store'.files
<1> DEFINE view == ControllerView
           res == UNION {job.plan[i].res : i \in DOMAIN job.plan}
           names == UNION {{u[1] : u \in SecretsOf(r, view)} \cup JWTKeys(r) : r \in res}
           jwt == UNION {JWTKeys(r) : r \in res}
           ex(k) == Ex(CHOOSE r \in At(res, k) : TRUE, view)
<1>1. /\ store' = SetPaths(GetSecrets(store, names), jwt) /\ store' = FetchSecrets(store, res, view)
      /\ job' = [job EXCEPT !.built = TRUE, !.exes = [k \in {Key(r) : r \in res} |-> ex(k)]]
      /\ UNCHANGED <<world, lister, queue, configured, disk, cfgParams, policies, logConfs>>
  BY DEF Build, FetchSecrets, nginx, apVars
<1>2. job'.plan = job.plan /\ job'.exes = [k \in {Key(r) : r \in res} |-> ex(k)]
  BY <1>1 DEF JobOK
<1>3. res = UNION {s.res : s \in Range(job.plan)}
  BY DEF Range
<1>4. res \subseteq configured
  BY <1>3 DEF CallsOK
<1> HIDE DEF res, jwt
<1>5. /\ DOMAIN store.files \subseteq DOMAIN store'.files
      /\ \A k \in names \cap DOMAIN store.refs :
           ValidateSecret(store.refs[k].secret) /\ HasFile(store.refs[k].secret) =>
             FileName(k) \in DOMAIN store'.files
  <2> HIDE DEF names
  <2> QED
    BY <1>1, FetchedFiles DEF StoreOK
<1>6. ValidIn(store') = ValidIn(store)
  BY <1>1, SecretsFetched DEF StoreOK
<1>7. ASSUME NEW s \in Calls, NEW r \in s.res
      PROVE  /\ Key(r) \in DOMAIN job'.exes /\ job'.exes[Key(r)] = Ex(r, view)
             /\ \A t \in ValidIn(store) : HasFile(t) /\ Needs(r, t, view) => FileName(t.name) \in DOMAIN store'.files
  <2>1. r \in res
    BY <1>3 DEF Calls
  <2>2. r \in At(res, Key(r)) /\ \A q \in At(res, Key(r)) : q = r
    BY <2>1, <1>4 DEF At, OnePerKey
  <2>3. (CHOOSE q \in At(res, Key(r)) : TRUE) = r
    BY <2>2
  <2>4. Key(r) \in DOMAIN job'.exes /\ job'.exes[Key(r)] = ex(Key(r))
    BY <2>1, <1>2
  <2>5. ex(Key(r)) = Ex(r, view)
    BY <2>3
  <2>6. ASSUME NEW t \in ValidIn(store), HasFile(t), Needs(r, t, view) PROVE FileName(t.name) \in DOMAIN store'.files
    <3>1. PICK k \in DOMAIN store.refs : t = store.refs[k].secret /\ ValidateSecret(t)
      BY DEF ValidIn
    <3>2. t.name = k
      BY <3>1 DEF StoreOK, IsStore
    <3>3. <<t.name, t.type>>[1] = t.name
      OBVIOUS
    <3> HIDE DEF view
    <3>4. t.name \in names
      BY <2>1, <2>6, <3>3 DEF Needs
    <3> QED
      BY <3>1, <3>2, <3>4, <2>6, <1>5
  <2> QED
    BY <2>4, <2>5, <2>6
<1> QED
  BY <1>1, <1>2, <1>5, <1>6, <1>7 DEF Calls

LEMMA BuildConf ==
  ASSUME TypesOK, ReferencesInv, KnownOK, ConfOK, Build
  PROVE  ConfOK'
<1>1. WorkerOK /\ JobOK /\ StoreOK /\ CallsOK /\ OnePerKey(configured)
  BY DEF TypesOK, ReferencesInv, KnownOK
<1>2. /\ UNCHANGED <<world, lister, queue, configured, disk, cfgParams, policies, logConfs>>
      /\ Calls' = Calls /\ ValidIn(store') = ValidIn(store) /\ DOMAIN store.files \subseteq DOMAIN store'.files
  BY <1>1, BuildIs
<1>3. \A s \in Calls : \A r \in s.res :
        /\ Key(r) \in DOMAIN job'.exes /\ job'.exes[Key(r)] = Ex(r, ControllerView)
        /\ \A t \in ValidIn(store) : HasFile(t) /\ Needs(r, t, ControllerView) =>
             FileName(t.name) \in DOMAIN store'.files
  BY <1>1, BuildIs
<1>4. ControllerView' = ControllerView
  BY <1>2, SameView
<1>5. StoreOK' /\ SecretsOK(SecretsOfWorld) /\ SecretsOfWorld' = SecretsOfWorld
  BY <1>1, <1>2, BuildOK, SecretsOfWorldOK DEF SecretsOfWorld, ObjectsOf
<1>6. ASSUME NEW t \in ValidIn(store), FileName(t.name) \in DOMAIN store'.files
      PROVE  store'.files[FileName(t.name)] = t
  <2>1. IsStore(store', SecretsOfWorld) /\ Current(store')
    BY <1>5 DEF StoreOK
  <2> QED
    BY <2>1, <1>2, <1>5, <1>6, FileIsCurrent
<1>7. ControllerView.secrets = ValidIn(store)
  BY Views
<1>8. ASSUME NEW r \in configured PROVE SameNext(r)
  <2>1. SameFor(r, ControllerView, ControllerView')
    BY <1>4, ViewsAgree
  <2>2. SecretsThere(r, ControllerView, store.files) => SecretsThere(r, ControllerView, store'.files)
    BY <1>2, <1>6, <1>7 DEF SecretsThere
  <2> QED
    BY <2>1, <2>2, <1>4 DEF SameNext, FilesKept
<1>9. ConfServed'
  <2> SUFFICES ASSUME NEW r \in configured PROVE Reloading(Calls, Key(r)) \/ Waits(r)' \/ Right(r)'
    BY <1>2 DEF ConfServed, Reloading
  <2> QED
    BY <1>2, <1>8, RightKept DEF ConfOK, ConfServed, Waits
<1>10. \A r : IsLate(r)' <=> IsLate(r)
  BY <1>2, NextRight DEF IsLate
<1>11. EndpointsServed'
  <2> SUFFICES ASSUME NEW r \in configured
               PROVE  Generates(Calls, Key(r)) \/ IsLate(r)' \/ EndpointsRight(r)'
    BY <1>2 DEF EndpointsServed, Generates
  <2> QED
    BY <1>2, <1>10, EndpointsKeptRight DEF ConfOK, EndpointsServed
<1>12. BuiltServed'
  <2> SUFFICES ASSUME NEW s \in Calls, NEW r \in s.res
               PROVE  BuiltRight(r)' /\ BuiltEndpoints(r)' /\ HasSecrets(r)'
    BY <1>2 DEF BuiltServed
  <2>1. Key(r) \in DOMAIN job'.exes /\ job'.exes[Key(r)] = Ex(r, ControllerView)
    BY <1>3
  <2>2. Says(job'.exes[Key(r)], r, ControllerView) /\ job'.exes[Key(r)].endpoints = EndpointsOf(r, ControllerView)
    BY <2>1, ViewsAgree
  <2>3. SecretsThere(r, ControllerView, store'.files)
    BY <1>3, <1>6, <1>7 DEF SecretsThere
  <2>4. HasSecrets(r)'
    BY <2>3, <1>2, <1>4, NextRight
  <2> QED
    BY <2>1, <2>2, <2>4, <1>4 DEF BuiltRight, BuiltEndpoints
<1> QED
  BY <1>9, <1>11, <1>12 DEF ConfOK

\* Steps that leave the worker's data alone.
LEMMA IdleConf ==
  ASSUME ConfOK, UNCHANGED <<world, configured, disk, store, lister, cfgParams, policies, logConfs>>,
         queue'.dirty = queue.dirty, Calls' = Calls, job'.built => job.built /\ job'.exes = job.exes
  PROVE  ConfOK'
<1>1. ControllerView' = ControllerView
  BY SameView
<1>2. ASSUME NEW r
      PROVE  /\ Right(r)' <=> Right(r)
             /\ HasSecrets(r)' <=> HasSecrets(r)
             /\ IsLate(r)' <=> IsLate(r)
             /\ EndpointsRight(r)' <=> EndpointsRight(r)
             /\ Waits(r)' <=> Waits(r)
  BY <1>1, NextRight DEF Right, HasSecrets, IsLate, EndpointsRight, Waits
<1>3. ConfServed' /\ EndpointsServed'
  BY <1>2 DEF ConfOK, ConfServed, EndpointsServed
<1>4. BuiltServed'
  BY <1>1, <1>2 DEF ConfOK, BuiltServed, BuiltRight, BuiltEndpoints
<1> QED
  BY <1>3, <1>4 DEF ConfOK

\* The App Protect resource a is in its file.
InFile(files, a) == Key(a) \in DOMAIN files /\ files[Key(a)] = a

\* The config files and the App Protect files after a call.
LEMMA CallFiles ==
  ASSUME DiskOK, OnePerKey(ApInForce), OnePerKey(configured), CallsOK, CallsNow, Call, This \in Calls
  PROVE  /\ \A a \in ApInForce : InFile(disk.ap, a) => InFile(disk'.ap, a)
         /\ This.op \in Generating => \A r \in This.res :
              /\ Key(r) \in DOMAIN disk'.conf /\ disk'.conf[Key(r)] = job.exes[Key(r)]
              /\ \A a \in ApInForce : Key(a) \in job.exes[Key(r)].ap => InFile(disk'.ap, a)
         /\ \A r \in configured : (This.op \in Generating => r \notin This.res) /\ Key(r) \in DOMAIN disk.conf =>
              Key(r) \in DOMAIN disk'.conf /\ disk'.conf[Key(r)] = disk.conf[Key(r)]
<1>1. CASE This.op \in Generating
  <2> DEFINE exes == [k \in {Key(r) : r \in This.res} |-> job.exes[k]]
  <2>1. disk' = Written(This)
    BY <1>1, CallWrites
  <2>2. disk'.conf = Override(disk.conf, exes)
    BY <2>1, <1>1, WrittenParts
  <2>3. /\ DOMAIN disk'.conf = DOMAIN disk.conf \cup {Key(r) : r \in This.res}
        /\ \A k \in DOMAIN disk'.conf :
             disk'.conf[k] = IF k \in {Key(r) : r \in This.res} THEN job.exes[k] ELSE disk.conf[k]
    BY <2>2 DEF Override
  <2>4. This.res \subseteq configured
    BY DEF CallsOK, Calls
  <2>5. \A r \in configured : r \notin This.res => Key(r) \notin {Key(q) : q \in This.res}
    BY <2>4 DEF OnePerKey
  <2>6. \A a \in ApInForce :
          (\E r \in This.res : Key(a) \in job.exes[Key(r)].ap)
            \/ (InFile(disk.ap, a) /\ (This.op = "write" => Key(a) \notin This.arg)) => InFile(disk'.ap, a)
    BY <2>1, <1>1, WrittenMore DEF InFile
  <2>7. \A a \in ApInForce : This.op = "write" => Key(a) \notin This.arg
    BY DEF CallsNow
  <2> QED
    BY <1>1, <2>3, <2>5, <2>6, <2>7
<1>2. CASE This.op = "delete"
  <2> DEFINE c == [k \in DOMAIN disk.conf \ This.arg |-> disk.conf[k]]
  <2>1. disk' = [disk EXCEPT !.conf = c]
    BY <1>2, CallWrites
  <2>2. DOMAIN c = DOMAIN disk.conf \ This.arg /\ \A k \in DOMAIN c : c[k] = disk.conf[k]
    OBVIOUS
  <2> HIDE DEF c
  <2>3. disk'.conf = c /\ disk'.ap = disk.ap
    BY <2>1 DEF DiskOK
  <2>4. \A r \in configured : Key(r) \notin This.arg
    BY <1>2 DEF CallsNow
  <2> QED
    BY <2>2, <2>3, <2>4, <1>2 DEF Generating
<1>3. CASE This.op \in {"special", "report"}
  <2>1. disk' = disk \/ disk' = [disk EXCEPT !.special = This.arg]
    BY <1>3, CallWrites
  <2>2. disk'.conf = disk.conf /\ disk'.ap = disk.ap
    BY <2>1 DEF DiskOK
  <2> QED
    BY <2>2, <1>3 DEF Generating
<1> QED
  BY <1>1, <1>2, <1>3, CallWrites DEF PlanOps, Generating

\* What an extended resource that is right names.
LEMMA SaysAp ==
  ASSUME NEW x, NEW r, NEW v, Says(x, r, v)
  PROVE  \A a \in v.ap : Key(a) \in AppProtectOf(r, v) => Key(a) \in x.ap
<1>1. x.ap = {Key(o) : o \in {a \in v.ap : Key(a) \in AppProtectOf(r, v)}}
  BY DEF Says
<1> QED
  BY <1>1

LEMMA CallConf ==
  ASSUME TypesOK, ReferencesInv, KnownOK, MainOK, ConfOK, Call
  PROVE  ConfOK'
<1>1. /\ WorkerOK /\ JobOK /\ DiskOK /\ StoreOK /\ ExesOK /\ CallsOK /\ OnePerKey(configured) /\ CallsNow
      /\ OnePerKey(ApInForce)
  BY ApOnePerKey DEF TypesOK, ReferencesInv, KnownOK, MainOK
<1>2. /\ This \in Calls /\ Calls = {This} \cup Calls'
      /\ job'.built = job.built /\ job'.exes = job.exes
      /\ UNCHANGED <<world, lister, queue, configured, store, cfgParams, policies, logConfs>>
  BY <1>1, CallTaken
<1>3. ControllerView' = ControllerView /\ ControllerView.ap = ApInForce
  BY <1>2, SameView, Views
<1>4. \A a \in ApInForce : InFile(disk.ap, a) => InFile(disk'.ap, a)
  BY <1>1, <1>2, CallFiles
<1>5. ASSUME This.op \in Generating, NEW r \in This.res
      PROVE  /\ Key(r) \in DOMAIN disk'.conf /\ disk'.conf[Key(r)] = job.exes[Key(r)]
             /\ \A a \in ApInForce : Key(a) \in job.exes[Key(r)].ap => InFile(disk'.ap, a)
             /\ BuiltRight(r) /\ BuiltEndpoints(r) /\ (Waits(r) \/ HasSecrets(r))
  <2>1. job.built
    BY <1>1, <1>5, CallWrites
  <2>2. BuiltRight(r) /\ BuiltEndpoints(r) /\ (Waits(r) \/ HasSecrets(r))
    BY <2>1, <1>2, <1>5 DEF ConfOK, BuiltServed
  <2> QED
    BY <2>2, <1>1, <1>2, <1>5, CallFiles
<1>6. ASSUME NEW r \in configured, This.op \in Generating => r \notin This.res, Key(r) \in DOMAIN disk.conf
      PROVE  Key(r) \in DOMAIN disk'.conf /\ disk'.conf[Key(r)] = disk.conf[Key(r)]
  BY <1>1, <1>2, <1>6, CallFiles
<1>7. ASSUME NEW r \in configured, This.op \in Generating => r \notin This.res
      PROVE  /\ Reloading(Calls, Key(r)) => Reloading(Calls', Key(r))
             /\ Generates(Calls, Key(r)) => Generates(Calls', Key(r))
  <2>1. This.op \in Generating => \A q \in This.res : Key(q) # Key(r)
    BY <1>1, <1>2, <1>7 DEF CallsOK, Calls, OnePerKey
  <2> QED
    BY <2>1, <1>2 DEF Reloading, Generates
<1>8. \A r : /\ Waits(r)' <=> Waits(r)
             /\ IsLate(r)' <=> IsLate(r)
             /\ HasSecrets(r)' <=> HasSecrets(r)
  BY <1>2, <1>3, NextRight DEF Waits, IsLate, HasSecrets
<1>9. ConfServed'
  <2> SUFFICES ASSUME NEW r \in configured PROVE Reloading(Calls', Key(r)) \/ Waits(r) \/ Right(r)'
    BY <1>2, <1>8 DEF ConfServed, Reloading
  <2>1. SUFFICES ASSUME ~Reloading(Calls', Key(r)), ~Waits(r)
                 PROVE  Serves(disk', store'.files, r, ControllerView')
    BY <1>2, NextRight
  <2>2. CASE This.op \in Generating /\ r \in This.res
    <3>1. Says(disk'.conf[Key(r)], r, ControllerView) /\ Key(r) \in DOMAIN disk'.conf
      BY <2>1, <2>2, <1>5 DEF BuiltRight
    <3>2. SecretsThere(r, ControllerView, store.files)
      BY <2>1, <2>2, <1>5 DEF HasSecrets
    <3>3. AppProtectThere(r, ControllerView, disk'.ap)
      BY <3>1, <2>2, <1>3, <1>5, SaysAp DEF AppProtectThere, InFile
    <3> QED
      BY <3>1, <3>2, <3>3, <1>2, <1>3 DEF Serves
  <2>3. CASE This.op \in Generating => r \notin This.res
    <3>1. Serves(disk, store.files, r, ControllerView)
      BY <2>1, <2>3, <1>7 DEF ConfOK, ConfServed, Right
    <3>2. AppProtectThere(r, ControllerView, disk'.ap)
      BY <3>1, <1>3, <1>4 DEF Serves, AppProtectThere, InFile
    <3>3. Key(r) \in DOMAIN disk'.conf /\ disk'.conf[Key(r)] = disk.conf[Key(r)]
      BY <3>1, <2>3, <1>6 DEF Serves
    <3> QED
      BY <3>1, <3>2, <3>3, <1>2, <1>3 DEF Serves
  <2> QED
    BY <2>2, <2>3
<1>10. EndpointsServed'
  <2> SUFFICES ASSUME NEW r \in configured, ~Generates(Calls', Key(r)), ~IsLate(r)
               PROVE  EndpointsRight(r)'
    BY <1>2, <1>8 DEF EndpointsServed, Generates
  <2>1. CASE This.op \in Generating /\ r \in This.res
    BY <2>1, <1>3, <1>5 DEF BuiltEndpoints, EndpointsRight
  <2>2. CASE This.op \in Generating => r \notin This.res
    <3>1. EndpointsRight(r)
      BY <2>2, <1>7 DEF ConfOK, EndpointsServed
    <3> QED
      BY <3>1, <2>2, <1>3, <1>6 DEF EndpointsRight
  <2> QED
    BY <2>1, <2>2
<1>11. BuiltServed'
  <2> SUFFICES ASSUME job.built, NEW s \in Calls', s.op \in Generating, NEW r \in s.res
               PROVE  BuiltRight(r)' /\ BuiltEndpoints(r)' /\ (Waits(r)' \/ HasSecrets(r)')
    BY <1>2 DEF BuiltServed
  <2>1. BuiltRight(r) /\ BuiltEndpoints(r) /\ (Waits(r) \/ HasSecrets(r))
    BY <1>2 DEF ConfOK, BuiltServed
  <2> QED
    BY <2>1, <1>2, <1>3, <1>8 DEF BuiltRight, BuiltEndpoints
<1> QED
  BY <1>9, <1>10, <1>11 DEF ConfOK

LEMMA ConfStep ==
  ASSUME TypesOK, ReferencesInv, KnownOK, MainOK, ConfOK, [Next]_allVars
  PROVE  ConfOK'
<1>1. WorkerOK /\ JobOK /\ QueueOpen
  BY DEF TypesOK, ReferencesInv
<1>2. CASE StartSync
  BY <1>2, SyncConf
<1>3. CASE Call
  BY <1>3, CallConf
<1>4. CASE Observe
  BY <1>4, ObserveConf
<1>5. CASE Build
  BY <1>5, BuildConf
<1>6. CASE ~StartSync /\ ~Call /\ ~Observe /\ ~Build
  <2>1. /\ UNCHANGED <<world, configured, cfgParams, policies, logConfs, lister>> /\ queue'.dirty = queue.dirty
        /\ FinishSync \/ UNCHANGED <<job, disk, store>>
    BY <1>1, <1>6, StepKinds, QuietStep, WaitingTasks
  <2>2. CASE FinishSync
    <3>1. /\ job.plan = <<>> /\ job' = IdleJob /\ UNCHANGED <<disk, store>>
      BY <2>2 DEF FinishSync, cnf, nginx
    <3>2. job'.plan = job.plan /\ job'.built = FALSE
      BY <3>1 DEF IdleJob, Job
    <3>3. Calls' = Calls
      BY <3>2 DEF Calls
    <3> QED
      BY <3>1, <3>2, <3>3, <2>1, IdleConf
  <2>3. CASE UNCHANGED <<job, disk, store>>
    BY <2>3, <2>1, IdleConf DEF Calls
  <2> QED
    BY <2>1, <2>2, <2>3
<1> QED
  BY <1>2, <1>3, <1>4, <1>5, <1>6

LEMMA ConfInit == Init => ConfOK
<1> SUFFICES ASSUME Init PROVE ConfOK
  OBVIOUS
<1>1. configured = {} /\ job.built = FALSE
  BY DEF Init, IdleJob, Job
<1> QED
  BY <1>1 DEF ConfOK, ConfServed, EndpointsServed, BuiltServed

-----------------------------------------------------------------------------
(* What NGINX runs with *)

\* A call that reloads NGINX is left, or a policy is still to be synced.
Debt == (\E s \in Calls : s.op \in ReloadOps) \/ \E r \in configured : Waits(r)

\* Otherwise the config files are right, and a reload can load them.
Loadable ==
  /\ \A r \in configured : Right(r)
  /\ DOMAIN disk.conf = {Key(r) : r \in configured}
  /\ ~Dangling(disk, store.files)
DebtOrLoadable == Debt \/ Loadable

LEMMA LoadableNow == TypesOK /\ ReferencesInv /\ ConfOK => DebtOrLoadable
<1> SUFFICES ASSUME TypesOK, ReferencesInv, ConfOK, ~Debt PROVE Loadable
  BY DEF DebtOrLoadable
<1>1. WorkerOK /\ StoreOK /\ RefsOK /\ CallsOK
  BY DEF TypesOK, ReferencesInv
<1>2. \A k : ~Reloading(Calls, k)
  BY DEF Debt, Reloading, ReloadOps, Generating
<1>3. ASSUME NEW r \in configured PROVE Right(r)
  BY <1>2 DEF Debt, ConfOK, ConfServed
<1>4. ASSUME NEW k \in DOMAIN disk.conf PROVE \E r \in configured : k = Key(r)
  <2>1. Rewritten(Calls, k) \/ Placed(disk.conf[k], k, configured)
    BY <1>1 DEF RefsOK, Calls
  <2>2. CASE Placed(disk.conf[k], k, configured)
    BY <2>2 DEF Placed
  <2>3. CASE Rewritten(Calls, k)
    <3>1. Generates(Calls, k)
      BY <2>3 DEF Rewritten, Debt, ReloadOps
    <3> QED
      BY <3>1, <1>1 DEF Generates, CallsOK, Calls
  <2> QED
    BY <2>1, <2>2, <2>3
<1>5. DOMAIN disk.conf = {Key(r) : r \in configured}
  BY <1>3, <1>4 DEF Right, Serves
<1>6. ASSUME NEW k \in DOMAIN disk.conf
      PROVE  /\ \A s \in disk.conf[k].secrets : HasFile(s) => FileName(s.name) \in DOMAIN store.files
             /\ \A a \in disk.conf[k].ap : a \in DOMAIN disk.ap
  <2> DEFINE v == ControllerView
             x == disk.conf[k]
  <2>1. PICK r \in configured : k = Key(r)
    BY <1>4
  <2>2. Says(x, r, v) /\ SecretsThere(r, v, store.files) /\ AppProtectThere(r, v, disk.ap)
    BY <2>1, <1>3 DEF Right, Serves
  <2>3. v.secrets = ValidIn(store)
    BY Views
  <2> HIDE DEF v, x
  <2>4. /\ x.secrets = {Mention(s) : s \in {t \in v.secrets : <<t.name, t.type>> \in SecretsOf(r, v)}}
        /\ x.ap = {Key(o) : o \in {a \in v.ap : Key(a) \in AppProtectOf(r, v)}}
    BY <2>2 DEF Says
  <2>5. ASSUME NEW s \in x.secrets, HasFile(s) PROVE FileName(s.name) \in DOMAIN store.files
    <3>1. PICK t \in v.secrets : <<t.name, t.type>> \in SecretsOf(r, v) /\ s = Mention(t)
      BY <2>4
    <3>2. t \in SecretsOfWorld
      BY <2>3, <1>1 DEF ValidIn, StoreOK, IsStore
    <3>3. s.name = t.name /\ s.type = t.type
      BY <3>1, <3>2, <1>1, MentionOK
    <3> QED
      BY <3>1, <3>3, <2>2, <2>5 DEF HasFile, SecretsThere, Needs
  <2>6. \A a \in x.ap : a \in DOMAIN disk.ap
    BY <2>2, <2>4 DEF AppProtectThere
  <2> QED
    BY <2>5, <2>6 DEF x
<1>7. ~Dangling(disk, store.files)
  BY <1>6 DEF Dangling
<1> QED
  BY <1>3, <1>5, <1>7 DEF Loadable

\* The parts of the config files.
IsDisk(d) == d = [conf |-> d.conf, ap |-> d.ap, sigs |-> d.sigs, params |-> d.params, special |-> d.special]
FilesOK == IsDisk(running.disk) /\ \A next \in loading : IsDisk(next.disk)

\* NGINX serves r as the objects call for when it runs with the configuration c.
ServedBy(c, r) == Serves(c.disk, c.files, r, ControllerView)

\* The configuration that NGINX runs with is that of the files.
RunsFiles ==
  /\ running.disk.params = disk.params /\ running.disk.sigs = disk.sigs /\ running.disk.special = disk.special
  /\ DOMAIN running.disk.conf = DOMAIN disk.conf
  /\ \A r \in configured :
       ServedBy(running, r) /\ running.disk.conf[Key(r)].endpoints = disk.conf[Key(r)].endpoints

RunningOK == reload = "ok" /\ ~Debt => RunsFiles

\* So is the one that it has still to load after a reload that timed out.
LoadingOK ==
  \A next \in loading :
    /\ reload = "failed"
    /\ next.disk = disk /\ ~Debt => \A r \in configured : ServedBy(next, r)

NginxOK == FilesOK /\ RunningOK /\ LoadingOK

LEMMA NextServedBy ==
  ASSUME UNCHANGED world, NEW r
  PROVE  /\ \A c : ServedBy(c, r)' <=> Serves(c.disk, c.files, r, ControllerView')
         /\ ServedBy(running, r)' <=> Serves(running'.disk, running'.files, r, ControllerView')
<1>1. JWTKeys(r)' = JWTKeys(r)
  BY DEF JWTKeys, World
<1>2. SecretsThere(r, ControllerView, running.files)' <=> SecretsThere(r, ControllerView', running'.files)
  BY <1>1 DEF SecretsThere, Needs
<1>3. \A c : SecretsThere(r, ControllerView, c.files)' <=> SecretsThere(r, ControllerView', c.files)
  BY <1>1 DEF SecretsThere, Needs
<1>4. ServedBy(running, r)' <=> Serves(running'.disk, running'.files, r, ControllerView')
  BY <1>2 DEF ServedBy, Serves
<1>5. \A c : ServedBy(c, r)' <=> Serves(c.disk, c.files, r, ControllerView')
  BY <1>3 DEF ServedBy, Serves
<1> QED
  BY <1>4, <1>5

\* A step that leaves NGINX alone.
LEMMA NginxCarried ==
  ASSUME NginxOK, UNCHANGED <<world, disk, running, loading, reload>>,
         ~Debt' => /\ ~Debt /\ configured' = configured
                   /\ \A r \in configured : SameFor(r, ControllerView, ControllerView')
  PROVE  NginxOK'
<1>1. FilesOK'
  BY DEF NginxOK, FilesOK
<1>2. ASSUME ~Debt', NEW c, NEW r \in configured, ServedBy(c, r)
      PROVE  Serves(c.disk, c.files, r, ControllerView')
  BY <1>2, ServesSame DEF ServedBy
<1>3. RunningOK'
  <2> SUFFICES ASSUME reload' = "ok", ~Debt' PROVE RunsFiles'
    BY DEF RunningOK
  <2>1. RunsFiles /\ configured' = configured
    BY DEF NginxOK, RunningOK
  <2>2. ASSUME NEW r \in configured PROVE ServedBy(running, r)'
    BY <2>1, <1>2, NextServedBy DEF RunsFiles
  <2> QED
    BY <2>1, <2>2 DEF RunsFiles
<1>4. LoadingOK'
  <2> SUFFICES ASSUME NEW next \in loading
               PROVE  /\ reload = "failed"
                      /\ next.disk = disk /\ ~Debt' => \A r \in configured' : ServedBy(next, r)'
    BY DEF LoadingOK
  <2>1. ASSUME next.disk = disk, ~Debt', NEW r \in configured' PROVE ServedBy(next, r)'
    <3>1. r \in configured /\ ServedBy(next, r)
      BY <2>1 DEF NginxOK, LoadingOK
    <3> QED
      BY <3>1, <2>1, <1>2, NextServedBy
  <2> QED
    BY <2>1 DEF NginxOK, LoadingOK
<1> QED
  BY <1>1, <1>3, <1>4 DEF NginxOK

\* A reload.
LEMMA ReloadNginx ==
  ASSUME NginxOK, DiskOK', DebtOrLoadable', UNCHANGED world, Reload(disk', store'.files, svid)
  PROVE  NginxOK'
<1> DEFINE next == [disk |-> disk', files |-> store'.files, svid |-> svid]
<1>1. \/ running' = next /\ loading' = {} /\ reload' = "ok"
      \/ /\ Dangling(disk', store'.files) /\ reload' = "failed" /\ UNCHANGED <<running, loading>>
      \/ /\ ~Dangling(disk', store'.files) /\ reload' = "failed" /\ loading' \in {{}, {next}} /\ UNCHANGED running
  BY DEF Reload
<1>2. next.disk = disk' /\ next.files = store'.files
  OBVIOUS
<1> HIDE DEF next
<1>3. IsDisk(disk')
  BY DEF DiskOK, IsDisk
<1>4. FilesOK'
  BY <1>1, <1>2, <1>3 DEF NginxOK, FilesOK
<1>5. ~Debt' => Loadable'
  BY DEF DebtOrLoadable
<1>6. ASSUME Loadable', NEW r \in configured' PROVE Serves(disk', store'.files, r, ControllerView')
  BY <1>6, NextRight DEF Loadable
<1>7. RunningOK'
  <2> SUFFICES ASSUME reload' = "ok", ~Debt' PROVE RunsFiles'
    BY DEF RunningOK
  <2>1. running' = next
    BY <1>1
  <2>2. ASSUME NEW r \in configured' PROVE ServedBy(running, r)'
    BY <2>1, <1>2, <1>5, <1>6, NextServedBy
  <2> QED
    BY <2>1, <2>2, <1>2 DEF RunsFiles
<1>8. LoadingOK'
  <2> SUFFICES ASSUME NEW n \in loading'
               PROVE  /\ reload' = "failed"
                      /\ ~Debt' => \A r \in configured' : ServedBy(n, r)'
    BY DEF LoadingOK
  <2>1. reload' = "failed" /\ (Debt' \/ n = next)
    BY <1>1, <1>5 DEF Loadable
  <2>2. ASSUME ~Debt', NEW r \in configured' PROVE ServedBy(n, r)'
    BY <2>1, <2>2, <1>2, <1>5, <1>6, NextServedBy
  <2> QED
    BY <2>1, <2>2
<1> QED
  BY <1>4, <1>7, <1>8 DEF NginxOK

LEMMA LoadNginx ==
  ASSUME NginxOK, Load
  PROVE  NginxOK'
<1>1. PICK next \in loading : running' = next /\ reload' = IF next.disk = disk THEN "ok" ELSE reload
  BY DEF Load
<1>2. /\ loading' = {}
      /\ UNCHANGED <<world, lister, store, cfgParams, policies, logConfs, configured, disk, queue, job>>
  BY DEF Load, cnf, worker, apVars
<1>3. ControllerView' = ControllerView
  BY <1>2, SameView
<1>4. Debt' <=> Debt
  BY <1>2 DEF Debt, Waits, Calls
<1>5. FilesOK'
  BY <1>1, <1>2 DEF NginxOK, FilesOK
<1>6. RunningOK'
  <2> SUFFICES ASSUME reload' = "ok", ~Debt PROVE RunsFiles'
    BY <1>4 DEF RunningOK
  <2>1. next.disk = disk /\ \A r \in configured : ServedBy(next, r)
    BY <1>1 DEF NginxOK, LoadingOK
  <2>2. ASSUME NEW r \in configured PROVE ServedBy(running, r)'
    BY <2>1, <1>1, <1>2, <1>3, NextServedBy DEF ServedBy
  <2> QED
    BY <2>1, <2>2, <1>1, <1>2 DEF RunsFiles
<1>7. LoadingOK'
  BY <1>2 DEF LoadingOK
<1> QED
  BY <1>5, <1>6, <1>7 DEF NginxOK

\* Other endpoints do not change what else a config file says.
LEMMA SaysOther ==
  ASSUME NEW x, NEW r, NEW v, Says(x, r, v), NEW e
  PROVE  LET y == [x EXCEPT !.endpoints = e]
         IN Says(y, r, v) /\ y.endpoints = e
<1> DEFINE y == [x EXCEPT !.endpoints = e]
           secrets == {Mention(s) : s \in {t \in v.secrets : <<t.name, t.type>> \in SecretsOf(r, v)}}
           ap == {Key(o) : o \in {a \in v.ap : Key(a) \in AppProtectOf(r, v)}}
           ex(z) == [obj |-> r, policies |-> PoliciesOf(r, v), secrets |-> secrets, ap |-> ap,
                     endpoints |-> z.endpoints, params |-> z.params]
<1>1. /\ x = ex(x)
      /\ IF r.kind = "TransportServer" THEN x.params = NoParams ELSE v.params.broken \/ x.params = v.params
  BY Zenon DEF Says
<1> HIDE DEF secrets, ap
<1>2. y = [obj |-> r, policies |-> PoliciesOf(r, v), secrets |-> secrets, ap |-> ap,
           endpoints |-> e, params |-> x.params]
  BY <1>1
<1>3. y.endpoints = e /\ y.params = x.params
  BY <1>2
<1> HIDE DEF y
<1>4. y = ex(y)
  BY <1>2, <1>3
<1>5. Says(y, r, v)
  BY <1>1, <1>3, <1>4, Zenon DEF Says, secrets, ap
<1> QED
  BY <1>3, <1>5 DEF y

\* The endpoints that the API of NGINX Plus sets are those of the config files.
LEMMA PlusNginx ==
  ASSUME TypesOK, ReferencesInv, KnownOK, MainOK, DebtOrLoadable, NginxOK, UpdateEndpoints,
         reload = "ok", UpdatePlusEndpoints({Key(r) : r \in This.res}), UNCHANGED <<loading, reload>>
  PROVE  NginxOK'
<1> DEFINE keys == {Key(r) : r \in This.res}
           old == running.disk.conf
           new == [k \in DOMAIN old |->
                     IF k \in keys THEN [old[k] EXCEPT !.endpoints = job.exes[k].endpoints] ELSE old[k]]
<1>1. /\ WorkerOK /\ JobOK /\ DiskOK /\ ExesOK /\ CallsOK /\ OnePerKey(configured) /\ CallsNow
      /\ OnePerKey(ApInForce) /\ IsConfig(running) /\ IsDisk(running.disk)
  BY ApOnePerKey DEF TypesOK, ReferencesInv, KnownOK, MainOK, RotationOK, NginxOK, FilesOK
<1>2. Call /\ This.op = "endpoints"
  BY DEF Call, UpdateEndpoints, Doing, This
<1>3. /\ This \in Calls /\ Calls = {This} \cup Calls'
      /\ UNCHANGED <<world, lister, queue, configured, store, cfgParams, policies, logConfs>>
  BY <1>1, <1>2, CallTaken
<1>4. ControllerView' = ControllerView
  BY <1>3, SameView
<1>5. Debt' <=> Debt
  BY <1>2, <1>3 DEF Debt, Waits, ReloadOps
<1>6. running' = [running EXCEPT !.disk.conf = new]
  BY Zenon DEF UpdatePlusEndpoints
<1>7. DOMAIN new = DOMAIN old /\ \A k \in DOMAIN old :
        new[k] = IF k \in keys THEN [old[k] EXCEPT !.endpoints = job.exes[k].endpoints] ELSE old[k]
  OBVIOUS
<1> HIDE DEF new, old
<1>8. /\ running'.disk = [conf |-> new, ap |-> running.disk.ap, sigs |-> running.disk.sigs,
                          params |-> running.disk.params, special |-> running.disk.special]
      /\ running'.files = running.files
  BY <1>1, <1>6 DEF IsConfig, IsDisk
<1>9. /\ running'.disk.conf = new /\ running'.disk.ap = running.disk.ap /\ running'.disk.sigs = running.disk.sigs
      /\ running'.disk.params = running.disk.params /\ running'.disk.special = running.disk.special
      /\ IsDisk(running'.disk)
  BY <1>8 DEF IsDisk
<1>10. loading = {}
  BY DEF NginxOK, LoadingOK
<1>11. FilesOK' /\ LoadingOK'
  BY <1>9, <1>10 DEF FilesOK, LoadingOK
<1>12. RunningOK'
  <2> SUFFICES ASSUME ~Debt PROVE RunsFiles'
    BY <1>5 DEF RunningOK
  <2>1. RunsFiles /\ Loadable
    BY DEF NginxOK, RunningOK, DebtOrLoadable
  <2>2. disk'.params = disk.params /\ disk'.sigs = disk.sigs /\ disk'.special = disk.special
    BY <1>1, <1>2, CallWrites
  <2>3. This.op \in Generating /\ This.res \subseteq configured
    BY <1>1, <1>2, <1>3 DEF Generating, CallsOK, Calls
  <2>4. DOMAIN disk'.conf = DOMAIN disk.conf
    <3>1. disk' = Written(This)
      BY <2>3, <1>1, <1>2, CallWrites
    <3>2. disk'.conf = Override(disk.conf, [k \in {Key(r) : r \in This.res} |-> job.exes[k]])
      BY <3>1, <2>3, <1>1, WrittenParts
    <3>3. DOMAIN disk'.conf = DOMAIN disk.conf \cup {Key(r) : r \in This.res}
      BY <3>2 DEF Override
    <3> QED
      BY <3>3, <2>1, <2>3 DEF Loadable
  <2>5. ASSUME NEW r \in configured
        PROVE  ServedBy(running, r)' /\ running'.disk.conf[Key(r)].endpoints = disk'.conf[Key(r)].endpoints
    <3>1. /\ Key(r) \in DOMAIN old /\ Says(old[Key(r)], r, ControllerView)
          /\ SecretsThere(r, ControllerView, running.files)
          /\ AppProtectThere(r, ControllerView, running.disk.ap)
          /\ old[Key(r)].endpoints = disk.conf[Key(r)].endpoints
      BY <2>1 DEF RunsFiles, ServedBy, Serves, old
    <3>2. Says(new[Key(r)], r, ControllerView) /\ new[Key(r)].endpoints = disk'.conf[Key(r)].endpoints
      <4>1. CASE r \in This.res
        <5>1. disk'.conf[Key(r)] = job.exes[Key(r)]
          BY <4>1, <2>3, <1>1, <1>2, <1>3, CallFiles
        <5>2. new[Key(r)] = [old[Key(r)] EXCEPT !.endpoints = job.exes[Key(r)].endpoints]
          BY <4>1, <3>1, <1>7
        <5> QED
          BY <5>1, <5>2, <3>1, SaysOther
      <4>2. CASE r \notin This.res
        <5>1. Key(r) \notin keys
          BY <4>2, <2>3, <1>1 DEF OnePerKey
        <5>2. Key(r) \in DOMAIN disk.conf
          BY <2>1 DEF Loadable
        <5>3. disk'.conf[Key(r)] = disk.conf[Key(r)]
          BY <4>2, <5>2, <1>1, <1>2, <1>3, CallFiles
        <5> QED
          BY <5>1, <5>3, <3>1, <1>7
      <4> QED
        BY <4>1, <4>2
    <3>3. Serves(running'.disk, running'.files, r, ControllerView')
      BY <3>1, <3>2, <1>4, <1>7, <1>8, <1>9 DEF Serves
    <3> QED
      BY <3>2, <3>3, <1>3, <1>9, NextServedBy
  <2> QED
    BY <2>1, <2>2, <2>4, <2>5, <1>3, <1>7, <1>9 DEF RunsFiles, old
<1> QED
  BY <1>11, <1>12 DEF NginxOK

\* Steps that change nothing that the config is generated from.
LEMMA NginxIdle ==
  ASSUME NginxOK, UNCHANGED <<world, disk, running, loading, reload>>,
         UNCHANGED <<lister, configured, cfgParams, policies, logConfs>>, queue'.dirty = queue.dirty,
         ValidIn(store') = ValidIn(store),
         \A s \in Calls : s.op \in ReloadOps => s \in Calls'
  PROVE  NginxOK'
<1>1. ControllerView' = ControllerView
  BY SameView
<1>2. \A r : SameFor(r, ControllerView, ControllerView')
  BY <1>1, ViewsAgree
<1>3. Debt => Debt'
  BY DEF Debt, Waits
<1> QED
  BY <1>2, <1>3, NginxCarried

\* A sync that changes something for a resource reloads NGINX.
LEMMA SyncNginx ==
  ASSUME TypesOK, ReferencesInv, KnownOK, NginxOK, StartSync
  PROVE  NginxOK'
<1>1. WorkerOK /\ VersionsOK /\ JobOK /\ QueueOpen /\ StoreOK /\ CallsOK /\ APInv /\ ApStored
  BY DEF TypesOK, ReferencesInv, KnownOK
<1>2. PICK key \in Keys :
        /\ SyncOf(key) /\ queue'.dirty = queue.dirty \ {key} /\ Calls = {}
        /\ UNCHANGED <<world, lister, disk, running, loading, reload>>
  BY <1>1, StartsSync
<1>3. ASSUME ~Debt'
      PROVE  /\ ~Debt /\ configured' = configured
             /\ \A r \in configured : SameFor(r, ControllerView, ControllerView')
  <2>1. ~(\E s \in Calls' : s.op \in ReloadOps) /\ \A r \in configured' : ~Waits(r)'
    BY <1>3 DEF Debt
  <2>2. \A k : ~Reloading(Calls', k)
    BY <2>1 DEF Reloading, ReloadOps, Generating
  <2>3. configured' = configured
    BY <2>1, <1>1, <1>2, SyncReconfigures DEF Calls
  <2>4. ASSUME NEW r \in configured' PROVE SameFor(r, ControllerView, ControllerView') /\ ~Waits(r)
    <3>1. \/ Reloading(Range(job'.plan), Key(r))
          \/ SameNext(r) /\ (PolicyWaits(r, queue.dirty) => PolicyWaits(r, queue'.dirty))
      BY <1>1, <1>2, SyncSame
    <3>2. ~Reloading(Range(job'.plan), Key(r))
      BY <2>2 DEF Calls
    <3> QED
      BY <3>1, <3>2, <2>1 DEF SameNext, Waits, PolicyWaits
  <2> QED
    BY <2>3, <2>4, <1>2 DEF Debt
<1> QED
  BY <1>2, <1>3, NginxCarried

LEMMA ObserveNginx ==
  ASSUME TypesOK, ReferencesInv, NginxOK, Observe
  PROVE  NginxOK'
<1>1. WorkerOK /\ QueueOpen
  BY DEF TypesOK, ReferencesInv
<1>2. UNCHANGED <<world, job, disk, running, loading, reload, configured>>
  BY DEF Observe, cnf, nginx
<1>3. Calls' = Calls
  BY <1>2 DEF Calls
<1>4. ASSUME ~Debt'
      PROVE  /\ ~Debt /\ configured' = configured
             /\ \A r \in configured : SameFor(r, ControllerView, ControllerView')
  <2>1. ~(\E s \in Calls : s.op \in ReloadOps) /\ \A r \in configured : ~Waits(r)'
    BY <1>2, <1>3, <1>4 DEF Debt
  <2>2. \A r \in configured : ~Waits(r) /\ SameNext(r)
    BY <2>1, <1>1, ObserveSame
  <2> QED
    BY <2>1, <2>2, <1>2 DEF Debt, SameNext
<1> QED
  BY <1>2, <1>4, NginxCarried

LEMMA NginxStep ==
  ASSUME TypesOK, ReferencesInv, KnownOK, MainOK, ConfOK, NginxOK, [Next]_allVars,
         TypesOK', DebtOrLoadable'
  PROVE  NginxOK'
<1>1. /\ WorkerOK /\ JobOK /\ DiskOK /\ QueueOpen /\ StoreOK /\ CallsOK /\ ExesOK /\ OnePerKey(configured)
      /\ DiskOK' /\ UNCHANGED world /\ DebtOrLoadable
  BY SameWorld, LoadableNow DEF TypesOK, ReferencesInv, KnownOK
<1>2. CASE StartSync
  BY <1>2, SyncNginx
<1>3. CASE Call
  <2>1. This \in Calls /\ Calls = {This} \cup Calls'
        /\ UNCHANGED <<world, lister, queue, configured, store, cfgParams, policies, logConfs>>
    BY <1>1, <1>3, CallTaken
  <2>2. CASE Report
    <3>1. This.op = "report" /\ UNCHANGED <<disk, running, loading, reload>>
      BY <2>2 DEF Report, Doing, This, nginx
    <3>2. This.op \notin ReloadOps
      BY <3>1 DEF ReloadOps
    <3> QED
      BY <3>1, <3>2, <2>1, NginxIdle
  <2>3. CASE UpdateEndpoints
    <3>1. \/ /\ reload = "ok" /\ UpdatePlusEndpoints({Key(r) : r \in This.res}) /\ UNCHANGED <<loading, reload>>
          \/ Reload(disk', store.files, svid)
      BY <2>3 DEF UpdateEndpoints, VersionVerified
    <3>2. CASE Reload(disk', store.files, svid)
      BY <3>2, <2>1, <1>1, ReloadNginx
    <3> QED
      BY <3>1, <3>2, <2>3, <1>1, PlusNginx
  <2>4. CASE Write \/ UpdateSpecialSecret \/ DeleteConfig
    <3>1. Reload(disk', store.files, svid)
      BY <2>4 DEF Write, UpdateSpecialSecret, DeleteConfig
    <3> QED
      BY <3>1, <2>1, <1>1, ReloadNginx
  <2> QED
    BY <1>3, <2>2, <2>3, <2>4 DEF Call
<1>4. CASE Observe
  BY <1>4, ObserveNginx
<1>5. CASE Build
  <2>1. /\ UNCHANGED <<world, lister, queue, configured, disk, cfgParams, policies, logConfs>>
        /\ Calls' = Calls /\ ValidIn(store') = ValidIn(store)
    BY <1>1, <1>5, BuildIs
  <2>2. UNCHANGED <<running, loading, reload>>
    BY <1>5 DEF Build, nginx
  <2> QED
    BY <2>1, <2>2, NginxIdle
<1>6. CASE Load
  BY <1>6, LoadNginx
<1>7. CASE RotateReload
  <2>1. Reload(disk, store.files, svid) /\ UNCHANGED <<disk, store>>
    BY <1>7 DEF RotateReload, cnf
  <2>2. Reload(disk', store'.files, svid)
    BY <2>1
  <2> QED
    BY <2>2, <1>1, ReloadNginx
<1>8. CASE ~StartSync /\ ~Call /\ ~Observe /\ ~Build /\ ~Load /\ ~RotateReload
  <2>1. UNCHANGED <<disk, running, loading, reload>>
    BY <1>8 DEF Next, Work, Call, FinishSync, RotateKey, Rotate, RotateCert, BecomeLeader, Lead,
         LeaderReadsStatus, LeaderWritesStatus, LoseLeadership, ObserveStatus, EditPut, EditRemove, Edit,
         AllDone, allVars, nginx
  <2>2. /\ UNCHANGED <<world, configured, cfgParams, policies, logConfs, lister>> /\ queue'.dirty = queue.dirty
        /\ FinishSync \/ UNCHANGED <<job, store>>
    BY <1>1, <1>8, StepKinds, QuietStep, WaitingTasks
  <2>3. Calls' = Calls /\ UNCHANGED store
    <3>1. CASE FinishSync
      <4>1. job'.plan = job.plan /\ UNCHANGED store
        BY <3>1 DEF FinishSync, IdleJob, Job, cnf
      <4> QED
        BY <4>1 DEF Calls
    <3> QED
      BY <3>1, <2>2 DEF Calls
  <2> QED
    BY <2>1, <2>2, <2>3, NginxIdle
<1> QED
  BY <1>2, <1>3, <1>4, <1>5, <1>6, <1>7, <1>8

LEMMA NginxInit == Init => NginxOK
<1> SUFFICES ASSUME Init PROVE NginxOK
  OBVIOUS
<1>1. configured = {} /\ loading = {} /\ running = [disk |-> disk, files |-> <<>>, svid |-> svid]
  BY DEF Init
<1>2. disk = [conf |-> <<>>, ap |-> <<>>, sigs |-> {}, params |-> cfgParams,
              special |-> {s \in cluster : s.kind = "Secret" /\ s.name = World.special}]
  BY DEF Init
<1>3. running.disk = disk
  BY <1>1
<1>4. IsDisk(disk)
  BY <1>2 DEF IsDisk
<1> QED
  BY <1>1, <1>3, <1>4 DEF NginxOK, FilesOK, RunningOK, RunsFiles, LoadingOK

\* At the start every object is queued.
LEMMA QueuedAtStart ==
  ASSUME Init
  PROVE  /\ world \in DOMAIN Worlds /\ lister = World.objects
         /\ queue.dirty = {Key(o) : o \in World.objects}
         /\ \A k : k \in queue.dirty \/ At(lister, k) = {}
<1>1. world \in DOMAIN Worlds /\ lister = World.objects
  BY DEF Init
<1>2. PICK order \in World.orders : queue = [NewQueue EXCEPT !.items = order, !.dirty = Range(order)]
  BY DEF Init
<1>3. Range(order) = {Key(o) : o \in World.objects}
  BY <1>1, DependentsAssumption DEF DependentsAssumption, World
<1>4. queue.dirty = Range(order)
  BY <1>2 DEF NewQueue
<1> QED
  BY <1>1, <1>3, <1>4 DEF At

LEMMA KnownInit == Init => KnownOK
<1> SUFFICES ASSUME Init PROVE KnownOK
  OBVIOUS
<1>1. \A k : k \in queue.dirty \/ At(lister, k) = {}
  BY QueuedAtStart
<1>2. configured = {} /\ store = EmptyStore /\ policies = <<>> /\ logConfs = <<>> /\ userSigs = <<>> /\ APInit
      /\ lister = cluster
  BY DEF Init, APInit
<1>3. store.refs = <<>> /\ DOMAIN <<>> = {}
  BY <1>2 DEF EmptyStore
<1>4. \A kind, n : At(lister, <<kind, n>>) = {} => KnownAt(kind, n)
  <2>1. \A k : At(configured, k) = {}
    BY <1>2 DEF At
  <2>2. \A n : Held(store, n) = {}
    BY <1>3 DEF Held
  <2>3. \A n : StoredAt(policies, n) = {} /\ StoredAt(logConfs, n) = {} /\ StoredAt(userSigs, n) = {}
    BY <1>2, <1>3 DEF StoredAt
  <2> QED
    BY <2>1, <2>2, <2>3 DEF KnownAt
<1>5. cfgParams = ParamsIn(lister)
  <2>1. cfgParams = IF OfKind(cluster, "ConfigMap") = {} THEN NoParams
                    ELSE CHOOSE o \in OfKind(cluster, "ConfigMap") : TRUE
    BY DEF Init
  <2>2. cfgParams = ParamsIn(cluster)
    BY <2>1, Zenon DEF ParamsIn, ParamsOf
  <2> QED
    BY <2>2, <1>2
<1>6. OnePerKey(configured) /\ ApStored
  BY <1>2, <1>3 DEF OnePerKey, ApStored, StoredByName
<1>7. APInv
  BY <1>2, APInitOK
<1> QED
  BY <1>1, <1>4, <1>5, <1>6, <1>7 DEF KnownOK

LEMMA MainInit == Init => MainOK
<1> SUFFICES ASSUME Init PROVE MainOK
  OBVIOUS
<1>1. job.plan = <<>>
  BY DEF Init, IdleJob, Job
<1>2. Calls = {}
  BY <1>1, PlanCalls DEF Calls
<1>3. disk.params = cfgParams /\ disk.sigs = {}
  BY DEF Init
<1>4. SpecialKey \in queue.dirty \/ SpecialIn(lister) = {}
  BY QueuedAtStart DEF SpecialIn, At
<1> QED
  BY <1>2, <1>3, <1>4 DEF MainOK, CallsNow, ParamsWritten, SigsWritten, SpecialWritten

-----------------------------------------------------------------------------
(* At rest *)

\* A map that holds the objects of a kind holds them by name.
LEMMA StoredIsNamed ==
  ASSUME NEW map, NEW objects, NEW kind, OnePerKey(objects),
         \A n : StoredAt(map, n) = At(objects, <<kind, n>>)
  PROVE  Objs(map) = ByName(OfKind(objects, kind))
<1> DEFINE all == OfKind(objects, kind)
<1>1. \A o : o \in all <=> o \in objects /\ Key(o) = <<kind, o.name>>
  BY DEF OfKind, Key
<1>2. \A o, n : o \in At(objects, <<kind, n>>) <=> o \in all /\ o.name = n
  <2>1. \A o, n : Key(o) = <<kind, n>> <=> o.kind = kind /\ o.name = n
    BY DEF Key
  <2> QED
    BY <2>1 DEF At, OfKind
<1>0. \A o, n : n \in DOMAIN map /\ o = map[n].obj <=> o \in all /\ o.name = n
  <2>1. \A o, n : o \in StoredAt(map, n) <=> n \in DOMAIN map /\ o = map[n].obj
    BY DEF StoredAt
  <2>2. \A o, n : o \in StoredAt(map, n) <=> o \in At(objects, <<kind, n>>)
    OBVIOUS
  <2> HIDE DEF all
  <2> QED
    BY <2>1, <2>2, <1>2
<1>3. \A n : n \in DOMAIN map <=> \E o \in all : o.name = n
  <2> HIDE DEF all
  <2> QED
    BY <1>0
<1>4. ASSUME NEW n \in DOMAIN map PROVE map[n].obj = CHOOSE o \in all : o.name = n
  <2>1. map[n].obj \in all /\ map[n].obj.name = n
    BY <1>0
  <2>2. \A o \in all : o.name = n => o = map[n].obj
    BY <2>1, <1>1 DEF OnePerKey
  <2> HIDE DEF all
  <2> QED
    BY <2>1, <2>2
<1>5. DOMAIN map = {o.name : o \in all}
  BY <1>3
<1> QED
  BY <1>4, <1>5 DEF Objs, ByName

\* Nothing is left to do.
AtRest == queue.dirty = {} /\ Calls = {} /\ lister = cluster

LEMMA QuiescentRests ==
  ASSUME TypesOK, Quiescent
  PROVE  AtRest /\ ~Debt
<1>1. WorkerOK /\ JobOK /\ lister = cluster /\ queue.items = <<>> /\ current = {}
  BY DEF TypesOK, Quiescent
<1>2. queue.dirty = {}
  BY <1>1, NothingWaits
<1>3. job.plan = <<>>
  BY <1>1 DEF WorkerOK, JobOK, IdleJob, Job
<1>4. Calls = {}
  BY <1>3, PlanCalls DEF Calls
<1> QED
  BY <1>1, <1>2, <1>4 DEF AtRest, Debt, Waits, PolicyWaits

\* The App Protect resources and the signatures that the controller holds are
\* those in force.
LEMMA AppProtectAtRest ==
  ASSUME TypesOK, KnownOK, AtRest
  PROVE  /\ ApInForce = IdealView.ap
         /\ ValidObjects(userSigs) = SigsInForce(cluster)
<1> DEFINE pols == ByName(OfKind(cluster, "APPolicy"))
           sigs == ByName(OfKind(cluster, "APUserSig"))
           logs == {l \in OfKind(cluster, "APLogConf") : l.form = "ok"}
<1>1. /\ OnePerKey(cluster) /\ ApStored /\ APInv
      /\ \A n : /\ StoredAt(policies, n) = At(cluster, <<"APPolicy", n>>)
                /\ StoredAt(logConfs, n) = At(cluster, <<"APLogConf", n>>)
                /\ StoredAt(userSigs, n) = At(cluster, <<"APUserSig", n>>)
  BY DEF TypesOK, VersionsOK, KnownOK, KnownAt, AtRest
<1>2. IdealView.ap = {pols[n] : n \in Abs!InForce(pols, sigs)} \cup logs
  BY DEF IdealView
<1>3. SigsInForce(cluster) = {sigs[n] : n \in Abs!Active(sigs)}
  BY DEF SigsInForce
<1>4. Objs(policies) = pols /\ Objs(userSigs) = sigs
  BY <1>1, StoredIsNamed
<1> HIDE DEF pols, sigs
<1>5. /\ ValidKeys(userSigs) = Abs!Active(sigs)
      /\ ValidKeys(policies) = Abs!InForce(pols, sigs)
  BY <1>1, <1>4 DEF APInv
<1>6. /\ \A n \in ValidKeys(policies) : policies[n].obj = pols[n]
      /\ \A n \in ValidKeys(userSigs) : userSigs[n].obj = sigs[n]
  BY <1>4 DEF Objs, ValidKeys
<1>7. ValidObjects(policies) = {pols[n] : n \in Abs!InForce(pols, sigs)}
  BY <1>5, <1>6 DEF ValidObjects, Objects1
<1>8. ValidObjects(userSigs) = {sigs[n] : n \in Abs!Active(sigs)}
  BY <1>5, <1>6 DEF ValidObjects, Objects1
<1>9. ValidObjects(logConfs) = logs
  <2>1. \A k \in DOMAIN logConfs : IsValid(logConfs[k]) <=> logConfs[k].obj.form = "ok"
    <3>1. \A k \in DOMAIN logConfs : logConfs[k] = CreateLogConfEx(logConfs[k].obj)
      BY <1>1 DEF ApStored
    <3>2. \A o : IsValid(CreateLogConfEx(o)) <=> o.form = "ok"
      BY DEF IsValid, CreateLogConfEx
    <3> QED
      BY <3>1, <3>2
  <2>2. \A o : o \in OfKind(cluster, "APLogConf") <=> \E k \in DOMAIN logConfs : o = logConfs[k].obj
    <3>1. \A o : o \in OfKind(cluster, "APLogConf") <=> \E n : o \in At(cluster, <<"APLogConf", n>>)
      BY DEF OfKind, At, Key
    <3>2. \A o : (\E n : o \in StoredAt(logConfs, n)) <=> \E k \in DOMAIN logConfs : o = logConfs[k].obj
      BY DEF StoredAt
    <3>3. \A o, n : o \in StoredAt(logConfs, n) <=> o \in At(cluster, <<"APLogConf", n>>)
      BY <1>1
    <3> QED
      BY <3>1, <3>2, <3>3
  <2> QED
    BY <2>1, <2>2 DEF ValidObjects, Objects1, ValidKeys
<1> QED
  BY <1>2, <1>3, <1>7, <1>8, <1>9 DEF ApInForce

LEMMA SecretsAtRest ==
  ASSUME StoreOK, KnownOK, AtRest
  PROVE  ValidIn(store) = IdealView.secrets
<1>1. \A n : Held(store, n) = At(cluster, <<"Secret", n>>)
  BY DEF KnownOK, KnownAt, AtRest
<1>2. \A s : s \in ValidIn(store) <=> ValidateSecret(s) /\ s \in Held(store, s.name)
  BY ValidHeld DEF StoreOK
<1>3. \A s : s \in At(cluster, <<"Secret", s.name>>) <=> s \in OfKind(cluster, "Secret")
  BY DEF At, OfKind, Key
<1>4. IdealView.secrets = {s \in OfKind(cluster, "Secret") : ValidateSecret(s)}
  BY DEF IdealView
<1> QED
  BY <1>1, <1>2, <1>3, <1>4

\* The controller's view is the one that the cluster calls for.
LEMMA ViewAtRest ==
  ASSUME TypesOK, ReferencesInv, KnownOK, AtRest
  PROVE  ControllerView = IdealView
<1>1. ApInForce = IdealView.ap /\ ValidIn(store) = IdealView.secrets
  BY AppProtectAtRest, SecretsAtRest DEF ReferencesInv
<1>2. cfgParams = ParamsIn(cluster) /\ lister = cluster
  BY DEF KnownOK, AtRest
<1> DEFINE maps == OfKind(cluster, "ConfigMap")
           ap == LET pols == ByName(OfKind(cluster, "APPolicy"))
                     sigs == ByName(OfKind(cluster, "APUserSig"))
                 IN {pols[n] : n \in Abs!InForce(pols, sigs)}
                      \cup {l \in OfKind(cluster, "APLogConf") : l.form = "ok"}
           secrets == {s \in OfKind(cluster, "Secret") : ValidateSecret(s)}
           view(S, A, P) == [secrets |-> S, policies |-> AllPolicies(cluster), ap |-> A,
                             services |-> OfKind(cluster, "Service"), endpoints |-> OfKind(cluster, "Endpoints"),
                             params |-> P]
<1>3. IdealView = view(secrets, ap, ParamsIn(cluster))
  BY Zenon DEF IdealView, ParamsIn, ParamsOf
<1> HIDE DEF secrets, ap
<1>4. IdealView.secrets = secrets /\ IdealView.ap = ap
  BY <1>3
<1>5. ControllerView = view(ValidIn(store), ApInForce, cfgParams)
  BY <1>2, Zenon DEF ControllerView, ValidIn, ApInForce, ValidObjects
<1> QED
  BY <1>1, <1>2, <1>3, <1>4, <1>5

LEMMA ResourcesAtRest ==
  ASSUME TypesOK, ReferencesInv, KnownOK, AtRest
  PROVE  configured = Resources
<1>1. \A kind \in ResourceKinds : \A n : At(configured, <<kind, n>>) = At(cluster, <<kind, n>>)
  BY DEF KnownOK, KnownAt, AtRest
<1>2. \A r \in configured : r.kind \in ResourceKinds
  BY DEF ReferencesInv, CallsOK
<1>3. \A set, o : o \in At(set, <<o.kind, o.name>>) <=> o \in set
  BY DEF At, Key
<1>4. \A o : o.kind \in ResourceKinds =>
        (o \in At(configured, <<o.kind, o.name>>) <=> o \in At(cluster, <<o.kind, o.name>>))
  BY <1>1
<1>5. \A o : o.kind \in ResourceKinds => (o \in configured <=> o \in cluster)
  BY <1>3, <1>4
<1> QED
  BY <1>2, <1>5 DEF Resources

\* A config file that says what a view says, the endpoints too, is generated from it.
LEMMA SaysAll ==
  ASSUME NEW x, NEW r, NEW v, Says(x, r, v), ~v.params.broken, x.endpoints = EndpointsOf(r, v)
  PROVE  x = Ex(r, v)
<1> DEFINE secrets == {Mention(s) : s \in {t \in v.secrets : <<t.name, t.type>> \in SecretsOf(r, v)}}
           ap == {Key(o) : o \in {a \in v.ap : Key(a) \in AppProtectOf(r, v)}}
           params == IF r.kind = "TransportServer" THEN NoParams ELSE v.params
<1>1. x = [obj |-> r, policies |-> PoliciesOf(r, v), secrets |-> secrets, ap |-> ap,
           endpoints |-> x.endpoints, params |-> x.params]
  BY Zenon DEF Says
<1>2. x.params = params
  BY DEF Says
<1>3. Ex(r, v) = [obj |-> r, policies |-> PoliciesOf(r, v), secrets |-> secrets, ap |-> ap,
                  endpoints |-> EndpointsOf(r, v), params |-> params]
  BY Zenon DEF Ex
<1> HIDE DEF secrets, ap, params
<1> QED
  BY <1>1, <1>2, <1>3

LEMMA ReflectsAtRest ==
  ASSUME TypesOK, ReferencesInv, KnownOK, MainOK, EndpointsThere, ConfOK, NginxOK
  PROVE  ConfigReflectsDependents
<1> SUFFICES ASSUME Quiescent, reload = "ok", ~IdealView.params.broken
             PROVE  /\ DOMAIN running.disk.conf = {Key(r) : r \in Resources}
                    /\ running.disk.params = IdealView.params
                    /\ running.disk.sigs \in {SigsInForce(cluster), {}}
                    /\ \A s \in IdealView.secrets :
                         s.name = World.special /\ s.type = "tls" => running.disk.special = {s}
                    /\ \A r \in Resources :
                         /\ running.disk.conf[Key(r)] = Ex(r, IdealView)
                         /\ \A a \in IdealView.ap : Key(a) \in Ex(r, IdealView).ap => running.disk.ap[Key(a)] = a
                         /\ \A s \in IdealView.secrets :
                              HasFile(s) /\ (Mention(s) \in Ex(r, IdealView).secrets \/ s.name \in JWTKeys(r)) =>
                                running.files[FileName(s.name)] = s
  BY DEF ConfigReflectsDependents
<1>1. AtRest /\ ~Debt
  BY QuiescentRests
<1>2. RunsFiles /\ Loadable
  BY <1>1, LoadableNow DEF NginxOK, RunningOK, DebtOrLoadable
<1>3. IdealView = ControllerView /\ Resources = configured
  BY <1>1, ViewAtRest, ResourcesAtRest
<1>4. WorkerOK /\ VersionsOK /\ StoreOK
  BY DEF TypesOK, ReferencesInv
<1>5. DOMAIN running.disk.conf = {Key(r) : r \in Resources}
  BY <1>2, <1>3 DEF RunsFiles, Loadable
<1>6. running.disk.params = IdealView.params
  <2>1. IdealView.params = cfgParams
    BY <1>3, Views
  <2>2. disk.params = cfgParams
    BY <2>1, <1>1 DEF MainOK, ParamsWritten, Calling, AtRest
  <2> QED
    BY <2>1, <2>2, <1>2 DEF RunsFiles
<1>7. running.disk.sigs \in {SigsInForce(cluster), {}}
  <2>1. disk.sigs \in {ValidObjects(userSigs), {}}
    BY <1>1 DEF MainOK, SigsWritten, Calling, AtRest
  <2>2. ValidObjects(userSigs) = SigsInForce(cluster)
    BY <1>1, AppProtectAtRest
  <2> QED
    BY <2>1, <2>2, <1>2 DEF RunsFiles
<1>8. ASSUME NEW s \in IdealView.secrets, s.name = World.special, s.type = "tls"
      PROVE  running.disk.special = {s}
  <2>1. s \in cluster /\ s.kind = "Secret" /\ ValidateSecret(s)
    BY DEF IdealView, OfKind
  <2>2. s \in SpecialIn(cluster)
    BY <2>1, <1>8 DEF SpecialIn, SpecialKey, Key
  <2>3. SpecialIn(cluster) = {s}
    BY <2>2, <1>4 DEF SpecialIn, VersionsOK, OnePerKey
  <2>4. disk.special = SpecialIn(cluster)
    BY <2>2, <1>1 DEF MainOK, SpecialWritten, Calling, AtRest
  <2> QED
    BY <2>3, <2>4, <1>2 DEF RunsFiles
<1>9. ASSUME NEW r \in Resources
      PROVE  /\ running.disk.conf[Key(r)] = Ex(r, IdealView)
             /\ \A a \in IdealView.ap : Key(a) \in Ex(r, IdealView).ap => running.disk.ap[Key(a)] = a
             /\ \A s \in IdealView.secrets :
                  HasFile(s) /\ (Mention(s) \in Ex(r, IdealView).secrets \/ s.name \in JWTKeys(r)) =>
                    running.files[FileName(s.name)] = s
  <2> DEFINE v == IdealView
             x == running.disk.conf[Key(r)]
             ex == Ex(r, v)
  <2>1. r \in configured /\ Serves(running.disk, running.files, r, v) /\ x.endpoints = disk.conf[Key(r)].endpoints
    BY <1>2, <1>3 DEF RunsFiles, ServedBy
  <2>2. ~IsLate(r)
    BY <1>1 DEF IsLate, Late, AtRest, EndpointsThere
  <2>3. disk.conf[Key(r)].endpoints = EndpointsOf(r, v)
    BY <2>1, <2>2, <1>1, <1>3 DEF ConfOK, EndpointsServed, Generates, AtRest, EndpointsRight
  <2>4. v.secrets = ValidIn(store) /\ ~v.params.broken
    BY <1>3, Views
  <2> HIDE DEF v, x
  <2>5. x = ex
    BY <2>1, <2>3, <2>4, SaysAll DEF Serves, x
  <2>6. /\ ex.secrets = {Mention(s) : s \in {t \in v.secrets : <<t.name, t.type>> \in SecretsOf(r, v)}}
        /\ ex.ap = {Key(o) : o \in {a \in v.ap : Key(a) \in AppProtectOf(r, v)}}
    BY DEF Ex
  <2> HIDE DEF ex
  <2>7. ASSUME NEW a \in v.ap, Key(a) \in ex.ap PROVE running.disk.ap[Key(a)] = a
    BY <2>1, <2>6, <2>7 DEF Serves, AppProtectThere
  <2>8. ASSUME NEW s \in v.secrets, HasFile(s), Mention(s) \in ex.secrets \/ s.name \in JWTKeys(r)
        PROVE  running.files[FileName(s.name)] = s
    <3>1. \A t \in v.secrets : t \in SecretsOfWorld
      BY <2>4, <1>4 DEF ValidIn, StoreOK, IsStore
    <3>2. \A t \in v.secrets : Mention(t).name = t.name /\ Mention(t).type = t.type
      BY <3>1, <1>4, MentionOK
    <3>3. Needs(r, s, v)
      BY <3>2, <2>6, <2>8 DEF Needs
    <3> QED
      BY <3>3, <2>1, <2>8 DEF Serves, SecretsThere
  <2> QED
    BY <2>5, <2>7, <2>8 DEF v, x, ex
<1> QED
  BY <1>5, <1>6, <1>7, <1>8, <1>9

\* The controller's data, the files and NGINX follow the listers.
ReflectsInv == KnownOK /\ MainOK /\ EndpointsThere /\ ConfOK /\ NginxOK

\* For any cluster, any order of edits, of the informers and of the worker, and
\* whatever reloads fail or come late: when every change has been worked off and
\* the last reload succeeded, NGINX runs with the config files, secret files, App
\* Protect files and signatures that the objects call for (the sync functions and
\* the reference checkers of controller.go, the Configurator).
THEOREM ConfigReflectsDependentsInvariant == Spec => []ConfigReflectsDependents
<1>1. Init => ReferencesInv /\ ReflectsInv
  BY ReferencesInit, KnownInit, MainInit, EndpointsThereInit, ConfInit, NginxInit DEF ReflectsInv
<1>2. TypesOK /\ ReferencesInv /\ [Next]_allVars => ReferencesInv'
  BY ReferencesStep
<1>3. TypesOK /\ ReferencesInv /\ ReflectsInv /\ [Next]_allVars => KnownOK' /\ MainOK' /\ ConfOK'
  BY KnownStep, MainStep, ConfStep DEF ReflectsInv
<1>4. TypesOK /\ ReflectsInv /\ [Next]_allVars => EndpointsThere'
  BY EndpointsThereStep DEF ReflectsInv, TypesOK
<1>5. TypesOK /\ ReferencesInv /\ ConfOK => DebtOrLoadable
  BY LoadableNow
<1>6. TypesOK /\ ReferencesInv /\ ReflectsInv /\ [Next]_allVars /\ TypesOK' /\ DebtOrLoadable' => NginxOK'
  BY NginxStep DEF ReflectsInv
<1>7. KnownOK' /\ MainOK' /\ EndpointsThere' /\ ConfOK' /\ NginxOK' => ReflectsInv'
  BY DEF ReflectsInv
<1>8. TypesOK /\ ReferencesInv /\ ReflectsInv => ConfigReflectsDependents
  BY ReflectsAtRest DEF ReflectsInv
<1>9. Spec => []TypesOK
  BY TypesInvariant
<1> QED
  BY <1>1, <1>2, <1>3, <1>4, <1>5, <1>6, <1>7, <1>8, <1>9, PTL DEF Spec
=============================================================================
