---------------------------- MODULE SecretStore ----------------------------
(***************************************************************************)
(* The local secret store (internal/k8s/secrets/store.go) and the files it *)
(* manages through the Configurator.  A secret is written to the file      *)
(* system when a resource first asks for it, kept current from then on,    *)
(* and removed when it is deleted or becomes invalid.                      *)
(*                                                                         *)
(* A store is a record: refs maps the key of a stored secret to the secret *)
(* and to whether its reference has a Path; files maps file names to what  *)
(* is in them.  A key is a namespace and a name, each a sequence of the    *)
(* parts between its dashes.                                               *)
(***************************************************************************)
EXTENDS Naturals, Sequences, FiniteSets

SecretTypes == {"tls", "ca", "jwk", "oidc"}

EmptyStore == [refs |-> <<>>, files |-> <<>>]

\* keyToFileName and objectMetaToFileName: namespace and name, joined by a dash.
FileName(key) == key[1] \o key[2]

\* ValidateSecret checks the data that the type of the secret asks for.
ValidateSecret(s) == s.type \in SecretTypes /\ s.wellFormed

\* The client secret of OIDC goes into the config file, never to a file of its own.
HasFile(s) == s.type # "oidc"

SetKey(map, key, value) ==
  [k \in DOMAIN map \cup {key} |-> IF k = key THEN value ELSE map[k]]
UnsetKey(map, key) == [k \in DOMAIN map \ {key} |-> map[k]]

\* Configurator.AddOrUpdateSecret
WriteSecret(files, s) ==
  IF HasFile(s) THEN SetKey(files, FileName(s.name), s) ELSE files

\* Mutant: a secret that becomes invalid keeps its Path and its file.
AddOrUpdateKeepsFile(st, s) ==
  LET had == s.name \in DOMAIN st.refs /\ st.refs[s.name].path
  IN [refs |-> SetKey(st.refs, s.name, [secret |-> s, path |-> had /\ HasFile(s)]),
      files |-> IF had /\ ValidateSecret(s) THEN WriteSecret(st.files, s) ELSE st.files]

AddOrUpdateSecret(st, s) ==
  LET had == s.name \in DOMAIN st.refs /\ st.refs[s.name].path
      ok == ValidateSecret(s)
  IN [refs |-> SetKey(st.refs, s.name,
                      [secret |-> s, path |-> had /\ ok /\ HasFile(s)]),
      files |-> IF ~had THEN st.files
                ELSE IF ok THEN WriteSecret(st.files, s)
                ELSE UnsetKey(st.files, FileName(s.name))]

DeleteSecret(st, key) ==
  IF key \notin DOMAIN st.refs THEN st
  ELSE [refs |-> UnsetKey(st.refs, key),
        files |-> IF st.refs[key].path
                    THEN UnsetKey(st.files, FileName(key)) ELSE st.files]

\* GetSecret for each of the keys, as far as it changes the store: a valid secret
\* without a Path is written.
GetSecrets(st, keys) ==
  LET written == {k \in keys \cap DOMAIN st.refs :
                    /\ ValidateSecret(st.refs[k].secret) /\ ~st.refs[k].path
                    /\ HasFile(st.refs[k].secret)}
      owners(f) == {k \in written : FileName(k) = f}
  IN [refs |-> [k \in DOMAIN st.refs |->
                  IF k \in written THEN [st.refs[k] EXCEPT !.path = TRUE] ELSE st.refs[k]],
      files |-> [f \in DOMAIN st.files \cup {FileName(k) : k \in written} |->
                   IF owners(f) = {} THEN st.files[f]
                   ELSE st.refs[CHOOSE k \in owners(f) : TRUE].secret]]

\* addOrUpdateIngress and addOrUpdateMergeableIngress set the Path of the JWT
\* keys in the references they share with the store, whether or not they have a
\* file.
SetPaths(st, keys) ==
  [refs |-> [k \in DOMAIN st.refs |->
               IF k \in keys THEN [st.refs[k] EXCEPT !.path = TRUE] ELSE st.refs[k]],
   files |-> st.files]

\* The stored secrets that should have a file.
OnDisk(st) ==
  {k \in DOMAIN st.refs :
     st.refs[k].path /\ ValidateSecret(st.refs[k].secret) /\ HasFile(st.refs[k].secret)}

\* The secret files are those of the valid secrets whose reference has a Path,
\* each as it is stored: no stale key stays behind and none is missing.
Current(st) ==
  /\ DOMAIN st.files = {FileName(k) : k \in OnDisk(st)}
  /\ \A k \in OnDisk(st) : st.files[FileName(k)] = st.refs[k].secret
=============================================================================
