----------------------------- MODULE AtomicSync -----------------------------
(***************************************************************************)
(* What the controller promises about the secrets of a cluster, with no    *)
(* caches, queues, workers or replicas: a secret changes by an edit of a   *)
(* user, or in one atomic step that brings one version of a path a pod of  *)
(* the same namespace asked for, whole, under the keys it asked for, and   *)
(* leaves every other key as it is at that moment.                         *)
(***************************************************************************)
EXTENDS Naturals, Sequences

CONSTANTS Pods, Namespaces, NamespaceOf, SecretNames, Registered, Paths, Keys,
          Annotations, Absent, Foreign, NoSecret

VARIABLES
    requested,   \* <<pod, annotation>> pairs that ever existed
    stored,      \* path -> the key set of every version so far
    secrets      \* <<namespace, name>> -> data, managed, source, opaque

atomicVars == <<requested, stored, secrets>>

AtomicInit ==
    /\ requested = {}
    /\ stored \in [Paths -> {<<>>, <<Keys>>}]
    /\ secrets = [s \in Namespaces \X SecretNames |-> NoSecret]

\* A pod starts or is given another annotation.
Request(p, a) ==
    /\ requested' = requested \cup {<<p, a>>}
    /\ UNCHANGED <<stored, secrets>>

\* The owner of a path stores another version.
StoreVersion(path, keySet) ==
    /\ stored' = [stored EXCEPT ![path] = Append(@, keySet)]
    /\ UNCHANGED <<requested, secrets>>

\* A user replaces or deletes a secret.
Replace(s, k, opaque) ==
    /\ secrets[s] # NoSecret => opaque = secrets[s].opaque
    /\ secrets' = [secrets EXCEPT ![s] =
         [data |-> [j \in Keys |-> IF j = k THEN Foreign ELSE Absent],
          managed |-> FALSE, source |-> Absent, opaque |-> opaque]]
    /\ UNCHANGED <<requested, stored>>

Delete(s) ==
    /\ secrets' = [secrets EXCEPT ![s] = NoSecret]
    /\ UNCHANGED <<requested, stored>>

Valid(a) ==
    /\ a.text = "yaml"
    /\ a.provider \in Registered
    /\ a.path # Absent /\ a.secretName # Absent

\* The provider's key that an annotation wants under key k of the secret.
SourceKey(a, k) == IF \A j \in Keys : a.keys[j] = Absent THEN k ELSE a.keys[k]

Found(s, k) == IF secrets[s] = NoSecret THEN Absent ELSE secrets[s].data[k]

\* One version of the path reaches the secret the annotation names.
Sync(p, a, v) ==
    LET s == <<NamespaceOf[p], a.secretName>> IN
    /\ <<p, a>> \in requested
    /\ Valid(a)
    /\ secrets[s] # NoSecret => secrets[s].opaque
    /\ secrets' = [secrets EXCEPT ![s] =
         [data |-> [k \in Keys |->
                      IF SourceKey(a, k) \in stored[a.path][v]
                      THEN [path |-> a.path, key |-> SourceKey(a, k), ver |-> v]
                      ELSE Found(s, k)],
          managed |-> TRUE, source |-> a.path, opaque |-> TRUE]]
    /\ UNCHANGED <<requested, stored>>

AtomicNext ==
    \/ \E p \in Pods, a \in Annotations : Request(p, a)
    \/ \E path \in Paths, keySet \in SUBSET Keys : StoreVersion(path, keySet)
    \/ \E s \in Namespaces \X SecretNames, k \in Keys, opaque \in BOOLEAN :
         Replace(s, k, opaque)
    \/ \E s \in Namespaces \X SecretNames : Delete(s)
    \/ \E p \in Pods, a \in Annotations :
         a.path # Absent /\ \E v \in 1..Len(stored[a.path]) : Sync(p, a, v)

AtomicSpec == AtomicInit /\ [][AtomicNext]_atomicVars
=============================================================================
