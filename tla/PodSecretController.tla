------------------------ MODULE PodSecretController ------------------------
(***************************************************************************)
(* The pod/secret reconciler of internal/controller, with the annotation   *)
(* parser it calls, the events it emits, the informer caches it reads      *)
(* through, the work queue that drives it and the API server it writes to. *)
(*                                                                         *)
(* A reconcile is split where it talks to something outside the process:   *)
(* StartReconcile reads the pod from the cache, FetchSecret calls the      *)
(* provider, ReadSecret reads the target secret from the cache and builds  *)
(* the object, WriteSecret sends it to the API server.  Everything else -  *)
(* users, other replicas, watch events - interleaves between these steps.  *)
(***************************************************************************)
EXTENDS Naturals, Sequences, FiniteSets

CONSTANTS
    Pods, Namespaces, NamespaceOf, SecretNames,
    Registered,     \* provider names in the registry (provider.go)
    Paths, Keys,
    Annotations,    \* the annotation values users give to pods
    Replicas,       \* controller processes running at once
    Absent,         \* no value under a key, no field in an annotation
    Foreign,        \* a value a user wrote into a secret
    NoPod, NoSecret,
    ClockPeriod,    \* bound: RFC3339 seconds are counted modulo this
    MaxEdits,       \* bound: user and provider changes
    MaxFaults,      \* bound: transport errors and process restarts
    MaxPending      \* bound: undelivered watch events of one secret

AnnotationType ==
    [text : {"none", "malformed", "yaml"}, provider : STRING,
     path : Paths \cup {Absent}, secretName : SecretNames \cup {Absent},
     keys : [Keys -> Keys \cup {Absent}]]

Values == [path : Paths, key : Keys, ver : Nat \ {0}]

ASSUME TopologyAssumption == NamespaceOf \in [Pods -> Namespaces]
ASSUME AnnotationAssumption == Annotations \subseteq AnnotationType
ASSUME SentinelAssumption ==
    /\ Absent \notin Keys \cup Paths \cup SecretNames \cup Values
    /\ Foreign \notin Values \cup {Absent}
    /\ NoPod \notin Pods \cup AnnotationType
    /\ NoSecret \notin
         [data : [Keys -> Values \cup {Foreign, Absent}], managed : BOOLEAN,
          source : Paths \cup {Absent}, stamp : Nat, opaque : BOOLEAN]
    /\ NoSecret \notin
         [data : [Keys -> Values \cup {Foreign, Absent}], managed : BOOLEAN,
          source : Paths \cup {Absent}, opaque : BOOLEAN]
ASSUME BoundAssumption ==
    /\ ClockPeriod \in Nat \ {0} /\ MaxEdits \in Nat
    /\ MaxFaults \in Nat /\ MaxPending \in Nat

VARIABLES
    pods,        \* API server: pod -> its annotation, or NoPod
    secrets,     \* API server: <<namespace, name>> -> secret, or NoSecret
    vault,       \* provider: path -> key set of every version so far
    now,         \* wall clock, in seconds
    podCache, secretCache,     \* per replica: informer caches
    podWatch, secretWatch,     \* per replica and object: events on the way
    queue, backoff,            \* per replica: pods to reconcile, pods held back
    worker,      \* per replica: the reconcile in progress
    reported,    \* last Kubernetes event emitted on each pod
    asked,       \* history: <<pod, annotation>> pairs that ever existed
    due,         \* history: provider version when the annotation was set
    edits, faults

cluster   == <<pods, secrets, vault, now>>
informers == <<podCache, secretCache, podWatch, secretWatch>>
process   == <<queue, backoff, worker>>
history   == <<asked, due>>
vars == <<cluster, informers, process, reported, history, edits, faults>>

SecretKeys == Namespaces \X SecretNames
Data == [Keys -> Values \cup {Foreign, Absent}]
Secret == [data : Data, managed : BOOLEAN, source : Paths \cup {Absent},
           stamp : Nat, opaque : BOOLEAN]
Reasons == {"none", "SecretSyncSuccess", "AnnotationInvalid",
            "ProviderUnsupported", "SecretFetchFailed"}

Nothing == [k \in Keys |-> Absent]
Idle == [pc |-> "idle", pod |-> NoPod, ann |-> NoPod, fetched |-> Nothing,
         base |-> NoSecret, fresh |-> FALSE, obj |-> NoSecret]
Worker == [pc : {"idle", "fetch", "get", "write"}, pod : Pods \cup {NoPod},
           ann : Annotations \cup {NoPod}, fetched : [Keys -> Values \cup {Absent}],
           base : Secret \cup {NoSecret}, fresh : BOOLEAN,
           obj : Secret \cup {NoSecret}]

-----------------------------------------------------------------------------
(* ParseAnnotation: an annotation that is present, is YAML and has the      *)
(* three required fields.                                                   *)
ParseOk(a) ==
    /\ a.text = "yaml"
    /\ a.provider # ""
    /\ a.path # Absent
    /\ a.secretName # Absent

\* The parser copies the pod's own namespace into the request.
Target(p, a) == <<NamespaceOf[p], a.secretName>>

\* What the provider holds under a path in one of its versions.
Snapshot(path, v) ==
    [k \in Keys |-> IF k \in vault[path][v]
                    THEN [path |-> path, key |-> k, ver |-> v] ELSE Absent]

HasMapping(keys) == \E k \in Keys : keys[k] # Absent

MapKeysCopiesUnmapped(fetched, keys) ==
    IF HasMapping(keys)
    THEN [k \in Keys |-> IF keys[k] # Absent THEN fetched[keys[k]] ELSE fetched[k]]
    ELSE fetched

\* Key mapping of Reconcile: without one every key is copied as it is.
MapKeys(fetched, keys) ==
    IF HasMapping(keys)
    THEN [k \in Keys |-> IF keys[k] # Absent THEN fetched[keys[k]] ELSE Absent]
    ELSE fetched

\* The API server merges StringData over the Data of the submitted object.
Overlay(data, stringData) ==
    [k \in Keys |-> IF stringData[k] # Absent THEN stringData[k] ELSE data[k]]

(* The object Reconcile submits, built on the cached secret.                *)
DesiredSecret(a, fetched, base) ==
    [data |-> Overlay(IF base = NoSecret THEN Nothing ELSE base.data,
                      MapKeys(fetched, a.keys)),
     managed |-> TRUE, source |-> a.path, stamp |-> now, opaque |-> TRUE]

(* findPodsForSecret: pods in the replica's cache that name this secret.    *)
FindPodsForSecret(cache, s, secret) ==
    IF secret = NoSecret THEN {}
    ELSE {p \in Pods : /\ secret.managed          \* the managed-by label
                       /\ cache[p] # NoPod
                       /\ NamespaceOf[p] = s[1]
                       /\ ParseOk(cache[p])
                       /\ cache[p].secretName = s[2]}

-----------------------------------------------------------------------------
Init ==
    /\ pods = [p \in Pods |-> NoPod]
    /\ secrets = [s \in SecretKeys |-> NoSecret]
    /\ vault \in [Paths -> {<<>>, <<Keys>>}]
    /\ now = 0
    /\ podCache = [r \in Replicas |-> pods]
    /\ secretCache = [r \in Replicas |-> secrets]
    /\ podWatch = [r \in Replicas |-> [p \in Pods |-> <<>>]]
    /\ secretWatch = [r \in Replicas |-> [s \in SecretKeys |-> <<>>]]
    /\ queue = [r \in Replicas |-> {}]
    /\ backoff = [r \in Replicas |-> {}]
    /\ worker = [r \in Replicas |-> Idle]
    /\ reported = [p \in Pods |-> "none"]
    /\ asked = {}
    /\ due = [p \in Pods |-> 0]
    /\ edits = 0
    /\ faults = 0

-----------------------------------------------------------------------------
(* The cluster's users, the provider's owner and the clock.                 *)

Edit == edits < MaxEdits /\ edits' = edits + 1
Fault == faults < MaxFaults /\ faults' = faults + 1

\* A pod is created, restarted under the same name, re-annotated, or only
\* changes its status; each reaches every informer as one watch event.
SetPod(p, a) ==
    /\ Edit
    /\ pods' = [pods EXCEPT ![p] = a]
    /\ podWatch' = [r \in Replicas |-> [podWatch[r] EXCEPT ![p] = Append(@, a)]]
    /\ asked' = asked \cup {<<p, a>>}
    /\ due' = [due EXCEPT ![p] = IF a.path = Absent THEN 0 ELSE Len(vault[a.path])]
    /\ UNCHANGED <<secrets, vault, now, podCache, secretCache, secretWatch,
                   process, reported, faults>>

DeletePod(p) ==
    /\ pods[p] # NoPod
    /\ Edit
    /\ pods' = [pods EXCEPT ![p] = NoPod]
    /\ podWatch' = [r \in Replicas |-> [podWatch[r] EXCEPT ![p] = Append(@, NoPod)]]
    /\ UNCHANGED <<secrets, vault, now, podCache, secretCache, secretWatch,
                   process, reported, history, faults>>

\* The owner of a path stores a new version with any set of keys.  Paths are
\* never deleted.
Rotate(path, keySet) ==
    /\ Edit
    /\ vault' = [vault EXCEPT ![path] = Append(@, keySet)]
    /\ UNCHANGED <<pods, secrets, now, informers, process, reported, history,
                   faults>>

\* A write of secret s that the API server accepts: every watcher will hear of
\* it, and a worker holding an earlier resourceVersion of s holds a stale one.
StaleOn(w, s) ==
    IF w.pc = "write" /\ Target(w.pod, w.ann) = s
    THEN [w EXCEPT !.fresh = FALSE] ELSE w

Commit(s, secret) ==
    /\ \A r \in Replicas : Len(secretWatch[r][s]) < MaxPending
    /\ secrets' = [secrets EXCEPT ![s] = secret]
    /\ secretWatch' = [r \in Replicas |->
                         [secretWatch[r] EXCEPT ![s] = Append(@, secret)]]

\* A user creates or replaces a secret; the type of an existing one is immutable.
UserWrite(s, k, opaque) ==
    /\ secrets[s] # NoSecret => opaque = secrets[s].opaque
    /\ Edit
    /\ Commit(s, [data |-> [Nothing EXCEPT ![k] = Foreign], managed |-> FALSE,
                  source |-> Absent, stamp |-> 0, opaque |-> opaque])
    /\ worker' = [r \in Replicas |-> StaleOn(worker[r], s)]
    /\ UNCHANGED <<pods, vault, now, podCache, secretCache, podWatch, queue,
                   backoff, reported, history, faults>>

UserDelete(s) ==
    /\ secrets[s] # NoSecret
    /\ Edit
    /\ Commit(s, NoSecret)
    /\ worker' = [r \in Replicas |-> StaleOn(worker[r], s)]
    /\ UNCHANGED <<pods, vault, now, podCache, secretCache, podWatch, queue,
                   backoff, reported, history, faults>>

Tick ==
    /\ now' = (now + 1) % ClockPeriod
    /\ UNCHANGED <<pods, secrets, vault, informers, process, reported, history,
                   edits, faults>>

-----------------------------------------------------------------------------
(* Informers and work queue: For(Pod) and Watches(Secret, findPodsForSecret) *)
(* of SetupWithManager, with no predicate.                                   *)

DeliverPodOnlyNew(r, p) ==
    /\ podWatch[r][p] # <<>>
    /\ podCache' = [podCache EXCEPT ![r][p] = Head(podWatch[r][p])]
    /\ podWatch' = [podWatch EXCEPT ![r][p] = Tail(@)]
    /\ queue' = [queue EXCEPT ![r] = IF podCache[r][p] = NoPod THEN @ \cup {p} ELSE @]
    /\ UNCHANGED <<cluster, secretCache, secretWatch, backoff, worker, reported,
                   history, edits, faults>>

DeliverPod(r, p) ==
    /\ podWatch[r][p] # <<>>
    /\ podCache' = [podCache EXCEPT ![r][p] = Head(podWatch[r][p])]
    /\ podWatch' = [podWatch EXCEPT ![r][p] = Tail(@)]
    /\ queue' = [queue EXCEPT ![r] = @ \cup {p}]
    /\ UNCHANGED <<cluster, secretCache, secretWatch, backoff, worker, reported,
                   history, edits, faults>>

\* The mapping function is applied to the old object and to the new one.
DeliverSecret(r, s) ==
    /\ secretWatch[r][s] # <<>>
    /\ secretCache' = [secretCache EXCEPT ![r][s] = Head(secretWatch[r][s])]
    /\ secretWatch' = [secretWatch EXCEPT ![r][s] = Tail(@)]
    /\ queue' = [queue EXCEPT ![r] = @
          \cup FindPodsForSecret(podCache[r], s, secretCache[r][s])
          \cup FindPodsForSecret(podCache[r], s, Head(secretWatch[r][s]))]
    /\ UNCHANGED <<cluster, podCache, podWatch, backoff, worker, reported,
                   history, edits, faults>>

\* A reconcile that returned an error comes back after the rate limiter's delay.
BackoffElapsed(r, p) ==
    /\ p \in backoff[r]
    /\ backoff' = [backoff EXCEPT ![r] = @ \ {p}]
    /\ queue' = [queue EXCEPT ![r] = @ \cup {p}]
    /\ UNCHANGED <<cluster, informers, worker, reported, history, edits, faults>>

\* The informers list the cluster, and every pod is reconciled.
Relist(r) ==
    /\ podCache' = [podCache EXCEPT ![r] = pods]
    /\ secretCache' = [secretCache EXCEPT ![r] = secrets]
    /\ podWatch' = [podWatch EXCEPT ![r] = [p \in Pods |-> <<>>]]
    /\ secretWatch' = [secretWatch EXCEPT ![r] = [s \in SecretKeys |-> <<>>]]
    /\ queue' = [queue EXCEPT ![r] = {p \in Pods : pods[p] # NoPod}]

\* The process dies and starts again, or another replica takes over: nothing of
\* it survives.
Restart(r) ==
    /\ Fault
    /\ Relist(r)
    /\ backoff' = [backoff EXCEPT ![r] = {}]
    /\ worker' = [worker EXCEPT ![r] = Idle]
    /\ UNCHANGED <<cluster, reported, history, edits>>

-----------------------------------------------------------------------------
(* Reconcile.                                                                *)

Emit(p, reason) == reported' = [reported EXCEPT ![p] = reason]

\* return ctrl.Result{}, nil
Done(r) == /\ worker' = [worker EXCEPT ![r] = Idle]
           /\ UNCHANGED backoff

RequeueAfterReset(r) ==
    /\ worker' = [worker EXCEPT ![r] = Idle]
    /\ backoff' = [backoff EXCEPT ![r] = @ \cup {worker'[r].pod}]

\* return ..., err: the work queue holds the pod back and tries it again
Requeue(r) == /\ worker' = [worker EXCEPT ![r] = Idle]
              /\ backoff' = [backoff EXCEPT ![r] = @ \cup {worker[r].pod}]

\* The pod is taken from the queue and read from the cache; a pod that is gone,
\* has no annotation, has an invalid one or names an unknown provider is done.
Take(r, p, known) ==
    LET a == podCache[r][p] IN
    /\ worker[r].pc = "idle"
    /\ p \in queue[r]
    /\ queue' = [queue EXCEPT ![r] = @ \ {p}]
    /\ \/ /\ \/ a = NoPod
             \/ a # NoPod /\ a.text = "none"
          /\ Done(r)
          /\ UNCHANGED reported
       \/ /\ a # NoPod /\ a.text # "none" /\ ~ParseOk(a)
          /\ Emit(p, "AnnotationInvalid")
          /\ Done(r)
       \/ /\ a # NoPod /\ ParseOk(a) /\ a.provider \notin known
          /\ Emit(p, "ProviderUnsupported")
          /\ Done(r)
       \/ /\ a # NoPod /\ ParseOk(a) /\ a.provider \in known
          /\ worker' = [worker EXCEPT ![r] =
                          [Idle EXCEPT !.pc = "fetch", !.pod = p, !.ann = a]]
          /\ UNCHANGED <<backoff, reported>>
    /\ UNCHANGED <<cluster, informers, history, edits, faults>>

StartReconcile(r, p) == Take(r, p, Registered)

\* The Get of the pod returns an error other than NotFound.
StartReconcileFails(r, p) ==
    /\ worker[r].pc = "idle"
    /\ p \in queue[r]
    /\ Fault
    /\ queue' = [queue EXCEPT ![r] = @ \ {p}]
    /\ backoff' = [backoff EXCEPT ![r] = @ \cup {p}]
    /\ UNCHANGED <<cluster, informers, worker, reported, history, edits>>

FetchSecretAnyVersion(r) ==
    LET path == worker[r].ann.path IN
    /\ worker[r].pc = "fetch"
    /\ \E v \in 1..Len(vault[path]) :
         worker' = [worker EXCEPT ![r].pc = "get", ![r].fetched = Snapshot(path, v)]
    /\ UNCHANGED <<cluster, informers, queue, backoff, reported, history, edits,
                   faults>>

\* The provider answers with what it holds at that moment.
FetchSecret(r) ==
    LET path == worker[r].ann.path IN
    /\ worker[r].pc = "fetch"
    /\ vault[path] # <<>>
    /\ worker' = [worker EXCEPT ![r].pc = "get",
                                ![r].fetched = Snapshot(path, Len(vault[path]))]
    /\ UNCHANGED <<cluster, informers, queue, backoff, reported, history, edits,
                   faults>>

\* The path does not exist, or the call fails.
FetchSecretFails(r) ==
    /\ worker[r].pc = "fetch"
    /\ \/ vault[worker[r].ann.path] = <<>> /\ UNCHANGED faults
       \/ vault[worker[r].ann.path] # <<>> /\ Fault
    /\ Emit(worker[r].pod, "SecretFetchFailed")
    /\ Requeue(r)
    /\ UNCHANGED <<cluster, informers, queue, history, edits>>

\* The target is read from the cache (fresh when no newer version exists), the
\* mapped keys, label, source path and time are put on it.
ReadSecret(r) ==
    LET w == worker[r]
        s == Target(w.pod, w.ann)
        base == secretCache[r][s] IN
    /\ w.pc = "get"
    /\ worker' = [worker EXCEPT ![r] =
         [w EXCEPT !.pc = "write", !.base = base, !.fetched = Nothing,
                   !.fresh = (secretWatch[r][s] = <<>>),
                   !.obj = DesiredSecret(w.ann, w.fetched, base)]]
    /\ UNCHANGED <<cluster, informers, queue, backoff, reported, history, edits,
                   faults>>

ReadSecretFails(r) ==
    /\ worker[r].pc = "get"
    /\ Fault
    /\ Requeue(r)
    /\ UNCHANGED <<cluster, informers, queue, reported, history, edits>>

AcceptedWithoutVersion(w) ==
    IF w.base = NoSecret
    THEN secrets[Target(w.pod, w.ann)] = NoSecret
    ELSE /\ secrets[Target(w.pod, w.ann)] # NoSecret
         /\ w.base.opaque

\* The API server takes a Create when the name is free, and an Update when the
\* object still has the resourceVersion that was read and keeps its type.
Accepted(w) ==
    IF w.base = NoSecret
    THEN secrets[Target(w.pod, w.ann)] = NoSecret
    ELSE /\ secrets[Target(w.pod, w.ann)] # NoSecret
         /\ w.fresh
         /\ w.base.opaque

\* Applied by the API server; an update that changes nothing is not an event.
Apply(r) ==
    LET w == worker[r]
        s == Target(w.pod, w.ann) IN
    \/ /\ secrets[s] = w.obj
       /\ worker' = [worker EXCEPT ![r] = Idle]
       /\ UNCHANGED <<secrets, secretWatch>>
    \/ /\ secrets[s] # w.obj
       /\ Commit(s, w.obj)
       /\ worker' = [q \in Replicas |-> IF q = r THEN Idle ELSE StaleOn(worker[q], s)]

WriteSecret(r) ==
    /\ worker[r].pc = "write"
    /\ Accepted(worker[r])
    /\ Apply(r)
    /\ Emit(worker[r].pod, "SecretSyncSuccess")
    /\ UNCHANGED <<pods, vault, now, podCache, secretCache, podWatch, queue,
                   backoff, history, edits, faults>>

WriteSecretRejectedDropped(r) ==
    /\ worker[r].pc = "write"
    /\ ~Accepted(worker[r])
    /\ Done(r)
    /\ UNCHANGED <<cluster, informers, queue, reported, history, edits, faults>>

\* Conflict, AlreadyExists, NotFound, Invalid: an error and no event.
WriteSecretRejected(r) ==
    /\ worker[r].pc = "write"
    /\ ~Accepted(worker[r])
    /\ Requeue(r)
    /\ UNCHANGED <<cluster, informers, queue, reported, history, edits, faults>>

\* The call fails on the way there, or on the way back after it was applied.
WriteSecretFails(r) ==
    /\ worker[r].pc = "write"
    /\ Fault
    /\ backoff' = [backoff EXCEPT ![r] = @ \cup {worker[r].pod}]
    /\ \/ /\ worker' = [worker EXCEPT ![r] = Idle]
          /\ UNCHANGED <<secrets, secretWatch>>
       \/ /\ Accepted(worker[r])
          /\ Apply(r)
    /\ UNCHANGED <<pods, vault, now, podCache, secretCache, podWatch, queue,
                   reported, history, edits>>

-----------------------------------------------------------------------------
Environment ==
    \/ \E p \in Pods : DeletePod(p) \/ \E a \in Annotations : SetPod(p, a)
    \/ \E path \in Paths, keySet \in SUBSET Keys : Rotate(path, keySet)
    \/ \E s \in SecretKeys : UserDelete(s)
    \/ \E s \in SecretKeys, k \in Keys, opaque \in BOOLEAN : UserWrite(s, k, opaque)
    \/ Tick

Reconcile(r) ==
    \/ \E p \in Pods : StartReconcile(r, p) \/ StartReconcileFails(r, p)
    \/ FetchSecret(r) \/ FetchSecretFails(r)
    \/ ReadSecret(r) \/ ReadSecretFails(r)
    \/ WriteSecret(r) \/ WriteSecretRejected(r) \/ WriteSecretFails(r)

Runtime(r) ==
    \/ \E p \in Pods : DeliverPod(r, p) \/ BackoffElapsed(r, p)
    \/ \E s \in SecretKeys : DeliverSecret(r, s)
    \/ Restart(r)

Next == Environment \/ \E r \in Replicas : Runtime(r) \/ Reconcile(r)

(* Watch events arrive, delays end, calls return and the FIFO work queue     *)
(* gets to every pod in it; the clock advances.                              *)
Fairness ==
    /\ WF_vars(Tick)
    /\ \A r \in Replicas :
         /\ \A p \in Pods : /\ WF_vars(DeliverPod(r, p))
                            /\ WF_vars(BackoffElapsed(r, p))
                            /\ SF_vars(StartReconcile(r, p))
         /\ \A s \in SecretKeys : WF_vars(DeliverSecret(r, s))
         /\ WF_vars(FetchSecret(r)) /\ WF_vars(FetchSecretFails(r))
         /\ WF_vars(ReadSecret(r))
         /\ WF_vars(WriteSecret(r)) /\ WF_vars(WriteSecretRejected(r))

Spec == Init /\ [][Next]_vars
FairSpec == Spec /\ Fairness
-----------------------------------------------------------------------------
(* Every variable has its type.                                             *)
TypeOK ==
    /\ pods \in [Pods -> Annotations \cup {NoPod}]
    /\ secrets \in [SecretKeys -> Secret \cup {NoSecret}]
    /\ vault \in [Paths -> Seq(SUBSET Keys)]
    /\ now \in Nat
    /\ podCache \in [Replicas -> [Pods -> Annotations \cup {NoPod}]]
    /\ secretCache \in [Replicas -> [SecretKeys -> Secret \cup {NoSecret}]]
    /\ podWatch \in [Replicas -> [Pods -> Seq(Annotations \cup {NoPod})]]
    /\ secretWatch \in [Replicas -> [SecretKeys -> Seq(Secret \cup {NoSecret})]]
    /\ queue \in [Replicas -> SUBSET Pods]
    /\ backoff \in [Replicas -> SUBSET Pods]
    /\ worker \in [Replicas -> Worker]
    /\ \A r \in Replicas : worker[r].pc # "idle" =>
         /\ worker[r].pod \in Pods
         /\ worker[r].ann \in Annotations
         /\ ParseOk(worker[r].ann)
    /\ reported \in [Pods -> Reasons]
    /\ asked \subseteq Pods \X Annotations
    /\ due \in [Pods -> Nat]
    /\ edits \in 0..MaxEdits
    /\ faults \in 0..MaxFaults

\* A value the provider holds at v.path, v.key may stand under key k of secret s
\* when a pod of that namespace asked for exactly that.
Licensed(s, k, v) ==
    \E pa \in asked :
        /\ ParseOk(pa[2])
        /\ pa[2].provider \in Registered
        /\ NamespaceOf[pa[1]] = s[1]
        /\ pa[2].secretName = s[2]
        /\ pa[2].path = v.path
        /\ v.key = IF HasMapping(pa[2].keys) THEN pa[2].keys[k] ELSE k

LicensedSecret(s, secret) ==
    secret # NoSecret =>
        \A k \in Keys : secret.data[k] \in Values => Licensed(s, k, secret.data[k])

(* Namespace isolation and key mapping: whatever caches, retries and other  *)
(* replicas do, a provider value stands in a secret only where an annotation *)
(* on a pod of the same namespace asked for that path, secret name and key. *)
OnlyWhatWasAsked == \A s \in SecretKeys : LicensedSecret(s, secrets[s])

(* No lost update: a step of the controller never removes a secret, and     *)
(* leaves every key of it as it finds it or puts a provider value there,    *)
(* however stale the cached copy its object was built on.                   *)
KeepsWhatItFinds ==
    \A s \in SecretKeys : secrets[s] # NoSecret =>
        /\ secrets'[s] # NoSecret
        /\ \A k \in Keys : \/ secrets'[s].data[k] = secrets[s].data[k]
                           \/ secrets'[s].data[k] \in Values
NoLostUpdate == [][edits' = edits => KeepsWhatItFinds]_vars

(* With one active replica the value of a key never goes back to an earlier *)
(* version of the same path, whatever fails and is retried in between.      *)
NewerOrSame(v, w) == (v.path = w.path /\ v.key = w.key) => v.ver <= w.ver
NoRegression ==
    \A s \in SecretKeys, k \in Keys :
        /\ secrets[s] # NoSecret /\ secrets'[s] # NoSecret
        /\ secrets[s].data[k] \in Values /\ secrets'[s].data[k] \in Values
        => NewerOrSame(secrets[s].data[k], secrets'[s].data[k])
NeverOlder == [][NoRegression]_vars

\* A secret without its synced-at time.
Untimed(secret) ==
    IF secret = NoSecret THEN NoSecret
    ELSE [data |-> secret.data, managed |-> secret.managed,
          source |-> secret.source, opaque |-> secret.opaque]

Atomic == INSTANCE AtomicSync WITH
            requested <- asked, stored <- vault,
            secrets <- [s \in SecretKeys |-> Untimed(secrets[s])]

(* The reconcile is atomic to an observer of the cluster: the read from a   *)
(* lagging cache, the fetch and the write, interleaved with other replicas, *)
(* users, rotations, crashes and lost answers, change a secret only the way *)
(* one indivisible step on its present content would.                       *)
ImplementsAtomicSync == Atomic!AtomicSpec

\* Pods the controller can serve: a valid annotation, a known provider, a path
\* that exists, no pod that wants something else under the same secret name, and
\* no secret of another type in the way.
Servable(p) ==
    /\ pods[p] # NoPod /\ ParseOk(pods[p])
    /\ pods[p].provider \in Registered
    /\ vault[pods[p].path] # <<>>
    /\ \A q \in Pods : pods[q] # NoPod /\ ParseOk(pods[q])
                         /\ Target(q, pods[q]) = Target(p, pods[p])
                         => pods[q] = pods[p]
    /\ LET s == secrets[Target(p, pods[p])] IN s = NoSecret \/ s.opaque

\* The secret holds, under the pod's mapping, one version of the path as a
\* whole, and none older than a given one.
SyncedSince(p, oldest) ==
    LET a == pods[p]
        s == secrets[Target(p, a)] IN
    /\ s # NoSecret
    /\ s.managed
    /\ \E v \in 1..Len(vault[a.path]) :
         LET want == MapKeys(Snapshot(a.path, v), a.keys) IN
         /\ v >= oldest
         /\ \A k \in Keys : want[k] # Absent => s.data[k] = want[k]

\* ... than the one that was there when the pod started.
Synced(p) == SyncedSince(p, due[p])

(* Once users and faults stop, every servable pod ends with its secret in   *)
(* place for good: started, re-annotated, or its secret deleted or replaced *)
(* in the middle of a reconcile.                                            *)
EventuallySynced == \A p \in Pods : <>[](Servable(p) => Synced(p))

\* The event that describes a pod's annotation.
Verdict(p) ==
    IF ~ParseOk(pods[p]) THEN "AnnotationInvalid"
    ELSE IF pods[p].provider \notin Registered THEN "ProviderUnsupported"
    ELSE IF vault[pods[p].path] = <<>> THEN "SecretFetchFailed"
    ELSE "SecretSyncSuccess"

\* Nothing is left to do in any replica.
Quiet ==
    \A r \in Replicas :
        /\ queue[r] = {} /\ backoff[r] = {} /\ worker[r] = Idle
        /\ \A p \in Pods : podWatch[r][p] = <<>>
        /\ \A s \in SecretKeys : secretWatch[r][s] = <<>>

(* README, "Event-driven: No polling": once pods and secrets are left alone *)
(* the controller stops calling the provider.                               *)
NoPolling == (edits = MaxEdits) ~> (Quiet \/ \E p \in Pods : pods[p] # NoPod /\ ~Servable(p))

(* README, "When keys is provided, only specified keys are included in the  *)
(* Kubernetes secret": once a pod's sync has settled, no provider value     *)
(* stands under a key its mapping does not name.                            *)
OnlySpecifiedKeys ==
    Quiet => \A p \in Pods :
        /\ Servable(p) /\ HasMapping(pods[p].keys)
        /\ reported[p] = "SecretSyncSuccess"
        => \A k \in Keys : secrets[Target(p, pods[p])].data[k] \in Values
                              => pods[p].keys[k] # Absent
=============================================================================
