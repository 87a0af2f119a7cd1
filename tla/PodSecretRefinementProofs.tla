---------------------- MODULE PodSecretRefinementProofs ----------------------
(* PodSecretController implements AtomicSync: to an observer of the cluster *)
(* a reconcile happens at once, at the moment the API server accepts its    *)
(* write.                                                                   *)
EXTENDS PodSecretSafetyProofs

-----------------------------------------------------------------------------
\* What an annotation wants under key k, given version v of its path and what
\* was there before.
Wanted(a, v, k, old) ==
    IF Atomic!SourceKey(a, k) \in vault[a.path][v]
    THEN [path |-> a.path, key |-> Atomic!SourceKey(a, k), ver |-> v] ELSE old

Before(base, k) == IF base = NoSecret THEN Absent ELSE base.data[k]

\* After the fetch a worker holds one version of its path, whole; once it has
\* read the secret, its object is that version on top of what it read.
WorkOfOneVersion(w) ==
    /\ w.pc = "get" => \E v \in 1..Len(vault[w.ann.path]) :
                          w.fetched = Snapshot(w.ann.path, v)
    /\ w.pc = "write" =>
         /\ w.obj.managed /\ w.obj.opaque /\ w.obj.source = w.ann.path
         /\ \E v \in 1..Len(vault[w.ann.path]) : \A k \in Keys :
               w.obj.data[k] = Wanted(w.ann, v, k, Before(w.base, k))
VersionInv == \A r \in Replicas : WorkOfOneVersion(worker[r])

\* Old versions of a path never change.
VaultGrows ==
    \A path \in Paths : /\ Len(vault[path]) \in Nat /\ Len(vault'[path]) \in Nat
                        /\ Len(vault[path]) <= Len(vault'[path])
                        /\ \A v \in 1..Len(vault[path]) : vault'[path][v] = vault[path][v]

SameWork(w, z) ==
    /\ z.pc = w.pc /\ z.ann = w.ann /\ z.fetched = w.fetched
    /\ z.base = w.base /\ z.obj = w.obj

(* The provider adds versions and removes none.                             *)
LEMMA StepGrows ==
    ASSUME TypeOK,
           \/ vault' = vault
           \/ \E path \in Paths, keySet \in SUBSET Keys :
                vault' = [vault EXCEPT ![path] = Append(@, keySet)]
    PROVE  VaultGrows
<1> SUFFICES ASSUME NEW q \in Paths
             PROVE  /\ Len(vault[q]) \in Nat /\ Len(vault'[q]) \in Nat
                    /\ Len(vault[q]) <= Len(vault'[q])
                    /\ \A v \in 1..Len(vault[q]) : vault'[q][v] = vault[q][v]
  BY DEF VaultGrows
<1>1. vault[q] \in Seq(SUBSET Keys) /\ Len(vault[q]) \in Nat
  BY DEF TypeOK
<1>2. CASE vault'[q] = vault[q]
  BY <1>1, <1>2
<1>3. CASE \E keySet \in SUBSET Keys : vault'[q] = Append(vault[q], keySet)
  BY <1>1, <1>3
<1> QED
  BY <1>2, <1>3 DEF TypeOK

(* What was one version of a path stays one version of it.                  *)
LEMMA WorkStays ==
    ASSUME TypeOK, VaultGrows, NEW r \in Replicas, WorkOfOneVersion(worker[r]),
           SameWork(worker[r], worker'[r])
    PROVE  WorkOfOneVersion(worker[r])'
<1> DEFINE w == worker[r]
           path == w.ann.path
<1>1. CASE w.pc \notin {"get", "write"}
  BY <1>1 DEF WorkOfOneVersion, SameWork
<1>2. CASE w.pc \in {"get", "write"}
  <2>1. path \in Paths
    BY <1>2, AnnotationAssumption DEF TypeOK, ParseOk, AnnotationType
  <2>2. \A v \in 1..Len(vault[path]) :
           v \in 1..Len(vault'[path]) /\ vault'[path][v] = vault[path][v]
    BY <2>1 DEF VaultGrows
  <2>3. CASE w.pc = "get"
    <3>1. PICK v \in 1..Len(vault[path]) : w.fetched = Snapshot(path, v)
      BY <2>3 DEF WorkOfOneVersion
    <3>2. Snapshot(path, v) = [k \in Keys |->
             IF k \in vault'[path][v]
             THEN [path |-> path, key |-> k, ver |-> v] ELSE Absent]
      BY <2>2 DEF Snapshot
    <3>3. /\ worker'[r].pc = "get" /\ worker'[r].ann.path = path
          /\ worker'[r].fetched = Snapshot(path, v) /\ v \in 1..Len(vault'[path])
      BY <2>2, <2>3, <3>1 DEF SameWork
    <3> HIDE DEF w, path
    <3> QED
      BY <3>2, <3>3 DEF WorkOfOneVersion, Snapshot
  <2>4. CASE w.pc = "write"
    <3>1. PICK v \in 1..Len(vault[path]) : \A k \in Keys :
             w.obj.data[k] = Wanted(w.ann, v, k, Before(w.base, k))
      BY <2>4 DEF WorkOfOneVersion
    <3>2. \A k \in Keys : w.obj.data[k] =
             IF Atomic!SourceKey(w.ann, k) \in vault'[path][v]
             THEN [path |-> path, key |-> Atomic!SourceKey(w.ann, k), ver |-> v]
             ELSE Before(w.base, k)
      BY <2>2, <3>1 DEF Wanted
    <3>3. w.obj.managed /\ w.obj.opaque /\ w.obj.source = path
      BY <2>4 DEF WorkOfOneVersion
    <3>4. /\ worker'[r].pc = "write" /\ worker'[r].ann = w.ann
          /\ worker'[r].base = w.base /\ worker'[r].obj = w.obj
          /\ v \in 1..Len(vault'[path])
      BY <2>2, <2>4 DEF SameWork
    <3> HIDE DEF w
    <3> QED
      BY <3>2, <3>3, <3>4
         DEF WorkOfOneVersion, Wanted, Before, Atomic!SourceKey
  <2> QED
    BY <1>2, <2>3, <2>4
<1> QED
  BY <1>1, <1>2

(* Mapping one version and merging it over a secret gives every key what    *)
(* the annotation wants there.                                              *)
LEMMA DesiredOfVersion ==
    ASSUME TypeOK, NEW a \in Annotations, ParseOk(a),
           NEW v \in 1..Len(vault[a.path]), NEW base \in Secret \cup {NoSecret},
           NEW k \in Keys
    PROVE  DesiredSecret(a, Snapshot(a.path, v), base).data[k]
             = Wanted(a, v, k, Before(base, k))
<1> DEFINE snap == Snapshot(a.path, v)
           source == Atomic!SourceKey(a, k)
           old == IF base = NoSecret THEN Nothing ELSE base.data
<1>1. a.path \in Paths /\ a.keys \in [Keys -> Keys \cup {Absent}]
  BY AnnotationAssumption DEF AnnotationType, ParseOk
<1>2. vault[a.path] \in Seq(SUBSET Keys) /\ v \in Nat \ {0} /\ vault[a.path][v] \subseteq Keys
  BY <1>1 DEF TypeOK
<1>3. Absent \notin Keys /\ Absent \notin Values
  BY SentinelAssumption
<1>4. \A j \in Keys : /\ [path |-> a.path, key |-> j, ver |-> v] \in Values
                      /\ [path |-> a.path, key |-> j, ver |-> v] # Absent
  BY <1>1, <1>2, <1>3 DEF Values
<1>5. \A j \in Keys : snap[j] = IF j \in vault[a.path][v]
                               THEN [path |-> a.path, key |-> j, ver |-> v] ELSE Absent
  BY DEF Snapshot
<1>6. source = IF HasMapping(a.keys) THEN a.keys[k] ELSE k
  BY DEF Atomic!SourceKey, HasMapping
<1>7. source \in Keys \cup {Absent}
  BY <1>1, <1>6
<1>8. MapKeys(snap, a.keys)[k] = IF source = Absent THEN Absent ELSE snap[source]
  <2>1. CASE HasMapping(a.keys)
    BY <1>6, <2>1 DEF MapKeys
  <2>2. CASE ~HasMapping(a.keys)
    BY <1>3, <1>6, <2>2 DEF MapKeys
  <2> QED
    BY <2>1, <2>2
<1>9. old[k] = Before(base, k)
  BY DEF Nothing, Before
<1>10. DesiredSecret(a, snap, base).data[k]
         = IF MapKeys(snap, a.keys)[k] # Absent THEN MapKeys(snap, a.keys)[k] ELSE old[k]
  BY DEF DesiredSecret, Overlay
<1> HIDE DEF snap, source, old
<1>11. CASE source \in vault[a.path][v]
  <2>1. source \in Keys /\ source # Absent
    BY <1>2, <1>3, <1>11
  <2>2. MapKeys(snap, a.keys)[k] = [path |-> a.path, key |-> source, ver |-> v]
    BY <1>5, <1>8, <1>11, <2>1
  <2>3. MapKeys(snap, a.keys)[k] # Absent
    BY <1>4, <2>1, <2>2
  <2> QED
    BY <1>10, <1>11, <2>2, <2>3 DEF Wanted, source, snap
<1>12. CASE source \notin vault[a.path][v]
  <2>1. MapKeys(snap, a.keys)[k] = Absent
    BY <1>5, <1>7, <1>8, <1>12
  <2> QED
    BY <1>9, <1>10, <1>12, <2>1 DEF Wanted, source, snap
<1> QED
  BY <1>11, <1>12

(* No worker has begun at the start.                                        *)
LEMMA InitVersion == Init => VersionInv
  BY DEF Init, VersionInv, WorkOfOneVersion, Idle

(* A worker that rests, or that has only begun, holds nothing yet.          *)
LEMMA FreshWork ==
    ASSUME NEW r \in Replicas, worker'[r].pc \in {"idle", "fetch"}
    PROVE  WorkOfOneVersion(worker[r])'
  BY DEF WorkOfOneVersion

(* Every step keeps each worker's work of one version.                      *)
LEMMA NextVersion == TypeInv /\ VersionInv /\ [Next]_vars => VersionInv'
<1> SUFFICES ASSUME TypeInv, VersionInv, [Next]_vars,
                    NEW q \in Replicas
             PROVE  WorkOfOneVersion(worker[q])'
  BY DEF VersionInv
<1> DEFINE Goal == WorkOfOneVersion(worker[q])'
<1>0. TypeOK /\ WorkOfOneVersion(worker[q]) /\ worker[q] \in Worker
  BY DEF TypeInv, VersionInv, TypeOK
<1>s. ASSUME worker'[q] = worker[q], VaultGrows PROVE Goal
  BY <1>0, <1>s, WorkStays DEF SameWork
<1>u. ASSUME worker'[q] = worker[q], vault' = vault PROVE Goal
  BY <1>0, <1>s, <1>u, StepGrows
<1>i. ASSUME worker'[q] = Idle PROVE Goal
  BY <1>i, FreshWork DEF Idle
<1>t. ASSUME NEW s, worker'[q] = StaleOn(worker[q], s), vault' = vault PROVE Goal
  BY <1>0, <1>t, StaleOnType, StepGrows, WorkStays DEF SameWork
<1>r. ASSUME NEW r \in Replicas, NEW z, worker' = [worker EXCEPT ![r] = z], vault' = vault,
             r = q => Goal
      PROVE  Goal
  <2>1. CASE r = q
    BY <1>r, <2>1
  <2>2. CASE r # q
    BY <1>0, <1>r, <1>u, <2>2 DEF TypeOK
  <2> QED
    BY <2>1, <2>2
<1>d. ASSUME NEW r \in Replicas, worker' = [worker EXCEPT ![r] = Idle], vault' = vault
      PROVE  Goal
  BY <1>0, <1>d, <1>i, <1>u DEF TypeOK
<1>1. ASSUME NEW p \in Pods, NEW a \in Annotations, SetPod(p, a) PROVE Goal
  BY <1>1, <1>u DEF SetPod, process
<1>2. ASSUME NEW p \in Pods, DeletePod(p) PROVE Goal
  BY <1>2, <1>u DEF DeletePod, process
<1>3. ASSUME NEW path \in Paths, NEW keySet \in SUBSET Keys, Rotate(path, keySet)
      PROVE  Goal
  <2>1. VaultGrows
    BY <1>0, <1>3, StepGrows DEF Rotate
  <2> QED
    BY <1>3, <1>s, <2>1 DEF Rotate, process
<1>4. ASSUME NEW s \in SecretKeys, NEW k \in Keys, NEW opaque \in BOOLEAN,
             UserWrite(s, k, opaque)
      PROVE  Goal
  BY <1>4, <1>t DEF UserWrite
<1>5. ASSUME NEW s \in SecretKeys, UserDelete(s) PROVE Goal
  BY <1>5, <1>t DEF UserDelete
<1>6. CASE Tick
  BY <1>6, <1>u DEF Tick, process
<1>7. ASSUME NEW r \in Replicas, NEW p \in Pods, DeliverPod(r, p) PROVE Goal
  BY <1>7, <1>u DEF DeliverPod, cluster
<1>8. ASSUME NEW r \in Replicas, NEW p \in Pods, BackoffElapsed(r, p) PROVE Goal
  BY <1>8, <1>u DEF BackoffElapsed, cluster
<1>9. ASSUME NEW r \in Replicas, NEW s \in SecretKeys, DeliverSecret(r, s) PROVE Goal
  BY <1>9, <1>u DEF DeliverSecret, cluster
<1>10. ASSUME NEW r \in Replicas, Restart(r) PROVE Goal
  BY <1>10, <1>d DEF Restart, cluster
<1>11. ASSUME NEW r \in Replicas, NEW p \in Pods, StartReconcile(r, p) PROVE Goal
  <2> DEFINE z == [Idle EXCEPT !.pc = "fetch", !.pod = p, !.ann = podCache[r][p]]
  <2>1. vault' = vault
    BY <1>11 DEF StartReconcile, Take, cluster
  <2>2. CASE worker' = [worker EXCEPT ![r] = Idle]
    BY <1>d, <2>1, <2>2
  <2>3. CASE worker' = [worker EXCEPT ![r] = z]
    <3>1. z.pc = "fetch"
      BY DEF Idle
    <3> HIDE DEF z
    <3>2. r = q => Goal
      BY <1>0, <2>3, <3>1, FreshWork DEF TypeOK
    <3> QED
      BY <1>r, <2>1, <2>3, <3>2
  <2> QED
    BY <1>11, <2>2, <2>3 DEF StartReconcile, Take, Done
<1>12. ASSUME NEW r \in Replicas, FetchSecret(r) PROVE Goal
  <2> DEFINE path == worker[r].ann.path
             v == Len(vault[path])
  <2>1. /\ worker' = [worker EXCEPT ![r].pc = "get", ![r].fetched = Snapshot(path, v)]
        /\ worker[r].pc = "fetch" /\ vault[path] # <<>> /\ vault' = vault
    BY <1>12 DEF FetchSecret, cluster
  <2>2. path \in Paths
    BY <1>0, <2>1, AnnotationAssumption DEF TypeOK, ParseOk, AnnotationType
  <2>3. v \in 1..v
    BY <1>0, <2>1, <2>2 DEF TypeOK
  <2>4. CASE r = q
    <3>1. /\ worker'[q].pc = "get" /\ worker'[q].ann = worker[q].ann
          /\ worker'[q].fetched = Snapshot(path, v)
      BY <1>0, <2>1, <2>4 DEF TypeOK, Worker
    <3>2. v \in 1..Len(vault'[path]) /\ worker'[q].ann.path = path
      BY <2>1, <2>3, <2>4, <3>1
    <3>3. Snapshot(path, v) = [k \in Keys |->
             IF k \in vault'[path][v]
             THEN [path |-> path, key |-> k, ver |-> v] ELSE Absent]
      BY <2>1 DEF Snapshot
    <3> HIDE DEF path, v
    <3> QED
      BY <3>1, <3>2, <3>3 DEF WorkOfOneVersion, Snapshot
  <2>5. CASE r # q
    BY <1>0, <1>u, <2>1, <2>5 DEF TypeOK
  <2> QED
    BY <2>4, <2>5
<1>13. ASSUME NEW r \in Replicas, FetchSecretFails(r) PROVE Goal
  BY <1>13, <1>d DEF FetchSecretFails, Requeue, cluster
<1>14. ASSUME NEW r \in Replicas, ReadSecret(r) PROVE Goal
  <2> DEFINE w == worker[r]
             s == Target(w.pod, w.ann)
             base == secretCache[r][s]
             obj == DesiredSecret(w.ann, w.fetched, base)
             new == [w EXCEPT !.pc = "write", !.base = base, !.fetched = Nothing,
                              !.fresh = (secretWatch[r][s] = <<>>), !.obj = obj]
  <2>1. /\ w \in Worker /\ w.pod \in Pods /\ w.ann \in Annotations /\ ParseOk(w.ann)
        /\ w.pc = "get"
    BY <1>0, <1>14 DEF TypeOK, ReadSecret
  <2>2. base \in Secret \cup {NoSecret}
    BY <1>0, <2>1, TargetType DEF TypeOK
  <2>3. worker' = [worker EXCEPT ![r] = new] /\ vault' = vault
    BY <1>14 DEF ReadSecret, cluster
  <2>4. new.pc = "write" /\ new.ann = w.ann /\ new.base = base /\ new.obj = obj
    BY <2>1 DEF Worker
  <2>5. obj.managed /\ obj.opaque /\ obj.source = w.ann.path
    BY DEF DesiredSecret
  <2>6. PICK v \in 1..Len(vault[w.ann.path]) : w.fetched = Snapshot(w.ann.path, v)
    BY <2>1 DEF VersionInv, WorkOfOneVersion
  <2>7. \A k \in Keys : obj.data[k] = Wanted(w.ann, v, k, Before(base, k))
    BY <1>0, <2>1, <2>2, <2>6, DesiredOfVersion
  <2> HIDE DEF new, obj, base
  <2>8. CASE r = q
    <3>1. /\ worker'[q].pc = "write" /\ worker'[q].ann = w.ann
          /\ worker'[q].base = base /\ worker'[q].obj = obj
      BY <1>0, <2>3, <2>4, <2>8 DEF TypeOK
    <3>2. \A k \in Keys : obj.data[k] =
            IF Atomic!SourceKey(w.ann, k) \in vault'[w.ann.path][v]
            THEN [path |-> w.ann.path, key |-> Atomic!SourceKey(w.ann, k), ver |-> v]
            ELSE Before(base, k)
      BY <2>3, <2>7 DEF Wanted
    <3>3. v \in 1..Len(vault'[w.ann.path])
      BY <2>3, <2>6
    <3> HIDE DEF w
    <3> QED
      BY <2>5, <3>1, <3>2, <3>3
         DEF WorkOfOneVersion, Wanted, Before, Atomic!SourceKey
  <2>9. CASE r # q
    BY <1>0, <1>u, <2>3, <2>9 DEF TypeOK
  <2> QED
    BY <2>8, <2>9
<1>15. ASSUME NEW r \in Replicas, ReadSecretFails(r) PROVE Goal
  BY <1>15, <1>d DEF ReadSecretFails, Requeue, cluster
<1>16. ASSUME NEW r \in Replicas, Apply(r), vault' = vault PROVE Goal
  <2> DEFINE s == Target(worker[r].pod, worker[r].ann)
  <2>1. CASE worker' = [worker EXCEPT ![r] = Idle]
    BY <1>16, <1>d, <2>1
  <2>2. CASE worker' = [x \in Replicas |-> IF x = r THEN Idle ELSE StaleOn(worker[x], s)]
    BY <1>16, <1>i, <1>t, <2>2
  <2> QED
    BY <1>16, <2>1, <2>2 DEF Apply
<1>17. ASSUME NEW r \in Replicas, WriteSecret(r) PROVE Goal
  BY <1>16, <1>17 DEF WriteSecret
<1>18. ASSUME NEW r \in Replicas, WriteSecretRejected(r) PROVE Goal
  BY <1>18, <1>d DEF WriteSecretRejected, Requeue, cluster
<1>19. ASSUME NEW r \in Replicas, WriteSecretFails(r) PROVE Goal
  BY <1>16, <1>19, <1>d DEF WriteSecretFails
<1>20. CASE UNCHANGED vars
  BY <1>20, <1>u DEF vars, cluster, process
<1>21. ASSUME NEW r \in Replicas, NEW p \in Pods, StartReconcileFails(r, p) PROVE Goal
  BY <1>21, <1>u DEF StartReconcileFails, cluster
<1> QED
  BY <1>1, <1>2, <1>3, <1>4, <1>5, <1>6, <1>7, <1>8, <1>9, <1>10, <1>11, <1>12,
     <1>13, <1>14, <1>15, <1>17, <1>18, <1>19, <1>20, <1>21
     DEF Next, Environment, Runtime, Reconcile

-----------------------------------------------------------------------------
\* The secrets as AtomicSync sees them.
seen == [s \in SecretKeys |-> Untimed(secrets[s])]

(* Leaving the synced-at time out keeps everything else of a secret.        *)
LEMMA UntimedKeeps ==
    ASSUME NEW x \in Secret \cup {NoSecret}
    PROVE  /\ Untimed(x) = NoSecret <=> x = NoSecret
           /\ x # NoSecret => /\ Untimed(x).data = x.data
                              /\ Untimed(x).opaque = x.opaque
  BY SentinelAssumption DEF Untimed, Secret, Data

(* A committed write is seen as a change of that one secret.                *)
LEMMA SeenCommit ==
    ASSUME TypeOK, NEW s \in SecretKeys, NEW x, secrets' = [secrets EXCEPT ![s] = x]
    PROVE  seen' = [seen EXCEPT ![s] = Untimed(x)]
  BY DEF TypeOK, seen, Untimed

(* The write of a reconcile is one atomic Sync, of the version it fetched.  *)
LEMMA WriteIsSync ==
    ASSUME FreshInv, AskedInv, VersionInv, NEW r \in Replicas,
           worker[r].pc = "write", Accepted(worker[r]), Apply(r),
           UNCHANGED <<asked, vault>>
    PROVE  [Atomic!AtomicNext]_(Atomic!atomicVars)
<1> DEFINE w == worker[r]
           a == w.ann
           s == Target(w.pod, a)
<1>0. TypeOK /\ ObjOK
  BY DEF FreshInv, TypeInv
<1>1. /\ w.pod \in Pods /\ a \in Annotations /\ ParseOk(a) /\ s \in SecretKeys
      /\ w.obj \in Secret /\ <<w.pod, a>> \in asked /\ a.provider \in Registered
  BY <1>0, TargetType DEF TypeOK, ObjOK, AskedInv, WorkersRecorded, WorkerRecorded
<1>2. w.base = secrets[s] /\ (w.base # NoSecret => w.base.opaque)
  BY DEF Accepted, FreshInv, FreshIsCurrent
<1>3. secrets[s] \in Secret \cup {NoSecret} /\ seen[s] = Untimed(secrets[s])
  BY <1>0, <1>1 DEF TypeOK, seen
<1>4. CASE UNCHANGED secrets
  BY <1>4 DEF Atomic!atomicVars, Untimed
<1>5. CASE secrets' = [secrets EXCEPT ![s] = w.obj]
  <2>1. PICK v \in 1..Len(vault[a.path]) : \A k \in Keys :
           w.obj.data[k] = Wanted(a, v, k, Before(w.base, k))
    BY DEF VersionInv, WorkOfOneVersion
  <2>2. w.obj.managed = TRUE /\ w.obj.opaque = TRUE /\ w.obj.source = a.path
    BY <1>1 DEF VersionInv, WorkOfOneVersion, Secret
  <2>3. \A k \in Keys : Before(w.base, k) = Atomic!Found(s, k)
    BY <1>1, <1>2, <1>3, UntimedKeeps DEF Before, Atomic!Found, seen
  <2>4. w.obj.data = [k \in Keys |->
           IF Atomic!SourceKey(a, k) \in vault[a.path][v]
           THEN [path |-> a.path, key |-> Atomic!SourceKey(a, k), ver |-> v]
           ELSE Atomic!Found(s, k)]
    BY <1>1, <2>1, <2>3 DEF Wanted, Secret, Data
  <2>5. w.obj # NoSecret
    BY <1>1, SentinelAssumption DEF Secret, Data
  <2>6. seen' = [seen EXCEPT ![s] =
           [data |-> [k \in Keys |->
              IF Atomic!SourceKey(a, k) \in vault[a.path][v]
              THEN [path |-> a.path, key |-> Atomic!SourceKey(a, k), ver |-> v]
              ELSE Atomic!Found(s, k)],
            managed |-> TRUE, source |-> a.path, opaque |-> TRUE]]
    <3>1. seen' = [seen EXCEPT ![s] = Untimed(w.obj)]
      BY <1>0, <1>1, <1>5, SeenCommit
    <3> QED
      BY <2>2, <2>4, <2>5, <3>1 DEF Untimed
  <2>7. seen[s] # NoSecret => seen[s].opaque
    BY <1>2, <1>3, UntimedKeeps
  <2>8. Atomic!Valid(a)
    BY <1>1 DEF Atomic!Valid, ParseOk
  <2>9. Atomic!Sync(w.pod, a, v)
    BY <1>1, <2>6, <2>7, <2>8 DEF Atomic!Sync, seen, Target
  <2> QED
    BY <1>1, <2>1, <2>9 DEF Atomic!AtomicNext, ParseOk
<1> QED
  BY <1>4, <1>5 DEF Apply, Commit

(* Every step of the controller, its users and the provider is a step of    *)
(* AtomicSync, or one that it does not see.                                 *)
LEMMA StepSimulates ==
    ASSUME FreshInv, AskedInv, VersionInv, [Next]_vars
    PROVE  [Atomic!AtomicNext]_(Atomic!atomicVars)
<1> DEFINE Goal == [Atomic!AtomicNext]_(Atomic!atomicVars)
<1>0. TypeOK
  BY DEF FreshInv, TypeInv
<1>u. ASSUME UNCHANGED <<asked, vault, secrets>> PROVE Goal
  BY <1>u DEF Atomic!atomicVars, Untimed
<1>1. ASSUME NEW p \in Pods, NEW a \in Annotations, SetPod(p, a) PROVE Goal
  <2>1. Atomic!Request(p, a)
    BY <1>1 DEF SetPod, Atomic!Request, Untimed
  <2> QED
    BY <2>1 DEF Atomic!AtomicNext
<1>2. ASSUME NEW path \in Paths, NEW keySet \in SUBSET Keys, Rotate(path, keySet)
      PROVE  Goal
  <2>1. Atomic!StoreVersion(path, keySet)
    BY <1>2 DEF Rotate, history, Atomic!StoreVersion, Untimed
  <2> QED
    BY <2>1 DEF Atomic!AtomicNext
<1>3. ASSUME NEW s \in SecretKeys, NEW k \in Keys, NEW opaque \in BOOLEAN,
             UserWrite(s, k, opaque)
      PROVE  Goal
  <2> DEFINE obj == [data |-> [Nothing EXCEPT ![k] = Foreign], managed |-> FALSE,
                     source |-> Absent, stamp |-> 0, opaque |-> opaque]
  <2>0. obj \in Secret
    BY DEF Secret, Data, Nothing
  <2>1. obj # NoSecret
    BY <2>0, SentinelAssumption DEF Secret, Data
  <2>2. Untimed(obj) = [data |-> [j \in Keys |-> IF j = k THEN Foreign ELSE Absent],
                        managed |-> FALSE, source |-> Absent, opaque |-> opaque]
    BY <2>1 DEF Untimed, Nothing
  <2>3. secrets' = [secrets EXCEPT ![s] = obj] /\ UNCHANGED <<asked, vault>>
    BY <1>3 DEF UserWrite, Commit, history
  <2> HIDE DEF obj
  <2>4. seen' = [seen EXCEPT ![s] = Untimed(obj)]
    BY <1>0, <2>3, SeenCommit
  <2>5. seen[s] # NoSecret => opaque = seen[s].opaque
    BY <1>0, <1>3, UntimedKeeps DEF seen, UserWrite, TypeOK
  <2>6. Atomic!Replace(s, k, opaque)
    BY <2>2, <2>3, <2>4, <2>5 DEF Atomic!Replace, seen
  <2> QED
    BY <2>6 DEF Atomic!AtomicNext, SecretKeys
<1>4. ASSUME NEW s \in SecretKeys, UserDelete(s) PROVE Goal
  <2>1. secrets' = [secrets EXCEPT ![s] = NoSecret] /\ UNCHANGED <<asked, vault>>
    BY <1>4 DEF UserDelete, Commit, history
  <2>2. seen' = [seen EXCEPT ![s] = NoSecret]
    BY <1>0, <2>1, SeenCommit DEF Untimed
  <2>3. Atomic!Delete(s)
    BY <2>1, <2>2 DEF Atomic!Delete, seen
  <2> QED
    BY <2>3 DEF Atomic!AtomicNext, SecretKeys
<1>5. ASSUME NEW r \in Replicas, WriteSecret(r) PROVE Goal
  BY <1>5, WriteIsSync DEF WriteSecret, history
<1>6. ASSUME NEW r \in Replicas, WriteSecretFails(r) PROVE Goal
  <2>1. CASE UNCHANGED secrets
    BY <1>6, <1>u, <2>1 DEF WriteSecretFails, history
  <2>2. CASE Accepted(worker[r]) /\ Apply(r)
    BY <1>6, <2>2, WriteIsSync DEF WriteSecretFails, history
  <2> QED
    BY <1>6, <2>1, <2>2 DEF WriteSecretFails
<1>7. ASSUME NEW p \in Pods, DeletePod(p) PROVE Goal
  BY <1>7, <1>u DEF DeletePod, history
<1>8. CASE Tick
  BY <1>8, <1>u DEF Tick, history
<1>9. ASSUME NEW r \in Replicas, Runtime(r) PROVE Goal
  BY <1>9, <1>u
     DEF Runtime, DeliverPod, BackoffElapsed, DeliverSecret, Restart, cluster, history
<1>10. ASSUME NEW r \in Replicas, NEW p \in Pods,
              StartReconcile(r, p) \/ StartReconcileFails(r, p)
       PROVE  Goal
  BY <1>10, <1>u DEF StartReconcile, Take, StartReconcileFails, cluster, history
<1>11. ASSUME NEW r \in Replicas, FetchSecret(r) \/ FetchSecretFails(r) PROVE Goal
  BY <1>11, <1>u DEF FetchSecret, FetchSecretFails, cluster, history
<1>12. ASSUME NEW r \in Replicas, ReadSecret(r) \/ ReadSecretFails(r) PROVE Goal
  BY <1>12, <1>u DEF ReadSecret, ReadSecretFails, cluster, history
<1>13. ASSUME NEW r \in Replicas, WriteSecretRejected(r) PROVE Goal
  BY <1>13, <1>u DEF WriteSecretRejected, cluster, history
<1>14. CASE UNCHANGED vars
  BY <1>14, <1>u DEF vars, cluster, history
<1> QED
  BY <1>1, <1>2, <1>3, <1>4, <1>5, <1>6, <1>7, <1>8, <1>9, <1>10, <1>11, <1>12,
     <1>13, <1>14 DEF Next, Environment, Reconcile

(* Reconcile is atomic to an observer of the cluster, for any number of     *)
(* pods, replicas, edits and faults.                                        *)
THEOREM ReconcileIsAtomic == Spec => ImplementsAtomicSync
<1>1. Init => Atomic!AtomicInit
  BY DEF Init, Atomic!AtomicInit, Untimed, SecretKeys
<1>2. FreshInv /\ AskedInv /\ VersionInv /\ [Next]_vars
        => [Atomic!AtomicNext]_(Atomic!atomicVars)
  BY StepSimulates
<1>3. FreshInv => TypeInv
  BY DEF FreshInv
<1> QED
  BY <1>1, <1>2, <1>3, InitFresh, NextFresh, InitAsked, NextAsked, InitVersion,
     NextVersion, PTL DEF Spec, ImplementsAtomicSync, Atomic!AtomicSpec
=============================================================================
