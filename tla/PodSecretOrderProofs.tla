------------------------ MODULE PodSecretOrderProofs ------------------------
(* With one active replica a key of a secret never goes back to an earlier  *)
(* version of the path it comes from.                                       *)
EXTENDS PodSecretRefinementProofs

-----------------------------------------------------------------------------
\* One controller process is active: one replica, or more with leader election,
\* as the overlays of deploy/ have it.  Of two that write, a slow one could put
\* back what the other has replaced.
OneReplica == \A q, r \in Replicas : q = r

\* No secret holds a value of the path that is newer than version n.
NoneNewer(path, n) ==
    \A s \in SecretKeys, k \in Keys :
        /\ secrets[s] # NoSecret /\ secrets[s].data[k] \in Values
        /\ secrets[s].data[k].path = path
        => secrets[s].data[k].ver <= n

\* What a worker has fetched, and what it is about to write, is of a version
\* that no secret is ahead of, and not beyond top; the rest of its object is what
\* it read.
HoldsNewest(w, top) ==
    w.pc \in {"get", "write"} =>
        \E n \in 0..top[w.ann.path] :
            /\ NoneNewer(w.ann.path, n)
            /\ w.pc = "get" => \A k \in Keys : w.fetched[k] # Absent =>
                                  w.fetched[k].path = w.ann.path /\ w.fetched[k].ver = n
            /\ w.pc = "write" => \A k \in Keys :
                  \/ w.obj.data[k] = Before(w.base, k)
                  \/ w.obj.data[k].path = w.ann.path /\ w.obj.data[k].ver = n

\* No secret and no worker is ahead of the versions the next answer can be of.
OrderedUpTo(top) ==
    /\ \A path \in Paths : NoneNewer(path, top[path])
    /\ \A r \in Replicas : HoldsNewest(worker[r], top)

\* A provider asked directly answers with its last version.
Last == [path \in Paths |-> Len(vault[path])]
OrderInv == OrderedUpTo(Last)

\* A step that brings no provider value into a secret.
NoNewValues ==
    \A s \in SecretKeys, k \in Keys :
        secrets'[s] # NoSecret /\ secrets'[s].data[k] \in Values
            => secrets[s] # NoSecret /\ secrets'[s].data[k] = secrets[s].data[k]

(* There is no secret and no answer at the start.                           *)
LEMMA InitOrder == ASSUME Init, NEW top PROVE OrderedUpTo(top)
  BY DEF Init, OrderedUpTo, NoneNewer, HoldsNewest, Idle

(* Nor does any value go back.                                              *)
LEMMA SameValuesDoNotRegress ==
    ASSUME TypeOK, NoNewValues
    PROVE  NoRegression
  BY DEF NoNewValues, NoRegression, NewerOrSame, Values

\* Versions are only added.
Rises(top, new) ==
    /\ top \in [Paths -> Nat] /\ new \in [Paths -> Nat]
    /\ \A path \in Paths : top[path] <= new[path]

(* A step without new values that leaves the work of every worker alone, or *)
(* lets it go.                                                              *)
LEMMA OrderKept ==
    ASSUME TypeOK, NEW top, NEW new, Rises(top, new), OrderedUpTo(top), NoNewValues,
           \A q \in Replicas : \/ SameWork(worker[q], worker'[q])
                               \/ worker'[q].pc \in {"idle", "fetch"}
    PROVE  OrderedUpTo(new)' /\ NoRegression
<1>1. ASSUME NEW path \in Paths PROVE NoneNewer(path, new[path])'
  <2>1. NoneNewer(path, top[path])
    BY DEF OrderedUpTo
  <2>2. top[path] \in Nat /\ new[path] \in Nat /\ top[path] <= new[path]
    BY DEF Rises
  <2> QED
    BY <2>1, <2>2 DEF NoneNewer, NoNewValues, Values
<1>2. ASSUME NEW q \in Replicas PROVE HoldsNewest(worker[q], new)'
  <2> DEFINE w == worker[q]
             z == worker'[q]
  <2>1. CASE z.pc \notin {"get", "write"}
    BY <2>1 DEF HoldsNewest
  <2>2. CASE z.pc \in {"get", "write"}
    <3>1. SameWork(w, z) /\ w.pc \in {"get", "write"}
      BY <2>2 DEF SameWork
    <3>2. w.ann.path \in Paths
      BY <3>1, AnnotationAssumption DEF TypeOK, ParseOk, AnnotationType
    <3>3. PICK n \in 0..top[w.ann.path] :
            /\ NoneNewer(w.ann.path, n)
            /\ w.pc = "get" => \A k \in Keys : w.fetched[k] # Absent =>
                                  w.fetched[k].path = w.ann.path /\ w.fetched[k].ver = n
            /\ w.pc = "write" => \A k \in Keys :
                  \/ w.obj.data[k] = Before(w.base, k)
                  \/ w.obj.data[k].path = w.ann.path /\ w.obj.data[k].ver = n
      BY <3>1 DEF OrderedUpTo, HoldsNewest
    <3>4. n \in 0..new[w.ann.path]
      BY <3>2, <3>3 DEF Rises
    <3>5. NoneNewer(w.ann.path, n)'
      <4>1. \A s \in SecretKeys, k \in Keys :
              /\ secrets'[s] # NoSecret /\ secrets'[s].data[k] \in Values
              /\ secrets'[s].data[k].path = w.ann.path
              => secrets'[s].data[k].ver <= n
        BY <3>3 DEF NoneNewer, NoNewValues
      <4> QED
        BY <4>1, <3>1 DEF NoneNewer, SameWork
    <3> QED
      BY <3>1, <3>3, <3>4, <3>5 DEF HoldsNewest, SameWork, Before
  <2> QED
    BY <2>1, <2>2
<1> QED
  BY <1>1, <1>2, SameValuesDoNotRegress DEF OrderedUpTo

(* A step that changes no secret and no worker's work.                      *)
LEMMA QuietStep ==
    ASSUME TypeOK, NEW top, NEW new, Rises(top, new), OrderedUpTo(top), secrets' = secrets,
           \A q \in Replicas : \/ worker'[q] = worker[q]
                               \/ worker'[q].pc \in {"idle", "fetch"}
    PROVE  OrderedUpTo(new)' /\ NoRegression
<1>1. NoNewValues
  BY DEF NoNewValues
<1>2. \A q \in Replicas : \/ SameWork(worker[q], worker'[q])
                          \/ worker'[q].pc \in {"idle", "fetch"}
  BY DEF SameWork
<1> QED
  BY <1>1, <1>2, OrderKept

(* A user's write or deletion takes values away and adds none.              *)
LEMMA UserStepKeepsOrder ==
    ASSUME TypeOK, NEW top, NEW new, Rises(top, new), OrderedUpTo(top), NEW s \in SecretKeys,
           NEW x \in Secret \cup {NoSecret},
           x # NoSecret => \A k \in Keys : x.data[k] \notin Values,
           Commit(s, x), worker' = [r \in Replicas |-> StaleOn(worker[r], s)]
    PROVE  OrderedUpTo(new)' /\ NoRegression
<1>1. NoNewValues
  BY DEF NoNewValues, Commit, TypeOK
<1>2. \A q \in Replicas : SameWork(worker[q], worker'[q])
  BY StaleOnType DEF SameWork, TypeOK
<1> QED
  BY <1>1, <1>2, OrderKept

(* Every key of the object Reconcile submits is what it found there, or a   *)
(* part of the answer it fetched.                                           *)
LEMMA DesiredFromAnswer ==
    ASSUME TypeOK, NEW a \in Annotations, NEW fetched \in [Keys -> Values \cup {Absent}],
           NEW base \in Secret \cup {NoSecret}, NEW k \in Keys
    PROVE  \/ DesiredSecret(a, fetched, base).data[k] = Before(base, k)
           \/ \E j \in Keys : /\ fetched[j] # Absent
                              /\ DesiredSecret(a, fetched, base).data[k] = fetched[j]
<1>1. a.keys \in [Keys -> Keys \cup {Absent}]
  BY AnnotationAssumption DEF AnnotationType
<1>2. \/ MapKeys(fetched, a.keys)[k] = Absent
      \/ \E j \in Keys : MapKeys(fetched, a.keys)[k] = fetched[j]
  BY <1>1 DEF MapKeys
<1>3. DesiredSecret(a, fetched, base).data[k] =
        IF MapKeys(fetched, a.keys)[k] # Absent THEN MapKeys(fetched, a.keys)[k]
        ELSE Before(base, k)
  BY DEF DesiredSecret, Overlay, Before, Nothing
<1> QED
  BY <1>2, <1>3

(* An accepted write puts the newest version any secret has of its path.    *)
LEMMA ApplyKeepsOrder ==
    ASSUME OneReplica, FreshInv, NEW top, NEW new, Rises(top, new), OrderedUpTo(top),
           NEW r \in Replicas, worker[r].pc = "write", Accepted(worker[r]), Apply(r)
    PROVE  OrderedUpTo(new)' /\ NoRegression
<1> DEFINE w == worker[r]
           s == Target(w.pod, w.ann)
           path == w.ann.path
<1>0. TypeOK
  BY DEF FreshInv, TypeInv
<1>1. s \in SecretKeys /\ path \in Paths
  BY <1>0, TargetType, AnnotationAssumption DEF TypeOK, ParseOk, AnnotationType
<1>2. w.base = secrets[s]
  BY DEF Accepted, FreshInv, FreshIsCurrent
<1>3. PICK n \in 0..top[path] :
        /\ NoneNewer(path, n)
        /\ \A k \in Keys : \/ w.obj.data[k] = Before(w.base, k)
                           \/ w.obj.data[k].path = path /\ w.obj.data[k].ver = n
  BY DEF OrderedUpTo, HoldsNewest
<1>4. CASE secrets' = secrets
  <2>1. \A q \in Replicas : worker'[q] = Idle
    BY <1>0 DEF Apply, OneReplica, TypeOK
  <2> QED
    BY <1>0, <1>4, <2>1, QuietStep DEF Idle
<1>5. CASE secrets' = [secrets EXCEPT ![s] = w.obj]
  <2>1. \A q \in Replicas : worker'[q] = Idle
    BY <1>0 DEF Apply, OneReplica, TypeOK
  \* where a value is new, it is of version n
  <2>2. ASSUME NEW t \in SecretKeys, NEW k \in Keys,
               secrets'[t] # NoSecret, secrets'[t].data[k] \in Values
        PROVE  \/ secrets[t] # NoSecret /\ secrets'[t].data[k] = secrets[t].data[k]
               \/ secrets'[t].data[k].path = path /\ secrets'[t].data[k].ver = n
    <3>1. CASE t # s
      BY <1>0, <1>1, <1>5, <2>2, <3>1 DEF TypeOK
    <3>2. CASE t = s
      <4>1. secrets'[t] = w.obj
        BY <1>0, <1>1, <1>5, <3>2 DEF TypeOK
      <4> QED
        BY <1>2, <1>3, <2>2, <3>2, <4>1, SentinelAssumption DEF Before
    <3> QED
      BY <3>1, <3>2
  <2>3. n \in Nat /\ new[path] \in Nat /\ n <= new[path]
    BY <1>1, <1>3 DEF Rises
  <2>4. NoRegression
    BY <1>3, <2>2, <2>3 DEF NoRegression, NewerOrSame, NoneNewer, Values
  <2>5. ASSUME NEW q \in Paths PROVE NoneNewer(q, new[q])'
    <3>1. NoneNewer(q, top[q]) /\ top[q] \in Nat /\ new[q] \in Nat /\ top[q] <= new[q]
      BY DEF OrderedUpTo, Rises
    <3> QED
      BY <1>3, <2>2, <2>3, <3>1 DEF NoneNewer, Values
  <2> QED
    BY <2>1, <2>4, <2>5 DEF OrderedUpTo, HoldsNewest, Idle
<1> QED
  BY <1>4, <1>5 DEF Apply, Commit

(* An answer of the newest version there can be keeps the order.            *)
LEMMA FetchKeepsOrder ==
    ASSUME OneReplica, TypeOK, NEW top, NEW new, Rises(top, new), OrderedUpTo(top),
           NEW r \in Replicas, NEW path \in Paths, NEW n, n = new[path], NEW fetched,
           fetched = Snapshot(path, n), secrets' = secrets, worker'[r].pc = "get",
           worker'[r].ann.path = path, worker'[r].fetched = fetched
    PROVE  OrderedUpTo(new)' /\ NoRegression
<1>1. \A p \in Paths : NoneNewer(p, new[p])
  <2> SUFFICES ASSUME NEW p \in Paths PROVE NoneNewer(p, new[p])
    OBVIOUS
  <2>1. NoneNewer(p, top[p]) /\ top[p] \in Nat /\ new[p] \in Nat /\ top[p] <= new[p]
    BY DEF OrderedUpTo, Rises
  <2> QED
    BY <2>1 DEF NoneNewer, Values
<1>2. \A k \in Keys : fetched[k] # Absent => fetched[k].path = path /\ fetched[k].ver = n
  BY DEF Snapshot
<1>3. HoldsNewest(worker[r], new)'
  <2>1. n \in 0..new[path]
    BY DEF Rises
  <2>2. NoneNewer(path, n)
    BY <1>1
  <2>3. NoneNewer(path, n)'
    BY <2>2 DEF NoneNewer
  <2>4. \A k \in Keys : worker'[r].fetched[k] # Absent =>
           worker'[r].fetched[k].path = path /\ worker'[r].fetched[k].ver = n
    BY <1>2
  <2> QED
    BY <2>1, <2>3, <2>4 DEF HoldsNewest
<1>4. \A q \in Replicas : q = r
  BY DEF OneReplica
<1>5. NoRegression
  BY SameValuesDoNotRegress DEF NoNewValues
<1> QED
  BY <1>1, <1>3, <1>4, <1>5 DEF OrderedUpTo, NoneNewer

(* Building the object on the cached secret keeps the order.                *)
LEMMA ReadKeepsOrder ==
    ASSUME OneReplica, TypeOK, NEW top, NEW new, Rises(top, new), OrderedUpTo(top),
           NEW r \in Replicas, ReadSecret(r)
    PROVE  OrderedUpTo(new)' /\ NoRegression
<1> DEFINE w == worker[r]
           s == Target(w.pod, w.ann)
           base == secretCache[r][s]
           obj == DesiredSecret(w.ann, w.fetched, base)
           z == [w EXCEPT !.pc = "write", !.base = base, !.fetched = Nothing,
                          !.fresh = (secretWatch[r][s] = <<>>), !.obj = obj]
<1>1. /\ w \in Worker /\ w.pod \in Pods /\ w.ann \in Annotations /\ ParseOk(w.ann)
      /\ w.pc = "get"
  BY DEF TypeOK, ReadSecret
<1>2. base \in Secret \cup {NoSecret}
  BY <1>1, TargetType DEF TypeOK
<1>3. worker' = [worker EXCEPT ![r] = z] /\ secrets' = secrets
  BY DEF ReadSecret, cluster
<1>4. z.pc = "write" /\ z.ann = w.ann /\ z.base = base /\ z.obj = obj
  BY <1>1 DEF Worker
<1>5. PICK n \in 0..top[w.ann.path] :
        /\ NoneNewer(w.ann.path, n)
        /\ \A k \in Keys : w.fetched[k] # Absent =>
              w.fetched[k].path = w.ann.path /\ w.fetched[k].ver = n
  BY <1>1 DEF OrderedUpTo, HoldsNewest
<1>6. \A k \in Keys : \/ obj.data[k] = Before(base, k)
                      \/ obj.data[k].path = w.ann.path /\ obj.data[k].ver = n
  <2> SUFFICES ASSUME NEW k \in Keys
               PROVE  \/ obj.data[k] = Before(base, k)
                      \/ obj.data[k].path = w.ann.path /\ obj.data[k].ver = n
    OBVIOUS
  <2>1. w.fetched \in [Keys -> Values \cup {Absent}]
    BY <1>1 DEF Worker
  <2>2. \/ obj.data[k] = Before(base, k)
        \/ \E j \in Keys : w.fetched[j] # Absent /\ obj.data[k] = w.fetched[j]
    BY <1>1, <1>2, <2>1, DesiredFromAnswer
  <2> HIDE DEF obj, base
  <2> QED
    BY <1>5, <2>2
<1> HIDE DEF z, obj, base
<1>7. HoldsNewest(worker[r], new)'
  <2>1. /\ worker'[r].pc = "write" /\ worker'[r].ann = w.ann
        /\ worker'[r].base = base /\ worker'[r].obj = obj
    BY <1>3, <1>4 DEF TypeOK
  <2>2. PICK path : path = w.ann.path
    OBVIOUS
  <2>p. path \in Paths
    BY <1>1, <2>2, AnnotationAssumption DEF ParseOk, AnnotationType
  <2>3. n \in 0..new[path] /\ NoneNewer(path, n)'
    <3>1. n \in 0..top[path] /\ NoneNewer(path, n)
      BY <1>5, <2>2
    <3>2. n \in 0..new[path]
      BY <2>p, <3>1 DEF Rises
    <3> QED
      BY <1>3, <3>1, <3>2 DEF NoneNewer
  <2>4. \A k \in Keys : \/ worker'[r].obj.data[k] = Before(worker'[r].base, k)
                        \/ worker'[r].obj.data[k].path = path /\ worker'[r].obj.data[k].ver = n
    BY <1>6, <2>1, <2>2
  <2>5. worker'[r].pc = "write" /\ worker'[r].ann.path = path
    BY <2>1, <2>2
  <2> QED
    BY <2>3, <2>4, <2>5 DEF HoldsNewest, Before
<1>8. \A q \in Replicas : q = r
  BY DEF OneReplica
<1>9. NoRegression
  BY <1>3, SameValuesDoNotRegress DEF NoNewValues
<1>10. ASSUME NEW p \in Paths PROVE NoneNewer(p, new[p])'
  <2>1. NoneNewer(p, top[p]) /\ top[p] \in Nat /\ new[p] \in Nat /\ top[p] <= new[p]
    BY DEF OrderedUpTo, Rises
  <2> QED
    BY <1>3, <2>1 DEF NoneNewer, Values
<1> QED
  BY <1>7, <1>8, <1>9, <1>10 DEF OrderedUpTo

(* Every step of one replica, its users and the provider keeps the order    *)
(* and takes no key back, as long as answers are of the newest version.     *)
LEMMA NextOrder ==
    ASSUME OneReplica, FreshInv, NEW top, NEW new, Rises(top, new), OrderedUpTo(top),
           [Next]_vars,
           \A r \in Replicas : FetchSecret(r) =>
               new[worker[r].ann.path] = Len(vault[worker[r].ann.path])
    PROVE  OrderedUpTo(new)' /\ NoRegression
<1> DEFINE Goal == OrderedUpTo(new)' /\ NoRegression
<1>0. TypeOK
  BY DEF FreshInv, TypeInv
<1>u. ASSUME secrets' = secrets, worker' = worker PROVE Goal
  BY <1>0, <1>u, QuietStep
<1>d. ASSUME NEW r \in Replicas, secrets' = secrets, NEW z,
             z.pc \in {"idle", "fetch"}, worker' = [worker EXCEPT ![r] = z]
      PROVE  Goal
  <2>1. \A q \in Replicas : worker'[q] = worker[q] \/ worker'[q].pc \in {"idle", "fetch"}
    BY <1>0, <1>d DEF TypeOK
  <2> QED
    BY <1>0, <1>d, <2>1, QuietStep
<1>i. ASSUME NEW r \in Replicas, secrets' = secrets,
             worker' = [worker EXCEPT ![r] = Idle]
      PROVE  Goal
  <2>1. Idle.pc = "idle"
    BY DEF Idle
  <2>2. \A q \in Replicas : worker'[q] = worker[q] \/ worker'[q].pc = "idle"
    BY <1>0, <1>i, <2>1 DEF TypeOK
  <2> QED
    BY <1>0, <1>i, <2>2, QuietStep
<1>e. ASSUME NEW r \in Replicas, secrets' = secrets, Requeue(r) PROVE Goal
  BY <1>e, <1>i DEF Requeue
<1>1. ASSUME NEW p \in Pods, DeletePod(p) \/ \E a \in Annotations : SetPod(p, a)
      PROVE  Goal
  BY <1>1, <1>u DEF SetPod, DeletePod, process
<1>2. ASSUME NEW path \in Paths, NEW keySet \in SUBSET Keys, Rotate(path, keySet)
      PROVE  Goal
  BY <1>2, <1>u DEF Rotate, process
<1>3. ASSUME NEW s \in SecretKeys, NEW k \in Keys, NEW opaque \in BOOLEAN,
             UserWrite(s, k, opaque)
      PROVE  Goal
  <2> DEFINE x == [data |-> [Nothing EXCEPT ![k] = Foreign], managed |-> FALSE,
                   source |-> Absent, stamp |-> 0, opaque |-> opaque]
  <2>1. x \in Secret /\ \A j \in Keys : x.data[j] \notin Values
    BY SentinelAssumption DEF Secret, Data, Nothing
  <2>2. /\ Commit(s, x)
        /\ worker' = [r \in Replicas |-> StaleOn(worker[r], s)]
    BY <1>3 DEF UserWrite
  <2> HIDE DEF x
  <2> QED
    BY <1>0, <2>1, <2>2, UserStepKeepsOrder
<1>4. ASSUME NEW s \in SecretKeys, UserDelete(s) PROVE Goal
  BY <1>0, <1>4, UserStepKeepsOrder DEF UserDelete
<1>5. CASE Tick
  BY <1>5, <1>u DEF Tick, process
<1>6. ASSUME NEW r \in Replicas, Runtime(r) PROVE Goal
  <2>1. ASSUME NEW p \in Pods, DeliverPod(r, p) \/ BackoffElapsed(r, p) PROVE Goal
    BY <1>u, <2>1 DEF DeliverPod, BackoffElapsed, cluster
  <2>2. ASSUME NEW s \in SecretKeys, DeliverSecret(r, s) PROVE Goal
    BY <1>u, <2>2 DEF DeliverSecret, cluster
  <2>3. CASE Restart(r)
    BY <1>i, <2>3 DEF Restart, cluster
  <2> QED
    BY <1>6, <2>1, <2>2, <2>3 DEF Runtime
<1>7. ASSUME NEW r \in Replicas, NEW p \in Pods, StartReconcile(r, p) PROVE Goal
  <2> DEFINE z == [Idle EXCEPT !.pc = "fetch", !.pod = p, !.ann = podCache[r][p]]
  <2>1. z.pc = "fetch"
    BY DEF Idle
  <2>2. /\ secrets' = secrets
        /\ \/ worker' = [worker EXCEPT ![r] = Idle]
           \/ worker' = [worker EXCEPT ![r] = z]
    BY <1>7 DEF StartReconcile, Take, Done, cluster
  <2> HIDE DEF z
  <2> QED
    BY <1>d, <1>i, <2>1, <2>2
<1>8. ASSUME NEW r \in Replicas, FetchSecret(r) PROVE Goal
  <2>0. PICK path, n, fetched : /\ path = worker[r].ann.path /\ n = Len(vault[path])
                                /\ fetched = Snapshot(path, n)
    OBVIOUS
  <2>1. /\ worker' = [worker EXCEPT ![r].pc = "get", ![r].fetched = fetched]
        /\ worker[r].pc = "fetch" /\ secrets' = secrets
    BY <1>8, <2>0 DEF FetchSecret, cluster
  <2>2. path \in Paths
    BY <1>0, <2>0, <2>1, AnnotationAssumption DEF TypeOK, ParseOk, AnnotationType
  <2>3. n = new[path]
    BY <1>8, <2>0
  <2>4. /\ worker'[r].pc = "get" /\ worker'[r].ann.path = path
        /\ worker'[r].fetched = fetched
    BY <1>0, <2>0, <2>1 DEF TypeOK, Worker
  <2> QED
    BY <1>0, <2>0, <2>1, <2>2, <2>3, <2>4, FetchKeepsOrder
<1>9. ASSUME NEW r \in Replicas, FetchSecretFails(r) PROVE Goal
  BY <1>9, <1>e DEF FetchSecretFails, cluster
<1>10. ASSUME NEW r \in Replicas, ReadSecret(r) PROVE Goal
  BY <1>0, <1>10, ReadKeepsOrder
<1>11. ASSUME NEW r \in Replicas, ReadSecretFails(r) PROVE Goal
  BY <1>11, <1>e DEF ReadSecretFails, cluster
<1>12. ASSUME NEW r \in Replicas, WriteSecret(r) PROVE Goal
  BY <1>12, ApplyKeepsOrder DEF WriteSecret
<1>13. ASSUME NEW r \in Replicas, WriteSecretRejected(r) PROVE Goal
  BY <1>13, <1>e DEF WriteSecretRejected, cluster
<1>14. ASSUME NEW r \in Replicas, WriteSecretFails(r) PROVE Goal
  <2>1. CASE worker' = [worker EXCEPT ![r] = Idle] /\ secrets' = secrets
    BY <1>14, <1>i, <2>1 DEF WriteSecretFails
  <2>2. CASE Accepted(worker[r]) /\ Apply(r)
    BY <1>14, <2>2, ApplyKeepsOrder DEF WriteSecretFails
  <2> QED
    BY <1>14, <2>1, <2>2 DEF WriteSecretFails
<1>15. CASE UNCHANGED vars
  BY <1>15, <1>u DEF vars, cluster, process
<1>16. ASSUME NEW r \in Replicas, NEW p \in Pods, StartReconcileFails(r, p) PROVE Goal
  BY <1>16, <1>u DEF StartReconcileFails, cluster
<1> QED
  BY <1>1, <1>2, <1>3, <1>4, <1>5, <1>6, <1>7, <1>8, <1>9, <1>10, <1>11, <1>12,
     <1>13, <1>14, <1>15, <1>16 DEF Next, Environment, Reconcile

(* A path only gains versions.                                              *)
LEMMA StepOfVault == TypeOK /\ [Next]_vars => VaultGrows
<1> SUFFICES ASSUME TypeOK, [Next]_vars PROVE VaultGrows
  OBVIOUS
<1>1. CASE vault' = vault
  BY <1>1, StepGrows
<1>2. ASSUME NEW path \in Paths, NEW keySet \in SUBSET Keys, Rotate(path, keySet)
      PROVE  VaultGrows
  BY <1>2, StepGrows DEF Rotate
<1> QED
  BY <1>1, <1>2
     DEF Next, Environment, Runtime, Reconcile, SetPod, DeletePod, UserWrite, UserDelete,
         Tick, DeliverPod, BackoffElapsed, DeliverSecret, Restart, StartReconcile, Take,
         StartReconcileFails, FetchSecret, FetchSecretFails, ReadSecret, ReadSecretFails, WriteSecret,
         WriteSecretRejected, WriteSecretFails, vars, cluster

(* With one controller process writing, retries, stale caches, crashes and  *)
(* lost answers never put an earlier version of a path back under a key     *)
(* that holds a later one.                                                  *)
THEOREM NeverGoesBack ==
    ASSUME OneReplica
    PROVE  Spec => NeverOlder
<1>1. Init => OrderInv
  BY InitOrder DEF OrderInv
<1>2. ASSUME FreshInv, OrderInv, [Next]_vars PROVE OrderInv' /\ NoRegression
  <2>1. PICK top, new : top = Last /\ new = [path \in Paths |-> Len(vault'[path])]
    OBVIOUS
  <2>2. Rises(top, new)
    BY <1>2, <2>1, StepOfVault DEF FreshInv, TypeInv, VaultGrows, Rises, Last
  <2>3. ASSUME NEW r \in Replicas, FetchSecret(r)
        PROVE  new[worker[r].ann.path] = Len(vault[worker[r].ann.path])
    BY <1>2, <2>1, <2>3, AnnotationAssumption
       DEF FetchSecret, cluster, FreshInv, TypeInv, TypeOK, ParseOk, AnnotationType
  <2>4. OrderedUpTo(new)' /\ NoRegression
    BY <1>2, <2>1, <2>2, <2>3, NextOrder DEF OrderInv
  <2>5. Last' = new
    BY <2>1 DEF Last
  <2> QED
    BY <2>4, <2>5 DEF OrderInv, OrderedUpTo, HoldsNewest
<1> QED
  BY <1>1, <1>2, InitFresh, NextFresh, PTL DEF Spec, NeverOlder
=============================================================================
