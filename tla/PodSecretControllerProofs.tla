--------------------- MODULE PodSecretControllerProofs ---------------------
(* Proofs about PodSecretController, for every set of pods, namespaces,     *)
(* annotations, keys, paths and replicas.                                   *)
EXTENDS PodSecretController, TLAPS

-----------------------------------------------------------------------------
(* What the operators of Reconcile return.                                  *)

(* A provider's answer holds provider values only, each under its own key.  *)
LEMMA SnapshotType ==
    ASSUME TypeOK, NEW path \in Paths, NEW v \in Nat \ {0}
    PROVE  /\ Snapshot(path, v) \in [Keys -> Values \cup {Absent}]
           /\ \A k \in Keys : Snapshot(path, v)[k] # Absent =>
                 Snapshot(path, v)[k].path = path /\ Snapshot(path, v)[k].key = k
  BY DEF Snapshot, Values

(* The key mapping of Reconcile yields provider values or nothing.          *)
LEMMA MapKeysType ==
    ASSUME NEW fetched \in [Keys -> Values \cup {Absent}],
           NEW keys \in [Keys -> Keys \cup {Absent}]
    PROVE  MapKeys(fetched, keys) \in [Keys -> Values \cup {Absent}]
  BY DEF MapKeys

(* The object Reconcile submits is a secret.                                *)
LEMMA DesiredSecretType ==
    ASSUME TypeOK, NEW a \in Annotations, ParseOk(a),
           NEW fetched \in [Keys -> Values \cup {Absent}],
           NEW base \in Secret \cup {NoSecret}
    PROVE  DesiredSecret(a, fetched, base) \in Secret
<1>1. a.path \in Paths /\ a.keys \in [Keys -> Keys \cup {Absent}]
  BY AnnotationAssumption DEF AnnotationType, ParseOk
<1>2. MapKeys(fetched, a.keys) \in [Keys -> Values \cup {Absent}]
  BY <1>1, MapKeysType
<1>3. (IF base = NoSecret THEN Nothing ELSE base.data) \in Data
  BY DEF Nothing, Data, Secret
<1>4. Overlay(IF base = NoSecret THEN Nothing ELSE base.data,
              MapKeys(fetched, a.keys)) \in Data
  BY <1>2, <1>3 DEF Overlay, Data
<1> QED
  BY <1>1, <1>4 DEF DesiredSecret, Secret, TypeOK

(* A pod's valid annotation names a secret of the pod's namespace.          *)
LEMMA TargetType ==
    ASSUME NEW p \in Pods, NEW a \in Annotations, ParseOk(a)
    PROVE  Target(p, a) \in SecretKeys
  BY TopologyAssumption, AnnotationAssumption
     DEF Target, SecretKeys, ParseOk, AnnotationType

(* A reset worker, and a worker whose copy has become stale, keep their type. *)
LEMMA IdleType == Idle \in Worker
  BY DEF Idle, Worker, Nothing

(* Losing freshness changes no other field of a worker.                     *)
LEMMA StaleOnType ==
    ASSUME NEW w \in Worker, NEW s
    PROVE  /\ StaleOn(w, s) \in Worker
           /\ StaleOn(w, s).pc = w.pc /\ StaleOn(w, s).pod = w.pod
           /\ StaleOn(w, s).ann = w.ann /\ StaleOn(w, s).fetched = w.fetched
           /\ StaleOn(w, s).base = w.base /\ StaleOn(w, s).obj = w.obj
           /\ StaleOn(w, s).fresh => w.fresh /\ StaleOn(w, s) = w
  BY DEF StaleOn, Worker

(* A committed write keeps the API server and the watch queues well typed.  *)
LEMMA CommitType ==
    ASSUME TypeOK, NEW s \in SecretKeys, NEW secret \in Secret \cup {NoSecret},
           Commit(s, secret)
    PROVE  /\ secrets' \in [SecretKeys -> Secret \cup {NoSecret}]
           /\ secretWatch' \in [Replicas -> [SecretKeys -> Seq(Secret \cup {NoSecret})]]
  BY DEF TypeOK, Commit

\* The part of TypeOK that is about workers.
WorkerOK ==
    /\ worker \in [Replicas -> Worker]
    /\ \A r \in Replicas : worker[r].pc # "idle" =>
         /\ worker[r].pod \in Pods
         /\ worker[r].ann \in Annotations
         /\ ParseOk(worker[r].ann)

(* Going idle keeps the workers well typed.                                 *)
LEMMA ResetType ==
    ASSUME TypeOK, NEW r \in Replicas, worker' = [worker EXCEPT ![r] = Idle]
    PROVE  WorkerOK'
  BY IdleType DEF TypeOK, WorkerOK, Idle

(* Returning an error from Reconcile keeps workers and backoff well typed.  *)
LEMMA RequeueType ==
    ASSUME TypeOK, NEW r \in Replicas, worker[r].pc # "idle", Requeue(r)
    PROVE  WorkerOK' /\ backoff' \in [Replicas -> SUBSET Pods]
  BY ResetType DEF Requeue, TypeOK

(* So does a write by one worker, or by a user, to a secret others hold.    *)
LEMMA StaleWorkersType ==
    ASSUME TypeOK, NEW s,
           \/ worker' = [q \in Replicas |-> StaleOn(worker[q], s)]
           \/ \E r \in Replicas : worker' =
                [q \in Replicas |-> IF q = r THEN Idle ELSE StaleOn(worker[q], s)]
    PROVE  WorkerOK'
<1>1. \A q \in Replicas : worker'[q] = Idle \/ worker'[q] = StaleOn(worker[q], s)
  OBVIOUS
<1>2. ASSUME NEW q \in Replicas
      PROVE  /\ worker'[q] \in Worker
             /\ worker'[q].pc # "idle" => /\ worker'[q].pod \in Pods
                                          /\ worker'[q].ann \in Annotations
                                          /\ ParseOk(worker'[q].ann)
  <2>1. CASE worker'[q] = Idle
    BY <2>1, IdleType DEF Idle
  <2>2. CASE worker'[q] = StaleOn(worker[q], s)
    <3>1. /\ worker[q] \in Worker
          /\ worker[q].pc # "idle" => /\ worker[q].pod \in Pods
                                      /\ worker[q].ann \in Annotations
                                      /\ ParseOk(worker[q].ann)
      BY DEF TypeOK
    <3>2. /\ worker'[q] \in Worker
          /\ worker'[q].pc = worker[q].pc
          /\ worker'[q].pod = worker[q].pod /\ worker'[q].ann = worker[q].ann
      BY <2>2, <3>1, StaleOnType
    <3> QED
      BY <3>1, <3>2
  <2> QED
    BY <1>1, <2>1, <2>2
<1> QED
  BY <1>2 DEF WorkerOK

(* A write the API server applies keeps everything it touches well typed.   *)
LEMMA ApplyType ==
    ASSUME TypeOK, NEW r \in Replicas, worker[r].pc = "write", worker[r].obj \in Secret,
           Apply(r)
    PROVE  /\ WorkerOK'
           /\ secrets' \in [SecretKeys -> Secret \cup {NoSecret}]
           /\ secretWatch' \in [Replicas -> [SecretKeys -> Seq(Secret \cup {NoSecret})]]
<1> DEFINE s == Target(worker[r].pod, worker[r].ann)
<1>1. s \in SecretKeys
  BY TargetType DEF TypeOK
<1>2. CASE secrets[s] = worker[r].obj /\ worker' = [worker EXCEPT ![r] = Idle]
           /\ UNCHANGED <<secrets, secretWatch>>
  BY <1>2, ResetType DEF TypeOK
<1>3. CASE /\ Commit(s, worker[r].obj)
           /\ worker' = [q \in Replicas |-> IF q = r THEN Idle ELSE StaleOn(worker[q], s)]
  <2>1. WorkerOK'
    BY <1>3, StaleWorkersType DEF TypeOK
  <2> QED
    BY <1>1, <1>3, <2>1, CommitType
<1> QED
  BY <1>2, <1>3 DEF Apply

-----------------------------------------------------------------------------
\* A worker about to write holds the object it will submit.
ObjOK == \A r \in Replicas : worker[r].pc = "write" => worker[r].obj \in Secret

TypeInv == TypeOK /\ ObjOK

(* The initial state is well typed.                                         *)
LEMMA InitType == Init => TypeInv
<1> SUFFICES ASSUME Init PROVE TypeInv
  OBVIOUS
<1>1. vault \in [Paths -> Seq(SUBSET Keys)]
  <2>1. <<>> \in Seq(SUBSET Keys) /\ <<Keys>> \in Seq(SUBSET Keys)
    OBVIOUS
  <2> QED
    BY <2>1 DEF Init
<1>2. worker \in [Replicas -> Worker] /\ \A r \in Replicas : worker[r].pc = "idle"
  BY IdleType DEF Init, Idle
<1>3. reported \in [Pods -> Reasons]
  BY DEF Init, Reasons
<1>4. edits \in 0..MaxEdits /\ faults \in 0..MaxFaults
  BY BoundAssumption DEF Init
<1>5. secrets \in [SecretKeys -> Secret \cup {NoSecret}]
  BY DEF Init
<1>6. /\ secretCache \in [Replicas -> [SecretKeys -> Secret \cup {NoSecret}]]
      /\ podCache \in [Replicas -> [Pods -> Annotations \cup {NoPod}]]
      /\ pods \in [Pods -> Annotations \cup {NoPod}]
  BY <1>5 DEF Init
<1> QED
  BY <1>1, <1>2, <1>3, <1>4, <1>5, <1>6 DEF Init, TypeOK, TypeInv, ObjOK

(* Every step keeps the types.                                              *)
LEMMA NextType == TypeInv /\ [Next]_vars => TypeInv'
<1> SUFFICES ASSUME TypeInv, [Next]_vars PROVE TypeInv'
  OBVIOUS
<1>0. TypeOK /\ ObjOK
  BY DEF TypeInv
<1>r. \A r \in Replicas : worker[r] \in Worker
  BY <1>0 DEF TypeOK
<1>1. ASSUME NEW p \in Pods, NEW a \in Annotations, SetPod(p, a) PROVE TypeInv'
  <2>1. a.path # Absent => Len(vault[a.path]) \in Nat
    BY <1>0, AnnotationAssumption DEF TypeOK, AnnotationType
  <2>2. due' \in [Pods -> Nat]
    BY <1>0, <1>1, <2>1 DEF TypeOK, SetPod
  <2>3. podWatch' \in [Replicas -> [Pods -> Seq(Annotations \cup {NoPod})]]
    BY <1>0, <1>1 DEF TypeOK, SetPod
  <2> QED
    BY <1>0, <1>1, <2>2, <2>3, BoundAssumption
       DEF TypeInv, TypeOK, ObjOK, SetPod, Edit, process
<1>2. ASSUME NEW p \in Pods, DeletePod(p) PROVE TypeInv'
  <2>1. podWatch' \in [Replicas -> [Pods -> Seq(Annotations \cup {NoPod})]]
    BY <1>0, <1>2 DEF TypeOK, DeletePod
  <2> QED
    BY <1>0, <1>2, <2>1, BoundAssumption
       DEF TypeInv, TypeOK, ObjOK, DeletePod, Edit, process, history
<1>3. ASSUME NEW path \in Paths, NEW keySet \in SUBSET Keys, Rotate(path, keySet)
      PROVE  TypeInv'
  <2>1. vault' \in [Paths -> Seq(SUBSET Keys)]
    BY <1>0, <1>3 DEF TypeOK, Rotate
  <2> QED
    BY <1>0, <1>3, <2>1, BoundAssumption
       DEF TypeInv, TypeOK, ObjOK, Rotate, Edit, process, history, informers
<1>4. ASSUME NEW s \in SecretKeys, NEW k \in Keys, NEW opaque \in BOOLEAN,
             UserWrite(s, k, opaque)
      PROVE  TypeInv'
  <2> DEFINE obj == [data |-> [Nothing EXCEPT ![k] = Foreign], managed |-> FALSE,
                     source |-> Absent, stamp |-> 0, opaque |-> opaque]
  <2>1. obj \in Secret
    BY DEF Secret, Data, Nothing
  <2>2. Commit(s, obj) /\ worker' = [q \in Replicas |-> StaleOn(worker[q], s)]
    BY <1>4 DEF UserWrite
  <2> HIDE DEF obj
  <2>3. WorkerOK'
    BY <1>0, <2>2, StaleWorkersType
  <2>4. ObjOK'
    BY <1>0, <1>r, <2>2, StaleOnType DEF ObjOK
  <2>5. /\ secrets' \in [SecretKeys -> Secret \cup {NoSecret}]
        /\ secretWatch' \in [Replicas -> [SecretKeys -> Seq(Secret \cup {NoSecret})]]
    BY <1>0, <2>1, <2>2, CommitType
  <2> QED
    BY <1>0, <1>4, <2>3, <2>4, <2>5, BoundAssumption, SMTT(30)
       DEF TypeInv, TypeOK, WorkerOK, UserWrite, Edit, history
<1>5. ASSUME NEW s \in SecretKeys, UserDelete(s) PROVE TypeInv'
  <2>1. Commit(s, NoSecret) /\ worker' = [q \in Replicas |-> StaleOn(worker[q], s)]
    BY <1>5 DEF UserDelete
  <2>2. WorkerOK'
    BY <1>0, <2>1, StaleWorkersType
  <2>3. ObjOK'
    BY <1>0, <1>r, <2>1, StaleOnType DEF ObjOK
  <2>4. /\ secrets' \in [SecretKeys -> Secret \cup {NoSecret}]
        /\ secretWatch' \in [Replicas -> [SecretKeys -> Seq(Secret \cup {NoSecret})]]
    BY <1>0, <2>1, CommitType
  <2> QED
    BY <1>0, <1>5, <2>2, <2>3, <2>4, BoundAssumption
       DEF TypeInv, TypeOK, WorkerOK, UserDelete, Edit, history
<1>6. CASE Tick
  <2>1. now' \in Nat
    BY <1>0, <1>6, BoundAssumption, SMTT(30) DEF TypeOK, Tick
  <2> QED
    BY <1>0, <1>6, <2>1
       DEF TypeInv, TypeOK, ObjOK, Tick, informers, process, history
<1>7. ASSUME NEW r \in Replicas, NEW p \in Pods, DeliverPod(r, p) PROVE TypeInv'
  <2>1. /\ podCache' \in [Replicas -> [Pods -> Annotations \cup {NoPod}]]
        /\ podWatch' \in [Replicas -> [Pods -> Seq(Annotations \cup {NoPod})]]
    BY <1>0, <1>7 DEF TypeOK, DeliverPod
  <2>2. queue' \in [Replicas -> SUBSET Pods]
    BY <1>0, <1>7 DEF TypeOK, DeliverPod
  <2> QED
    BY <1>0, <1>7, <2>1, <2>2 DEF TypeInv, TypeOK, ObjOK, DeliverPod, cluster, history
<1>8. ASSUME NEW r \in Replicas, NEW p \in Pods, BackoffElapsed(r, p) PROVE TypeInv'
  BY <1>0, <1>8
     DEF TypeInv, TypeOK, ObjOK, BackoffElapsed, cluster, informers, history
<1>9. ASSUME NEW r \in Replicas, NEW s \in SecretKeys, DeliverSecret(r, s)
      PROVE  TypeInv'
  <2>1. /\ secretCache' \in [Replicas -> [SecretKeys -> Secret \cup {NoSecret}]]
        /\ secretWatch' \in [Replicas -> [SecretKeys -> Seq(Secret \cup {NoSecret})]]
    BY <1>0, <1>9 DEF TypeOK, DeliverSecret
  <2>2. \A cache, secret : FindPodsForSecret(cache, s, secret) \subseteq Pods
    BY DEF FindPodsForSecret
  <2>3. queue' \in [Replicas -> SUBSET Pods]
    BY <1>0, <1>9, <2>2 DEF TypeOK, DeliverSecret
  <2> QED
    BY <1>0, <1>9, <2>1, <2>3
       DEF TypeInv, TypeOK, ObjOK, DeliverSecret, cluster, history
<1>10. ASSUME NEW r \in Replicas, Restart(r) PROVE TypeInv'
  <2>1. WorkerOK' /\ ObjOK'
    BY <1>0, <1>10, ResetType DEF Restart, Relist, ObjOK, Idle, TypeOK
  <2>2. /\ podWatch' \in [Replicas -> [Pods -> Seq(Annotations \cup {NoPod})]]
        /\ secretWatch' \in [Replicas -> [SecretKeys -> Seq(Secret \cup {NoSecret})]]
    BY <1>0, <1>10 DEF TypeOK, Restart, Relist
  <2>3. /\ podCache' \in [Replicas -> [Pods -> Annotations \cup {NoPod}]]
        /\ secretCache' \in [Replicas -> [SecretKeys -> Secret \cup {NoSecret}]]
        /\ queue' \in [Replicas -> SUBSET Pods]
        /\ backoff' \in [Replicas -> SUBSET Pods]
    BY <1>0, <1>10 DEF TypeOK, Restart, Relist
  <2> QED
    BY <1>0, <1>10, <2>1, <2>2, <2>3, BoundAssumption
       DEF TypeInv, TypeOK, WorkerOK, Restart, Relist, Fault, cluster, history
<1>11. ASSUME NEW r \in Replicas, NEW p \in Pods, StartReconcile(r, p) PROVE TypeInv'
  <2> DEFINE a == podCache[r][p]
  <2>1. queue' \in [Replicas -> SUBSET Pods] /\ a \in Annotations \cup {NoPod}
    BY <1>0, <1>11 DEF TypeOK, StartReconcile, Take
  <2>2. reported' \in [Pods -> Reasons]
    BY <1>0, <1>11 DEF TypeOK, StartReconcile, Take, Emit, Reasons
  <2>3. backoff' = backoff
    BY <1>11 DEF StartReconcile, Take, Done
  <2>4. WorkerOK' /\ ObjOK'
    <3>1. CASE worker' = [worker EXCEPT ![r] = Idle]
      BY <1>0, <3>1, ResetType DEF ObjOK, Idle, TypeOK
    <3>2. CASE /\ a # NoPod /\ ParseOk(a)
               /\ worker' = [worker EXCEPT ![r] =
                               [Idle EXCEPT !.pc = "fetch", !.pod = p, !.ann = a]]
      <4> DEFINE w == [Idle EXCEPT !.pc = "fetch", !.pod = p, !.ann = a]
      <4>1. w \in Worker /\ w.pc = "fetch" /\ w.pod = p /\ w.ann = a
        BY <2>1, IdleType DEF Idle, Worker, Nothing
      <4>2. worker' = [worker EXCEPT ![r] = w] /\ ParseOk(a) /\ a \in Annotations
        BY <2>1, <3>2
      <4> HIDE DEF w
      <4> QED
        BY <1>0, <4>1, <4>2 DEF WorkerOK, ObjOK, TypeOK
    <3> QED
      BY <1>11, <3>1, <3>2 DEF StartReconcile, Take, Done
  <2> QED
    BY <1>0, <1>11, <2>1, <2>2, <2>3, <2>4
       DEF TypeInv, TypeOK, WorkerOK, StartReconcile, Take, cluster, informers, history
<1>12. ASSUME NEW r \in Replicas, FetchSecret(r) PROVE TypeInv'
  <2> DEFINE path == worker[r].ann.path
             f == Snapshot(path, Len(vault[path]))
  <2>1. path \in Paths
    BY <1>0, <1>12, AnnotationAssumption
       DEF TypeOK, FetchSecret, ParseOk, AnnotationType
  <2>2. Len(vault[path]) \in Nat \ {0}
    BY <1>0, <1>12, <2>1 DEF TypeOK, FetchSecret
  <2>3. f \in [Keys -> Values \cup {Absent}]
    BY <1>0, <2>1, <2>2, SnapshotType
  <2> HIDE DEF f
  <2>4. worker' = [worker EXCEPT ![r].pc = "get", ![r].fetched = f]
    BY <1>12 DEF FetchSecret, f
  <2>5. /\ worker'[r] \in Worker /\ worker'[r].pc = "get"
        /\ worker'[r].pod = worker[r].pod /\ worker'[r].ann = worker[r].ann
    <3>1. worker \in [Replicas -> Worker] /\ worker[r] \in Worker
      BY <1>0 DEF TypeOK
    <3>2. worker'[r] = [worker[r] EXCEPT !.pc = "get", !.fetched = f]
      BY <2>4, <3>1
    <3> QED
      BY <2>3, <3>1, <3>2 DEF Worker
  <2>6. WorkerOK' /\ ObjOK'
    BY <1>0, <1>12, <2>4, <2>5 DEF WorkerOK, ObjOK, TypeOK, FetchSecret
  <2> QED
    BY <1>0, <1>12, <2>6
       DEF TypeInv, TypeOK, WorkerOK, FetchSecret, cluster, informers, history
<1>13. ASSUME NEW r \in Replicas, FetchSecretFails(r) PROVE TypeInv'
  <2>1. WorkerOK' /\ backoff' \in [Replicas -> SUBSET Pods]
    BY <1>0, <1>13, RequeueType DEF FetchSecretFails
  <2>2. ObjOK'
    BY <1>0, <1>13 DEF FetchSecretFails, Requeue, ObjOK, Idle, TypeOK
  <2>3. reported' \in [Pods -> Reasons] /\ faults' \in 0..MaxFaults
    BY <1>0, <1>13, BoundAssumption DEF FetchSecretFails, Emit, Fault, Reasons, TypeOK
  <2> QED
    BY <1>0, <1>13, <2>1, <2>2, <2>3
       DEF TypeInv, TypeOK, WorkerOK, FetchSecretFails, cluster, informers, history
<1>14. ASSUME NEW r \in Replicas, ReadSecret(r) PROVE TypeInv'
  <2> DEFINE w == worker[r]
             s == Target(w.pod, w.ann)
             base == secretCache[r][s]
             obj == DesiredSecret(w.ann, w.fetched, base)
             new == [w EXCEPT !.pc = "write", !.base = base, !.fetched = Nothing,
                              !.fresh = (secretWatch[r][s] = <<>>), !.obj = obj]
  <2>1. w \in Worker /\ w.pod \in Pods /\ w.ann \in Annotations /\ ParseOk(w.ann)
    BY <1>0, <1>r, <1>14 DEF TypeOK, ReadSecret
  <2>2. s \in SecretKeys
    BY <2>1, TargetType
  <2>3. base \in Secret \cup {NoSecret}
    BY <1>0, <2>2 DEF TypeOK
  <2>4. obj \in Secret
    BY <1>0, <2>1, <2>3, DesiredSecretType DEF Worker
  <2>5. worker' = [worker EXCEPT ![r] = new]
    BY <1>14 DEF ReadSecret
  <2> HIDE DEF s, base, obj
  <2>6. /\ new \in Worker /\ new.pc = "write" /\ new.pod = w.pod
        /\ new.ann = w.ann /\ new.obj = obj
    BY <2>1, <2>3, <2>4 DEF Worker, Nothing
  <2> HIDE DEF new
  <2>7. WorkerOK' /\ ObjOK'
    BY <1>0, <2>1, <2>4, <2>5, <2>6 DEF WorkerOK, ObjOK, TypeOK
  <2> QED
    BY <1>0, <1>14, <2>7
       DEF TypeInv, TypeOK, WorkerOK, ReadSecret, cluster, informers, history
<1>15. ASSUME NEW r \in Replicas, ReadSecretFails(r) PROVE TypeInv'
  <2>1. WorkerOK' /\ backoff' \in [Replicas -> SUBSET Pods]
    BY <1>0, <1>15, RequeueType DEF ReadSecretFails
  <2>2. ObjOK'
    BY <1>0, <1>15 DEF ReadSecretFails, Requeue, ObjOK, Idle, TypeOK
  <2> QED
    BY <1>0, <1>15, <2>1, <2>2, BoundAssumption
       DEF TypeInv, TypeOK, WorkerOK, ReadSecretFails, Fault, cluster, informers, history
<1>16. ASSUME NEW r \in Replicas, worker[r].pc = "write", Apply(r)
       PROVE  /\ WorkerOK' /\ ObjOK'
              /\ secrets' \in [SecretKeys -> Secret \cup {NoSecret}]
              /\ secretWatch' \in
                   [Replicas -> [SecretKeys -> Seq(Secret \cup {NoSecret})]]
  <2>1. worker[r].obj \in Secret
    BY <1>0, <1>16 DEF ObjOK
  <2>2. \A q \in Replicas : \/ worker'[q] = worker[q] \/ worker'[q] = Idle
                            \/ \E s : worker'[q] = StaleOn(worker[q], s)
    BY <1>0, <1>16 DEF Apply, TypeOK
  <2>3. ObjOK'
    BY <1>0, <1>r, <2>2, StaleOnType DEF ObjOK, Idle
  <2> QED
    BY <1>0, <1>16, <2>1, <2>3, ApplyType
<1>17. ASSUME NEW r \in Replicas, WriteSecret(r) PROVE TypeInv'
  <2>1. reported' \in [Pods -> Reasons]
    BY <1>0, <1>17 DEF WriteSecret, Emit, Reasons, TypeOK
  <2>2. worker[r].pc = "write" /\ Apply(r)
    BY <1>17 DEF WriteSecret
  <2> QED
    BY <1>0, <1>16, <1>17, <2>1, <2>2
       DEF TypeInv, TypeOK, WorkerOK, WriteSecret, history
<1>18. ASSUME NEW r \in Replicas, WriteSecretRejected(r) PROVE TypeInv'
  <2>1. WorkerOK' /\ backoff' \in [Replicas -> SUBSET Pods]
    BY <1>0, <1>18, RequeueType DEF WriteSecretRejected
  <2>2. ObjOK'
    BY <1>0, <1>18 DEF WriteSecretRejected, Requeue, ObjOK, Idle, TypeOK
  <2> QED
    BY <1>0, <1>18, <2>1, <2>2
       DEF TypeInv, TypeOK, WorkerOK, WriteSecretRejected, cluster, informers, history
<1>19. ASSUME NEW r \in Replicas, WriteSecretFails(r) PROVE TypeInv'
  <2>1. backoff' \in [Replicas -> SUBSET Pods] /\ faults' \in 0..MaxFaults
    BY <1>0, <1>19, BoundAssumption DEF WriteSecretFails, Fault, TypeOK
  <2>2. /\ WorkerOK' /\ ObjOK'
        /\ secrets' \in [SecretKeys -> Secret \cup {NoSecret}]
        /\ secretWatch' \in [Replicas -> [SecretKeys -> Seq(Secret \cup {NoSecret})]]
    <3>1. CASE worker' = [worker EXCEPT ![r] = Idle] /\ UNCHANGED <<secrets, secretWatch>>
      BY <1>0, <3>1, ResetType DEF ObjOK, Idle, TypeOK
    <3>2. CASE Apply(r)
      BY <1>16, <1>19, <3>2 DEF WriteSecretFails
    <3> QED
      BY <1>19, <3>1, <3>2 DEF WriteSecretFails
  <2> QED
    BY <1>0, <1>19, <2>1, <2>2 DEF TypeInv, TypeOK, WorkerOK, WriteSecretFails, history
<1>20. CASE UNCHANGED vars
  BY <1>0, <1>20
     DEF TypeInv, TypeOK, ObjOK, vars, cluster, informers, process, history
<1>21. ASSUME NEW r \in Replicas, NEW p \in Pods, StartReconcileFails(r, p) PROVE TypeInv'
  BY <1>0, <1>21, BoundAssumption
     DEF TypeInv, TypeOK, ObjOK, StartReconcileFails, Fault, cluster, informers, history
<1> QED
  BY <1>1, <1>2, <1>3, <1>4, <1>5, <1>6, <1>7, <1>8, <1>9, <1>10, <1>11, <1>12,
     <1>13, <1>14, <1>15, <1>17, <1>18, <1>19, <1>20, <1>21
     DEF Next, Environment, Runtime, Reconcile

(* Every reachable state is well typed.                                     *)
THEOREM TypeCorrect == Spec => []TypeOK
<1>1. TypeInv => TypeOK
  BY DEF TypeInv
<1> QED
  BY <1>1, InitType, NextType, PTL DEF Spec

=============================================================================
