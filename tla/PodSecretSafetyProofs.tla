----------------------- MODULE PodSecretSafetyProofs -----------------------
(* The two safety properties of PodSecretController that concern what       *)
(* stands in a secret, proved from inductive invariants that follow a value *)
(* through caches, watch events and workers.                                *)
EXTENDS PodSecretControllerProofs, SequenceTheorems

-----------------------------------------------------------------------------
(* Sequences of watch events: what is in them after an event is added, and  *)
(* after the first one is taken.                                            *)
LEMMA AppendElements ==
    ASSUME NEW S, NEW q \in Seq(S), NEW e \in S
    PROVE  /\ Append(q, e) \in Seq(S) /\ Append(q, e) # <<>>
           /\ Len(Append(q, e)) = Len(q) + 1
           /\ Append(q, e)[Len(q) + 1] = e
           /\ \A i \in 1..Len(Append(q, e)) :
                 Append(q, e)[i] = e \/ (i \in 1..Len(q) /\ Append(q, e)[i] = q[i])
  OBVIOUS

(* Taking the first event of a queue leaves the others, in order.           *)
LEMMA TailElements ==
    ASSUME NEW S, NEW q \in Seq(S), q # <<>>
    PROVE  /\ Head(q) = q[1] /\ 1 \in 1..Len(q) /\ Head(q) \in S
           /\ Tail(q) \in Seq(S) /\ Len(Tail(q)) = Len(q) - 1
           /\ \A i \in 1..Len(Tail(q)) : i + 1 \in 1..Len(q) /\ Tail(q)[i] = q[i + 1]
           /\ Tail(q) = <<>> <=> Len(q) = 1
<1>1. Len(q) \in Nat \ {0}
  OBVIOUS
<1>2. Tail(q) \in Seq(S) /\ Len(Tail(q)) = Len(q) - 1
  BY <1>1
<1>3. \A i \in 1..Len(Tail(q)) : i + 1 \in 1..Len(q) /\ Tail(q)[i] = q[i + 1]
  BY <1>1
<1>4. Head(q) = q[1] /\ 1 \in 1..Len(q) /\ Head(q) \in S
  BY <1>1
<1>5. Tail(q) = <<>> <=> Len(q) = 1
  <2>1. Tail(q) # <<>> => Len(Tail(q)) \in Nat \ {0}
    BY <1>2, EmptySeq
  <2>2. Tail(q) = <<>> => Len(Tail(q)) = 0
    BY EmptySeq
  <2> QED
    BY <1>1, <1>2, <2>1, <2>2
<1> QED
  BY <1>2, <1>3, <1>4, <1>5

-----------------------------------------------------------------------------
(* No lost update.                                                          *)

\* The last event on the way is the server's object; with none on the way the
\* cached object is.
WatchCatchesUp ==
    \A r \in Replicas, s \in SecretKeys :
        secrets[s] = IF secretWatch[r][s] = <<>> THEN secretCache[r][s]
                     ELSE secretWatch[r][s][Len(secretWatch[r][s])]

\* A worker that holds the current resourceVersion holds the current object.
FreshIsCurrent ==
    \A r \in Replicas : worker[r].pc = "write" /\ worker[r].fresh =>
        worker[r].base = secrets[Target(worker[r].pod, worker[r].ann)]

\* Its object differs from the copy it is built on in provider values only.
BuiltOnBase ==
    \A r \in Replicas : worker[r].pc = "write" /\ worker[r].base # NoSecret =>
        \A k \in Keys : \/ worker[r].obj.data[k] = worker[r].base.data[k]
                        \/ worker[r].obj.data[k] \in Values

FreshInv == TypeInv /\ WatchCatchesUp /\ FreshIsCurrent /\ BuiltOnBase

(* Merging the mapped answer over a secret's data keeps every key or puts a *)
(* provider value there.                                                    *)
LEMMA DesiredKeeps ==
    ASSUME TypeOK, NEW a \in Annotations, ParseOk(a),
           NEW fetched \in [Keys -> Values \cup {Absent}],
           NEW base \in Secret, NEW k \in Keys
    PROVE  \/ DesiredSecret(a, fetched, base).data[k] = base.data[k]
           \/ DesiredSecret(a, fetched, base).data[k] \in Values
<1>1. MapKeys(fetched, a.keys) \in [Keys -> Values \cup {Absent}]
  BY MapKeysType, AnnotationAssumption DEF AnnotationType
<1>2. base # NoSecret
  BY SentinelAssumption DEF Secret, Data
<1> QED
  BY <1>1, <1>2 DEF DesiredSecret, Overlay

(* Nothing is on the way at the start, and no worker holds an object.        *)
LEMMA InitFresh == Init => FreshInv
  BY InitType DEF Init, FreshInv, WatchCatchesUp, FreshIsCurrent, BuiltOnBase, Idle

(* An accepted write reaches every watch queue, and whoever still holds an  *)
(* earlier version of the secret is no longer fresh.                        *)
LEMMA CommitFresh ==
    ASSUME FreshInv, NEW s \in SecretKeys, NEW secret \in Secret \cup {NoSecret},
           Commit(s, secret), secretCache' = secretCache,
           \A q \in Replicas : worker'[q] = Idle \/ worker'[q] = StaleOn(worker[q], s)
    PROVE  WatchCatchesUp' /\ FreshIsCurrent' /\ BuiltOnBase'
<1>0. TypeOK
  BY DEF FreshInv, TypeInv
<1>1. WatchCatchesUp'
  <2> SUFFICES ASSUME NEW r \in Replicas, NEW t \in SecretKeys
               PROVE  secrets'[t] =
                        IF secretWatch'[r][t] = <<>> THEN secretCache'[r][t]
                        ELSE secretWatch'[r][t][Len(secretWatch'[r][t])]
    BY DEF WatchCatchesUp
  <2>1. CASE t = s
    <3>1. /\ secretWatch'[r][s] = Append(secretWatch[r][s], secret)
          /\ secrets'[s] = secret
          /\ secretWatch[r][s] \in Seq(Secret \cup {NoSecret})
      BY <1>0 DEF Commit, TypeOK
    <3> QED
      BY <2>1, <3>1, AppendElements
  <2>2. CASE t # s
    <3>1. secretWatch'[r][t] = secretWatch[r][t] /\ secrets'[t] = secrets[t]
      BY <1>0, <2>2 DEF Commit, TypeOK
    <3> QED
      BY <3>1 DEF FreshInv, WatchCatchesUp
  <2> QED
    BY <2>1, <2>2
<1>2. ASSUME NEW q \in Replicas, worker'[q].pc = "write"
      PROVE  /\ worker'[q] = StaleOn(worker[q], s)
             /\ worker[q] \in Worker /\ worker[q].pc = "write"
             /\ worker'[q].pod = worker[q].pod /\ worker'[q].ann = worker[q].ann
             /\ worker'[q].base = worker[q].base /\ worker'[q].obj = worker[q].obj
             /\ worker'[q].fresh => worker[q].fresh /\ worker'[q] = worker[q]
             /\ Target(worker[q].pod, worker[q].ann) \in SecretKeys
  <2>1. worker[q] \in Worker
    BY <1>0 DEF TypeOK
  <2>2. worker'[q] = StaleOn(worker[q], s)
    BY <1>2 DEF Idle
  <2>3. worker[q].pc = "write"
    BY <1>2, <2>1, <2>2, StaleOnType
  <2>4. Target(worker[q].pod, worker[q].ann) \in SecretKeys
    BY <1>0, <2>3, TargetType DEF TypeOK
  <2> QED
    BY <2>1, <2>2, <2>3, <2>4, StaleOnType
<1>3. FreshIsCurrent'
  <2> SUFFICES ASSUME NEW q \in Replicas, worker'[q].pc = "write", worker'[q].fresh
               PROVE  worker'[q].base = secrets'[Target(worker'[q].pod, worker'[q].ann)]
    BY DEF FreshIsCurrent, Target
  <2>1. Target(worker[q].pod, worker[q].ann) # s
    BY <1>2 DEF StaleOn, Worker
  <2>2. worker[q].base = secrets[Target(worker[q].pod, worker[q].ann)]
    BY <1>2 DEF FreshInv, FreshIsCurrent
  <2> QED
    BY <1>0, <1>2, <2>1, <2>2 DEF Commit, TypeOK, Target
<1>4. BuiltOnBase'
  BY <1>2 DEF FreshInv, BuiltOnBase
<1> QED
  BY <1>1, <1>3, <1>4
(* A step that leaves server, caches, watch queues and workers alone keeps  *)
(* the three conjuncts.                                                     *)
LEMMA FreshStable ==
    ASSUME FreshInv, UNCHANGED <<secrets, secretCache, secretWatch, worker>>
    PROVE  WatchCatchesUp' /\ FreshIsCurrent' /\ BuiltOnBase'
  BY DEF FreshInv, WatchCatchesUp, FreshIsCurrent, BuiltOnBase, Target

(* So does a worker that stops, or that moves to a step before the write.   *)
LEMMA FreshWorker ==
    ASSUME FreshInv, UNCHANGED <<secrets, secretCache, secretWatch>>,
           NEW r \in Replicas, NEW w, w.pc # "write", worker' = [worker EXCEPT ![r] = w]
    PROVE  WatchCatchesUp' /\ FreshIsCurrent' /\ BuiltOnBase'
  BY DEF FreshInv, TypeInv, TypeOK, WatchCatchesUp, FreshIsCurrent, BuiltOnBase, Target

(* Every step keeps the invariant behind NoLostUpdate, action by action.     *)
LEMMA NextFresh == FreshInv /\ [Next]_vars => FreshInv'
<1> SUFFICES ASSUME FreshInv, [Next]_vars
             PROVE  WatchCatchesUp' /\ FreshIsCurrent' /\ BuiltOnBase'
  BY NextType DEF FreshInv
<1> DEFINE Goal == WatchCatchesUp' /\ FreshIsCurrent' /\ BuiltOnBase'
<1>0. TypeOK /\ ObjOK
  BY DEF FreshInv, TypeInv
<1>r. \A r \in Replicas : worker[r] \in Worker
  BY <1>0 DEF TypeOK
<1>i. Idle.pc # "write"
  BY DEF Idle
<1>1. ASSUME NEW p \in Pods, NEW a \in Annotations, SetPod(p, a) PROVE Goal
  BY <1>1, FreshStable DEF SetPod, process
<1>2. ASSUME NEW p \in Pods, DeletePod(p) PROVE Goal
  BY <1>2, FreshStable DEF DeletePod, process
<1>3. ASSUME NEW path \in Paths, NEW keySet \in SUBSET Keys, Rotate(path, keySet)
      PROVE  Goal
  BY <1>3, FreshStable DEF Rotate, process, informers
<1>4. ASSUME NEW s \in SecretKeys, NEW k \in Keys, NEW opaque \in BOOLEAN,
             UserWrite(s, k, opaque)
      PROVE  Goal
  <2> DEFINE obj == [data |-> [Nothing EXCEPT ![k] = Foreign], managed |-> FALSE,
                     source |-> Absent, stamp |-> 0, opaque |-> opaque]
  <2>1. obj \in Secret
    BY DEF Secret, Data, Nothing
  <2>2. /\ Commit(s, obj) /\ secretCache' = secretCache
        /\ \A q \in Replicas : worker'[q] = StaleOn(worker[q], s)
    BY <1>4 DEF UserWrite
  <2> HIDE DEF obj
  <2> QED
    BY <2>1, <2>2, CommitFresh
<1>5. ASSUME NEW s \in SecretKeys, UserDelete(s) PROVE Goal
  <2>1. /\ Commit(s, NoSecret) /\ secretCache' = secretCache
        /\ \A q \in Replicas : worker'[q] = StaleOn(worker[q], s)
    BY <1>5 DEF UserDelete
  <2> QED
    BY <2>1, CommitFresh
<1>6. CASE Tick
  BY <1>6, FreshStable DEF Tick, process, informers
<1>7. ASSUME NEW r \in Replicas, NEW p \in Pods, DeliverPod(r, p) PROVE Goal
  BY <1>7, FreshStable DEF DeliverPod, cluster
<1>8. ASSUME NEW r \in Replicas, NEW p \in Pods, BackoffElapsed(r, p) PROVE Goal
  BY <1>8, FreshStable DEF BackoffElapsed, cluster, informers
<1>9. ASSUME NEW r \in Replicas, NEW s \in SecretKeys, DeliverSecret(r, s) PROVE Goal
  <2>1. secrets' = secrets /\ worker' = worker
    BY <1>9 DEF DeliverSecret, cluster
  <2>2. FreshIsCurrent' /\ BuiltOnBase'
    BY <2>1 DEF FreshInv, FreshIsCurrent, BuiltOnBase, Target
  <2>3. ASSUME NEW q \in Replicas, NEW t \in SecretKeys
        PROVE  secrets[t] = IF secretWatch'[q][t] = <<>> THEN secretCache'[q][t]
                            ELSE secretWatch'[q][t][Len(secretWatch'[q][t])]
    <3>1. secrets[t] = IF secretWatch[q][t] = <<>> THEN secretCache[q][t]
                       ELSE secretWatch[q][t][Len(secretWatch[q][t])]
      BY DEF FreshInv, WatchCatchesUp
    <3>2. CASE q = r /\ t = s
      <4> DEFINE e == secretWatch[r][s]
      <4>1. e \in Seq(Secret \cup {NoSecret}) /\ e # <<>>
        BY <1>0, <1>9 DEF TypeOK, DeliverSecret
      <4>2. secretWatch'[q][t] = Tail(e) /\ secretCache'[q][t] = Head(e)
        BY <1>0, <1>9, <3>2 DEF TypeOK, DeliverSecret
      <4>3. secrets[t] = e[Len(e)] /\ Len(e) \in Nat \ {0}
        BY <3>1, <3>2, <4>1
      <4> HIDE DEF e
      <4>4. CASE Len(e) = 1
        BY <4>1, <4>2, <4>3, <4>4, TailElements
      <4>5. CASE Len(e) # 1
        <5>1. Tail(e) # <<>> /\ Len(Tail(e)) = Len(e) - 1
          BY <4>1, <4>5, TailElements
        <5>2. Tail(e)[Len(e) - 1] = e[Len(e)]
          BY <4>1, <4>3, <4>5, <5>1, TailElements
        <5> QED
          BY <4>2, <4>3, <5>1, <5>2
      <4> QED
        BY <4>4, <4>5
    <3>3. CASE ~(q = r /\ t = s)
      <4>1. secretWatch'[q][t] = secretWatch[q][t] /\ secretCache'[q][t] = secretCache[q][t]
        BY <1>0, <1>9, <3>3 DEF TypeOK, DeliverSecret
      <4> QED
        BY <3>1, <4>1
    <3> QED
      BY <3>2, <3>3
  <2> QED
    BY <2>1, <2>2, <2>3 DEF WatchCatchesUp
<1>10. ASSUME NEW r \in Replicas, Restart(r) PROVE Goal
  <2>1. secrets' = secrets /\ worker' = [worker EXCEPT ![r] = Idle]
    BY <1>10 DEF Restart, Relist, cluster
  <2>2. FreshIsCurrent' /\ BuiltOnBase'
    BY <1>0, <1>i, <2>1 DEF FreshInv, FreshIsCurrent, BuiltOnBase, Target, TypeOK
  <2>3. WatchCatchesUp'
    BY <1>0, <1>10, <2>1 DEF FreshInv, WatchCatchesUp, Restart, Relist, TypeOK
  <2> QED
    BY <2>2, <2>3
<1>11. ASSUME NEW r \in Replicas, NEW p \in Pods, StartReconcile(r, p) PROVE Goal
  <2>1. UNCHANGED <<secrets, secretCache, secretWatch>>
    BY <1>11 DEF StartReconcile, Take, cluster, informers
  <2>2. CASE worker' = [worker EXCEPT ![r] = Idle]
    BY <1>i, <2>1, <2>2, FreshWorker
  <2>3. CASE worker' = [worker EXCEPT ![r] =
               [Idle EXCEPT !.pc = "fetch", !.pod = p, !.ann = podCache[r][p]]]
    <3> DEFINE w == [Idle EXCEPT !.pc = "fetch", !.pod = p, !.ann = podCache[r][p]]
    <3>1. w.pc = "fetch" /\ worker' = [worker EXCEPT ![r] = w]
      BY <2>3 DEF Idle
    <3> HIDE DEF w
    <3> QED
      BY <2>1, <3>1, FreshWorker
  <2> QED
    BY <1>11, <2>2, <2>3 DEF StartReconcile, Take, Done
<1>12. ASSUME NEW r \in Replicas, FetchSecret(r) PROVE Goal
  <2>1. UNCHANGED <<secrets, secretCache, secretWatch>>
    BY <1>12 DEF FetchSecret, cluster, informers
  <2>2. worker' = [worker EXCEPT ![r] = worker'[r]] /\ worker'[r].pc = "get"
    BY <1>0, <1>r, <1>12 DEF FetchSecret, Worker, TypeOK
  <2> QED
    BY <2>1, <2>2, FreshWorker
<1>13. ASSUME NEW r \in Replicas, FetchSecretFails(r) PROVE Goal
  BY <1>i, <1>13, FreshWorker DEF FetchSecretFails, Requeue, cluster, informers
<1>14. ASSUME NEW r \in Replicas, ReadSecret(r) PROVE Goal
  <2> DEFINE w == worker[r]
             s == Target(w.pod, w.ann)
             base == secretCache[r][s]
             obj == DesiredSecret(w.ann, w.fetched, base)
             new == [w EXCEPT !.pc = "write", !.base = base, !.fetched = Nothing,
                              !.fresh = (secretWatch[r][s] = <<>>), !.obj = obj]
  <2>1. w \in Worker /\ w.pod \in Pods /\ w.ann \in Annotations /\ ParseOk(w.ann)
    BY <1>0, <1>r, <1>14 DEF TypeOK, ReadSecret
  <2>2. s \in SecretKeys
    BY <2>1, TargetType
  <2>3. base \in Secret \cup {NoSecret}
    BY <1>0, <2>2 DEF TypeOK
  <2>4. base # NoSecret => \A k \in Keys : \/ obj.data[k] = base.data[k]
                                           \/ obj.data[k] \in Values
    BY <1>0, <2>1, <2>3, DesiredKeeps DEF Worker
  <2>5. secretWatch[r][s] = <<>> => base = secrets[s]
    BY <2>2 DEF FreshInv, WatchCatchesUp
  <2>6. /\ worker' = [worker EXCEPT ![r] = new]
        /\ UNCHANGED <<secrets, secretCache, secretWatch>>
    BY <1>14 DEF ReadSecret, cluster, informers
  <2>7. /\ new.pod = w.pod /\ new.ann = w.ann /\ new.base = base /\ new.obj = obj
        /\ new.fresh = (secretWatch[r][s] = <<>>)
    BY <2>1 DEF Worker
  <2> HIDE DEF new, obj, base
  <2>8. WatchCatchesUp'
    BY <2>6 DEF FreshInv, WatchCatchesUp
  <2>9. FreshIsCurrent'
    BY <1>0, <2>5, <2>6, <2>7 DEF FreshInv, FreshIsCurrent, Target, TypeOK
  <2>10. BuiltOnBase'
    BY <1>0, <2>4, <2>6, <2>7 DEF FreshInv, BuiltOnBase, TypeOK
  <2> QED
    BY <2>8, <2>9, <2>10
<1>15. ASSUME NEW r \in Replicas, ReadSecretFails(r) PROVE Goal
  BY <1>i, <1>15, FreshWorker DEF ReadSecretFails, Requeue, cluster, informers
<1>16. ASSUME NEW r \in Replicas, worker[r].pc = "write", Apply(r),
              secretCache' = secretCache
       PROVE  Goal
  <2> DEFINE s == Target(worker[r].pod, worker[r].ann)
  <2>1. s \in SecretKeys /\ worker[r].obj \in Secret
    BY <1>0, <1>16, TargetType DEF TypeOK, ObjOK
  <2>2. CASE worker' = [worker EXCEPT ![r] = Idle] /\ UNCHANGED <<secrets, secretWatch>>
    BY <1>i, <1>16, <2>2, FreshWorker
  <2>3. CASE /\ Commit(s, worker[r].obj)
             /\ worker' = [q \in Replicas |-> IF q = r THEN Idle ELSE StaleOn(worker[q], s)]
    BY <1>16, <2>1, <2>3, CommitFresh
  <2> QED
    BY <1>16, <2>2, <2>3 DEF Apply
<1>17. ASSUME NEW r \in Replicas, WriteSecret(r) PROVE Goal
  BY <1>16, <1>17 DEF WriteSecret
<1>18. ASSUME NEW r \in Replicas, WriteSecretRejected(r) PROVE Goal
  BY <1>i, <1>18, FreshWorker DEF WriteSecretRejected, Requeue, cluster, informers
<1>19. ASSUME NEW r \in Replicas, WriteSecretFails(r) PROVE Goal
  BY <1>i, <1>16, <1>19, FreshWorker DEF WriteSecretFails
<1>20. CASE UNCHANGED vars
  BY <1>20, FreshStable DEF vars, cluster, informers, process
<1>21. ASSUME NEW r \in Replicas, NEW p \in Pods, StartReconcileFails(r, p) PROVE Goal
  BY <1>21, FreshStable DEF StartReconcileFails, cluster, informers
<1> QED
  BY <1>1, <1>2, <1>3, <1>4, <1>5, <1>6, <1>7, <1>8, <1>9, <1>10, <1>11, <1>12,
     <1>13, <1>14, <1>15, <1>17, <1>18, <1>19, <1>20, <1>21
     DEF Next, Environment, Runtime, Reconcile

(* What a step of the controller may do to the secrets it finds.            *)
LEMMA StepKeeps ==
    ASSUME FreshInv, [Next]_vars, edits' = edits
    PROVE  KeepsWhatItFinds
<1>0. TypeOK /\ ObjOK
  BY DEF FreshInv, TypeInv
<1>1. CASE secrets' = secrets
  BY <1>1 DEF KeepsWhatItFinds
<1>2. ASSUME NEW r \in Replicas, worker[r].pc = "write", Accepted(worker[r]), Apply(r)
      PROVE  KeepsWhatItFinds
  <2> DEFINE w == worker[r]
             s == Target(w.pod, w.ann)
  <2>1. s \in SecretKeys /\ w.obj \in Secret /\ w.obj # NoSecret
    BY <1>0, <1>2, TargetType, SentinelAssumption DEF TypeOK, ObjOK, Secret, Data
  <2>2. CASE secrets' = [secrets EXCEPT ![s] = w.obj]
    <3>1. CASE w.base = NoSecret
      BY <1>0, <1>2, <2>1, <2>2, <3>1 DEF KeepsWhatItFinds, Accepted, TypeOK
    <3>2. CASE w.base # NoSecret
      <4>1. w.base = secrets[s]
        BY <1>2, <3>2 DEF Accepted, FreshInv, FreshIsCurrent
      <4>2. \A k \in Keys : w.obj.data[k] = w.base.data[k] \/ w.obj.data[k] \in Values
        BY <1>2, <3>2 DEF FreshInv, BuiltOnBase
      <4> HIDE DEF w, s
      <4> QED
        BY <1>0, <2>1, <2>2, <4>1, <4>2 DEF KeepsWhatItFinds, TypeOK
    <3> QED
      BY <3>1, <3>2
  <2> QED
    BY <1>1, <1>2, <2>2 DEF Apply, Commit
<1>3. edits \in Nat
  BY <1>0, BoundAssumption DEF TypeOK
<1>4. ~Edit
  BY <1>3 DEF Edit
<1>5. secrets' = secrets \/ \E r \in Replicas : WriteSecret(r) \/ WriteSecretFails(r)
  BY <1>4, ZenonT(60) DEF Next, Environment, Runtime, Reconcile, vars, cluster, SetPod, DeletePod,
     Rotate, UserWrite, UserDelete, Tick, DeliverPod, DeliverSecret, BackoffElapsed,
     Restart, Relist, StartReconcile, Take, StartReconcileFails, FetchSecret,
     FetchSecretFails, ReadSecret, ReadSecretFails, WriteSecretRejected
<1> QED
  BY <1>1, <1>2, <1>5 DEF WriteSecret, WriteSecretFails

(* No lost update, for every number of replicas and however late watch      *)
(* events arrive: Reconcile's read-modify-write of a secret never discards  *)
(* what somebody else put there.                                            *)
THEOREM NoUpdateIsLost == Spec => NoLostUpdate
<1>1. FreshInv /\ [Next]_vars => [edits' = edits => KeepsWhatItFinds]_vars
  BY StepKeeps
<1> QED
  BY <1>1, InitFresh, NextFresh, PTL DEF Spec, NoLostUpdate

-----------------------------------------------------------------------------
(* Only what was asked.                                                     *)

\* Every pod object anywhere - server, caches, watch events - was really set.
Recorded(p, a) == a # NoPod => <<p, a>> \in asked
PodsRecorded ==
    /\ \A p \in Pods : Recorded(p, pods[p])
    /\ \A r \in Replicas, p \in Pods :
         /\ Recorded(p, podCache[r][p])
         /\ \A i \in 1..Len(podWatch[r][p]) : Recorded(p, podWatch[r][p][i])

\* A worker acts for such a pod, on the answer for its path.
WorkerRecorded(w) ==
    /\ w.pc # "idle" => /\ <<w.pod, w.ann>> \in asked
                        /\ w.ann.provider \in Registered
    /\ w.pc = "get" => \A k \in Keys : w.fetched[k] # Absent =>
                          w.fetched[k].path = w.ann.path /\ w.fetched[k].key = k
    /\ w.pc = "write" => LicensedSecret(Target(w.pod, w.ann), w.obj)
WorkersRecorded == \A r \in Replicas : WorkerRecorded(worker[r])

\* Every secret object anywhere holds licensed values only.
SecretsLicensed ==
    /\ OnlyWhatWasAsked
    /\ \A r \in Replicas, s \in SecretKeys :
         /\ LicensedSecret(s, secretCache[r][s])
         /\ \A i \in 1..Len(secretWatch[r][s]) : LicensedSecret(s, secretWatch[r][s][i])

AskedInv == TypeInv /\ PodsRecorded /\ WorkersRecorded /\ SecretsLicensed

(* The history only grows, so a licence once given stays.                   *)
LEMMA LicenceStays ==
    ASSUME asked \subseteq asked', NEW s, NEW secret, LicensedSecret(s, secret)
    PROVE  LicensedSecret(s, secret)'
  BY DEF LicensedSecret, Licensed

(* The object of ReadSecret is licensed by the worker's own pod, or by what *)
(* licensed the secret it is built on.                                      *)
LEMMA DesiredLicensed ==
    ASSUME TypeOK, NEW p \in Pods, NEW a \in Annotations, ParseOk(a),
           a.provider \in Registered, <<p, a>> \in asked,
           NEW fetched \in [Keys -> Values \cup {Absent}],
           \A k \in Keys : fetched[k] # Absent =>
               fetched[k].path = a.path /\ fetched[k].key = k,
           NEW base \in Secret \cup {NoSecret}, LicensedSecret(Target(p, a), base)
    PROVE  LicensedSecret(Target(p, a), DesiredSecret(a, fetched, base))
<1> DEFINE new == MapKeys(fetched, a.keys)
           old == IF base = NoSecret THEN Nothing ELSE base.data
           obj == DesiredSecret(a, fetched, base)
<1> SUFFICES ASSUME NEW k \in Keys, obj.data[k] \in Values
             PROVE  Licensed(Target(p, a), k, obj.data[k])
  BY DEF LicensedSecret
<1>1. obj.data[k] = IF new[k] # Absent THEN new[k] ELSE old[k]
  BY DEF DesiredSecret, Overlay
<1>2. a.keys \in [Keys -> Keys \cup {Absent}]
  BY AnnotationAssumption DEF AnnotationType
<1>3. CASE new[k] # Absent
  <2>1. CASE HasMapping(a.keys)
    <3>1. a.keys[k] # Absent /\ new[k] = fetched[a.keys[k]] /\ a.keys[k] \in Keys
      BY <1>2, <1>3, <2>1 DEF MapKeys
    <3>2. new[k].path = a.path /\ new[k].key = a.keys[k]
      BY <1>3, <3>1
    <3> HIDE DEF new
    <3> QED
      BY <1>1, <1>3, <2>1, <3>2 DEF Licensed, Target
  <2>2. CASE ~HasMapping(a.keys)
    <3>1. new[k].path = a.path /\ new[k].key = k
      BY <1>3, <2>2 DEF MapKeys
    <3> HIDE DEF new
    <3> QED
      BY <1>1, <1>3, <2>2, <3>1 DEF Licensed, Target
  <2> QED
    BY <2>1, <2>2
<1>4. CASE new[k] = Absent
  <2>1. base # NoSecret
    BY <1>1, <1>4, SentinelAssumption DEF Nothing
  <2> QED
    BY <1>1, <1>4, <2>1 DEF LicensedSecret
<1> QED
  BY <1>3, <1>4

(* There is no pod, no secret and no answer at the start.                   *)
LEMMA InitAsked == Init => AskedInv
  BY InitType
     DEF Init, AskedInv, PodsRecorded, Recorded, WorkersRecorded, WorkerRecorded,
         Idle, SecretsLicensed, OnlyWhatWasAsked, LicensedSecret

(* Steps that leave the pods of server, caches and watches alone.           *)
LEMMA PodsStable ==
    ASSUME AskedInv, UNCHANGED <<pods, podCache, podWatch, asked>>
    PROVE  PodsRecorded'
  BY DEF AskedInv, PodsRecorded, Recorded

(* Steps that leave the secrets of server, caches and watches alone.        *)
LEMMA SecretsStable ==
    ASSUME AskedInv, UNCHANGED <<secrets, secretCache, secretWatch>>, asked \subseteq asked'
    PROVE  SecretsLicensed'
  BY LicenceStays DEF AskedInv, SecretsLicensed, OnlyWhatWasAsked

(* Steps that change at most one worker, to a recorded one.                 *)
LEMMA WorkersStable ==
    ASSUME AskedInv, asked \subseteq asked',
           \A q \in Replicas : worker'[q] = worker[q] \/ WorkerRecorded(worker'[q])
    PROVE  WorkersRecorded'
<1> SUFFICES ASSUME NEW q \in Replicas PROVE WorkerRecorded(worker[q])'
  BY DEF WorkersRecorded
<1>1. WorkerRecorded(worker'[q])
  BY DEF AskedInv, WorkersRecorded
<1> QED
  BY <1>1, LicenceStays DEF WorkerRecorded, Target

(* A worker at rest acts for nobody.                                        *)
LEMMA IdleRecorded == WorkerRecorded(Idle)
  BY DEF WorkerRecorded, Idle

(* Losing freshness changes nothing a worker acts on.                       *)
LEMMA StaleRecorded ==
    ASSUME NEW w \in Worker, NEW s, WorkerRecorded(w)
    PROVE  WorkerRecorded(StaleOn(w, s))
<1> DEFINE v == StaleOn(w, s)
<1>1. /\ v.pc = w.pc /\ v.pod = w.pod /\ v.ann = w.ann
      /\ v.fetched = w.fetched /\ v.obj = w.obj
  BY StaleOnType
<1> HIDE DEF v
<1>2. WorkerRecorded(v)
  BY <1>1 DEF WorkerRecorded
<1> QED
  BY <1>2 DEF v

(* A committed licensed write keeps server and watch queues licensed.       *)
LEMMA CommitLicensed ==
    ASSUME AskedInv, NEW s \in SecretKeys, NEW secret \in Secret \cup {NoSecret},
           LicensedSecret(s, secret), Commit(s, secret),
           UNCHANGED <<secretCache, asked>>
    PROVE  SecretsLicensed'
<1>0. TypeOK
  BY DEF AskedInv, TypeInv
<1>1. ASSUME NEW t \in SecretKeys PROVE LicensedSecret(t, secrets'[t])
  BY <1>0 DEF Commit, TypeOK, AskedInv, SecretsLicensed, OnlyWhatWasAsked
<1>2. ASSUME NEW r \in Replicas, NEW t \in SecretKeys,
             NEW i \in 1..Len(secretWatch'[r][t])
      PROVE  LicensedSecret(t, secretWatch'[r][t][i])
  <2>1. secretWatch[r][t] \in Seq(Secret \cup {NoSecret})
    BY <1>0 DEF TypeOK
  <2>2. CASE t = s
    <3>1. secretWatch'[r][s] = Append(secretWatch[r][s], secret)
      BY <1>0 DEF Commit, TypeOK
    <3>2. \/ secretWatch'[r][s][i] = secret
          \/ /\ i \in 1..Len(secretWatch[r][s])
             /\ secretWatch'[r][s][i] = secretWatch[r][s][i]
      BY <2>1, <2>2, <3>1, AppendElements
    <3> QED
      BY <2>2, <3>2 DEF AskedInv, SecretsLicensed
  <2>3. CASE t # s
    <3>1. secretWatch'[r][t] = secretWatch[r][t]
      BY <1>0, <2>3 DEF Commit, TypeOK
    <3> QED
      BY <3>1 DEF AskedInv, SecretsLicensed
  <2> QED
    BY <2>2, <2>3
<1>3. \A r \in Replicas, t \in SecretKeys : LicensedSecret(t, secretCache'[r][t])
  BY DEF AskedInv, SecretsLicensed
<1> QED
  BY <1>1, <1>2, <1>3 DEF SecretsLicensed, OnlyWhatWasAsked, LicensedSecret, Licensed

(* A new event about a pod that was really set keeps the pods recorded.     *)
LEMMA PodEvent ==
    ASSUME AskedInv, NEW p \in Pods, NEW a \in Annotations \cup {NoPod},
           asked' = IF a = NoPod THEN asked ELSE asked \cup {<<p, a>>},
           pods' = [pods EXCEPT ![p] = a], podCache' = podCache,
           podWatch' = [r \in Replicas |-> [podWatch[r] EXCEPT ![p] = Append(@, a)]]
    PROVE  PodsRecorded'
<1>0. TypeOK
  BY DEF AskedInv, TypeInv
<1>1. asked \subseteq asked' /\ (a # NoPod => <<p, a>> \in asked')
  OBVIOUS
<1>2. \A q \in Pods : pods'[q] # NoPod => <<q, pods'[q]>> \in asked'
  BY <1>0, <1>1 DEF AskedInv, PodsRecorded, Recorded, TypeOK
<1>3. ASSUME NEW r \in Replicas, NEW q \in Pods, NEW i \in 1..Len(podWatch'[r][q]),
             podWatch'[r][q][i] # NoPod
      PROVE  <<q, podWatch'[r][q][i]>> \in asked'
  <2>1. podWatch[r][q] \in Seq(Annotations \cup {NoPod})
    BY <1>0 DEF TypeOK
  <2>2. CASE q = p
    <3>1. podWatch'[r][p] = Append(podWatch[r][p], a)
      BY <1>0 DEF TypeOK
    <3>2. \/ podWatch'[r][p][i] = a
          \/ i \in 1..Len(podWatch[r][p]) /\ podWatch'[r][p][i] = podWatch[r][p][i]
      BY <2>1, <2>2, <3>1, AppendElements
    <3> QED
      BY <1>1, <1>3, <2>2, <3>2 DEF AskedInv, PodsRecorded, Recorded
  <2>3. CASE q # p
    <3>1. podWatch'[r][q] = podWatch[r][q]
      BY <1>0, <2>3 DEF TypeOK
    <3> QED
      BY <1>1, <1>3, <3>1 DEF AskedInv, PodsRecorded, Recorded
  <2> QED
    BY <2>2, <2>3
<1>4. \A r \in Replicas, q \in Pods :
         podCache'[r][q] # NoPod => <<q, podCache'[r][q]>> \in asked'
  BY <1>1 DEF AskedInv, PodsRecorded, Recorded
<1> QED
  BY <1>2, <1>3, <1>4 DEF PodsRecorded, Recorded

(* Every step keeps the invariant behind OnlyWhatWasAsked.                  *)
LEMMA NextAsked == AskedInv /\ [Next]_vars => AskedInv'
<1> SUFFICES ASSUME AskedInv, [Next]_vars
             PROVE  PodsRecorded' /\ WorkersRecorded' /\ SecretsLicensed'
  BY NextType DEF AskedInv
<1> DEFINE Goal == PodsRecorded' /\ WorkersRecorded' /\ SecretsLicensed'
<1>0. TypeOK /\ ObjOK
  BY DEF AskedInv, TypeInv
<1>r. \A r \in Replicas : worker[r] \in Worker /\ WorkerRecorded(worker[r])
  BY <1>0 DEF TypeOK, AskedInv, WorkersRecorded
<1>i. ASSUME NEW r \in Replicas, worker' = [worker EXCEPT ![r] = Idle], asked' = asked
      PROVE  WorkersRecorded'
  BY <1>0, <1>i, IdleRecorded, WorkersStable DEF TypeOK
<1>1. ASSUME NEW p \in Pods, NEW a \in Annotations, SetPod(p, a) PROVE Goal
  <2>1. a # NoPod
    BY AnnotationAssumption, SentinelAssumption
  <2>2. PodsRecorded'
    BY <1>1, <2>1, PodEvent DEF SetPod
  <2>3. WorkersRecorded'
    BY <1>1, WorkersStable DEF SetPod, process
  <2>4. SecretsLicensed'
    BY <1>1, SecretsStable DEF SetPod
  <2> QED
    BY <2>2, <2>3, <2>4
<1>2. ASSUME NEW p \in Pods, DeletePod(p) PROVE Goal
  <2>1. PodsRecorded'
    BY <1>2, PodEvent DEF DeletePod, history
  <2>2. WorkersRecorded' /\ SecretsLicensed'
    BY <1>2, WorkersStable, SecretsStable DEF DeletePod, process, history
  <2> QED
    BY <2>1, <2>2
<1>3. ASSUME NEW path \in Paths, NEW keySet \in SUBSET Keys, Rotate(path, keySet)
      PROVE  Goal
  BY <1>3, PodsStable, WorkersStable, SecretsStable
     DEF Rotate, informers, process, history
<1>4. ASSUME NEW s \in SecretKeys, NEW k \in Keys, NEW opaque \in BOOLEAN,
             UserWrite(s, k, opaque)
      PROVE  Goal
  <2> DEFINE obj == [data |-> [Nothing EXCEPT ![k] = Foreign], managed |-> FALSE,
                     source |-> Absent, stamp |-> 0, opaque |-> opaque]
  <2>1. obj \in Secret /\ LicensedSecret(s, obj)
    BY SentinelAssumption DEF Secret, Data, Nothing, LicensedSecret
  <2>2. Commit(s, obj) /\ UNCHANGED <<secretCache, asked>>
    BY <1>4 DEF UserWrite, history
  <2> HIDE DEF obj
  <2>3. SecretsLicensed'
    BY <2>1, <2>2, CommitLicensed
  <2>4. PodsRecorded'
    BY <1>4, PodsStable DEF UserWrite, history
  <2>5. \A q \in Replicas : WorkerRecorded(worker'[q])
    BY <1>r, <1>4, StaleRecorded DEF UserWrite
  <2> QED
    BY <2>2, <2>3, <2>4, <2>5, WorkersStable
<1>5. ASSUME NEW s \in SecretKeys, UserDelete(s) PROVE Goal
  <2>1. SecretsLicensed'
    BY <1>5, CommitLicensed DEF UserDelete, history, LicensedSecret
  <2>2. PodsRecorded'
    BY <1>5, PodsStable DEF UserDelete, history
  <2>3. \A q \in Replicas : WorkerRecorded(worker'[q])
    BY <1>r, <1>5, StaleRecorded DEF UserDelete
  <2>4. WorkersRecorded'
    BY <1>5, <2>3, WorkersStable DEF UserDelete, history
  <2> QED
    BY <2>1, <2>2, <2>4
<1>6. CASE Tick
  BY <1>6, PodsStable, WorkersStable, SecretsStable DEF Tick, informers, process, history
<1>7. ASSUME NEW r \in Replicas, NEW p \in Pods, DeliverPod(r, p) PROVE Goal
  <2> DEFINE e == podWatch[r][p]
  <2>1. e \in Seq(Annotations \cup {NoPod}) /\ e # <<>>
    BY <1>0, <1>7 DEF TypeOK, DeliverPod
  <2>2. Recorded(p, Head(e)) /\ \A i \in 1..Len(Tail(e)) : Recorded(p, Tail(e)[i])
    BY <2>1, TailElements DEF AskedInv, PodsRecorded
  <2>3. /\ podCache' = [podCache EXCEPT ![r][p] = Head(e)]
        /\ podWatch' = [podWatch EXCEPT ![r][p] = Tail(e)]
        /\ pods' = pods /\ asked' = asked
    BY <1>7 DEF DeliverPod, cluster, history
  <2> HIDE DEF e
  <2>4. \A q \in Replicas, t \in Pods :
           /\ Recorded(t, podCache'[q][t])
           /\ \A i \in 1..Len(podWatch'[q][t]) : Recorded(t, podWatch'[q][t][i])
    BY <1>0, <2>2, <2>3 DEF AskedInv, PodsRecorded, TypeOK
  <2>5. PodsRecorded'
    BY <2>3, <2>4 DEF AskedInv, PodsRecorded, Recorded
  <2> QED
    BY <1>7, <2>3, <2>5, WorkersStable, SecretsStable DEF DeliverPod, cluster
<1>8. ASSUME NEW r \in Replicas, NEW p \in Pods, BackoffElapsed(r, p) PROVE Goal
  BY <1>8, PodsStable, WorkersStable, SecretsStable
     DEF BackoffElapsed, cluster, informers, history
<1>9. ASSUME NEW r \in Replicas, NEW s \in SecretKeys, DeliverSecret(r, s) PROVE Goal
  <2> DEFINE e == secretWatch[r][s]
  <2>1. e \in Seq(Secret \cup {NoSecret}) /\ e # <<>>
    BY <1>0, <1>9 DEF TypeOK, DeliverSecret
  <2>2. /\ LicensedSecret(s, Head(e))
        /\ \A i \in 1..Len(Tail(e)) : LicensedSecret(s, Tail(e)[i])
    BY <2>1, TailElements DEF AskedInv, SecretsLicensed
  <2>3. /\ secretCache' = [secretCache EXCEPT ![r][s] = Head(e)]
        /\ secretWatch' = [secretWatch EXCEPT ![r][s] = Tail(e)]
        /\ secrets' = secrets /\ asked' = asked
    BY <1>9 DEF DeliverSecret, cluster, history
  <2> HIDE DEF e
  <2>4. \A q \in Replicas, t \in SecretKeys :
           /\ LicensedSecret(t, secretCache'[q][t])
           /\ \A i \in 1..Len(secretWatch'[q][t]) : LicensedSecret(t, secretWatch'[q][t][i])
    BY <1>0, <2>2, <2>3 DEF AskedInv, SecretsLicensed, TypeOK
  <2>5. SecretsLicensed'
    <3>1. OnlyWhatWasAsked'
      BY <2>3 DEF AskedInv, SecretsLicensed, OnlyWhatWasAsked, LicensedSecret, Licensed
    <3>2. ASSUME NEW q \in Replicas, NEW t \in SecretKeys
          PROVE  /\ LicensedSecret(t, secretCache[q][t])'
                 /\ \A i \in 1..Len(secretWatch'[q][t]) :
                      LicensedSecret(t, secretWatch[q][t][i])'
      BY <2>3, <2>4 DEF LicensedSecret, Licensed
    <3> QED
      BY <3>1, <3>2 DEF SecretsLicensed
  <2> QED
    BY <1>9, <2>3, <2>5, WorkersStable, PodsStable DEF DeliverSecret, cluster
<1>10. ASSUME NEW r \in Replicas, Restart(r) PROVE Goal
  <2>1. UNCHANGED <<pods, secrets, asked>> /\ worker' = [worker EXCEPT ![r] = Idle]
    BY <1>10 DEF Restart, Relist, cluster, history
  <2>2. \A q \in Replicas, t \in Pods :
           /\ Recorded(t, podCache'[q][t])
           /\ \A i \in 1..Len(podWatch'[q][t]) : Recorded(t, podWatch'[q][t][i])
    BY <1>0, <1>10 DEF Restart, Relist, AskedInv, PodsRecorded, TypeOK
  <2>3. \A q \in Replicas, t \in SecretKeys :
           /\ LicensedSecret(t, secretCache'[q][t])
           /\ \A i \in 1..Len(secretWatch'[q][t]) : LicensedSecret(t, secretWatch'[q][t][i])
    BY <1>0, <1>10 DEF Restart, Relist, AskedInv, SecretsLicensed, OnlyWhatWasAsked, TypeOK
  <2>4. PodsRecorded'
    BY <2>1, <2>2 DEF AskedInv, PodsRecorded, Recorded
  <2>5. SecretsLicensed'
    BY <2>1, <2>3
       DEF AskedInv, SecretsLicensed, OnlyWhatWasAsked, LicensedSecret, Licensed
  <2> QED
    BY <1>i, <2>1, <2>4, <2>5
<1>w. ASSUME UNCHANGED <<cluster, informers, asked>>, WorkersRecorded' PROVE Goal
  BY <1>w, PodsStable, SecretsStable DEF cluster, informers
<1>11. ASSUME NEW r \in Replicas, NEW p \in Pods, StartReconcile(r, p) PROVE Goal
  <2>1. UNCHANGED <<cluster, informers, asked>>
    BY <1>11 DEF StartReconcile, Take, history
  <2>2. CASE worker' = [worker EXCEPT ![r] = Idle]
    BY <1>i, <1>w, <2>1, <2>2
  <2>3. CASE /\ podCache[r][p] # NoPod /\ podCache[r][p].provider \in Registered
             /\ worker' = [worker EXCEPT ![r] =
                  [Idle EXCEPT !.pc = "fetch", !.pod = p, !.ann = podCache[r][p]]]
    <3> DEFINE w == [Idle EXCEPT !.pc = "fetch", !.pod = p, !.ann = podCache[r][p]]
    <3>1. /\ w.pc = "fetch" /\ w.pod = p /\ w.ann = podCache[r][p]
          /\ worker' = [worker EXCEPT ![r] = w]
      BY <2>3 DEF Idle
    <3> HIDE DEF w
    <3>2. WorkerRecorded(w)
      BY <2>3, <3>1 DEF WorkerRecorded, AskedInv, PodsRecorded, Recorded
    <3>3. WorkersRecorded'
      BY <1>0, <2>1, <3>1, <3>2, WorkersStable DEF TypeOK
    <3> QED
      BY <1>w, <2>1, <3>3
  <2> QED
    BY <1>11, <2>2, <2>3 DEF StartReconcile, Take, Done
<1>12. ASSUME NEW r \in Replicas, FetchSecret(r) PROVE Goal
  <2> DEFINE path == worker[r].ann.path
             f == Snapshot(path, Len(vault[path]))
  <2>1. path \in Paths
    BY <1>0, <1>12, AnnotationAssumption
       DEF TypeOK, FetchSecret, ParseOk, AnnotationType
  <2>2. Len(vault[path]) \in Nat \ {0}
    BY <1>0, <1>12, <2>1 DEF TypeOK, FetchSecret
  <2>3. \A k \in Keys : f[k] # Absent => f[k].path = path /\ f[k].key = k
    BY <1>0, <2>1, <2>2, SnapshotType
  <2>4. /\ worker' = [worker EXCEPT ![r].pc = "get", ![r].fetched = f]
        /\ worker[r].pc = "fetch" /\ UNCHANGED <<cluster, informers, asked>>
    BY <1>12 DEF FetchSecret, history
  <2> HIDE DEF f
  <2>5. /\ worker'[r].pc = "get" /\ worker'[r].pod = worker[r].pod
        /\ worker'[r].ann = worker[r].ann /\ worker'[r].fetched = f
    BY <1>0, <1>r, <2>4 DEF Worker, TypeOK
  <2>6. WorkerRecorded(worker'[r])
    BY <1>r, <2>3, <2>4, <2>5 DEF WorkerRecorded
  <2>7. \A q \in Replicas : q # r => worker'[q] = worker[q]
    BY <1>0, <2>4 DEF TypeOK
  <2>8. WorkersRecorded'
    BY <2>4, <2>6, <2>7, WorkersStable
  <2> QED
    BY <1>w, <2>4, <2>8
<1>13. ASSUME NEW r \in Replicas, FetchSecretFails(r) PROVE Goal
  BY <1>i, <1>w, <1>13 DEF FetchSecretFails, Requeue, history
<1>14. ASSUME NEW r \in Replicas, ReadSecret(r) PROVE Goal
  <2> DEFINE w == worker[r]
             s == Target(w.pod, w.ann)
             base == secretCache[r][s]
             obj == DesiredSecret(w.ann, w.fetched, base)
             new == [w EXCEPT !.pc = "write", !.base = base, !.fetched = Nothing,
                              !.fresh = (secretWatch[r][s] = <<>>), !.obj = obj]
  <2>1. /\ w \in Worker /\ w.pod \in Pods /\ w.ann \in Annotations /\ ParseOk(w.ann)
        /\ w.pc = "get" /\ w.fetched \in [Keys -> Values \cup {Absent}]
    BY <1>0, <1>r, <1>14 DEF TypeOK, ReadSecret, Worker
  <2>2. s \in SecretKeys
    BY <2>1, TargetType
  <2>3. base \in Secret \cup {NoSecret} /\ LicensedSecret(s, base)
    BY <1>0, <2>2 DEF TypeOK, AskedInv, SecretsLicensed
  <2>4. /\ <<w.pod, w.ann>> \in asked /\ w.ann.provider \in Registered
        /\ \A k \in Keys : w.fetched[k] # Absent =>
              w.fetched[k].path = w.ann.path /\ w.fetched[k].key = k
    BY <1>r, <2>1 DEF WorkerRecorded
  <2>5. LicensedSecret(s, obj)
    BY <1>0, <2>1, <2>3, <2>4, DesiredLicensed
  <2>6. /\ worker' = [worker EXCEPT ![r] = new]
        /\ UNCHANGED <<cluster, informers, asked>>
    BY <1>14 DEF ReadSecret, history
  <2>7. new.pc = "write" /\ new.pod = w.pod /\ new.ann = w.ann /\ new.obj = obj
    BY <2>1 DEF Worker
  <2> HIDE DEF new, obj, base
  <2>8. WorkerRecorded(new)
    BY <2>4, <2>5, <2>7 DEF WorkerRecorded
  <2>9. WorkersRecorded'
    BY <1>0, <2>6, <2>8, WorkersStable DEF TypeOK
  <2> QED
    BY <1>w, <2>6, <2>9
<1>15. ASSUME NEW r \in Replicas, ReadSecretFails(r) PROVE Goal
  BY <1>i, <1>w, <1>15 DEF ReadSecretFails, Requeue, history
<1>16. ASSUME NEW r \in Replicas, worker[r].pc = "write", Apply(r),
              UNCHANGED <<pods, podCache, podWatch, secretCache, asked>>
       PROVE  Goal
  <2> DEFINE s == Target(worker[r].pod, worker[r].ann)
  <2>1. PodsRecorded'
    BY <1>16, PodsStable
  <2>2. /\ s \in SecretKeys /\ worker[r].obj \in Secret
        /\ LicensedSecret(s, worker[r].obj)
    BY <1>0, <1>r, <1>16, TargetType DEF TypeOK, ObjOK, WorkerRecorded
  <2>3. CASE worker' = [worker EXCEPT ![r] = Idle] /\ UNCHANGED <<secrets, secretWatch>>
    BY <1>i, <1>16, <2>1, <2>3, SecretsStable
  <2>4. CASE /\ Commit(s, worker[r].obj)
             /\ worker' = [q \in Replicas |-> IF q = r THEN Idle ELSE StaleOn(worker[q], s)]
    <3>1. SecretsLicensed'
      BY <1>16, <2>2, <2>4, CommitLicensed
    <3>2. \A q \in Replicas : WorkerRecorded(worker'[q])
      BY <1>r, <2>4, StaleRecorded, IdleRecorded
    <3> QED
      BY <1>16, <2>1, <3>1, <3>2, WorkersStable
  <2> QED
    BY <1>16, <2>3, <2>4 DEF Apply
<1>17. ASSUME NEW r \in Replicas, WriteSecret(r) PROVE Goal
  BY <1>16, <1>17 DEF WriteSecret, history
<1>18. ASSUME NEW r \in Replicas, WriteSecretRejected(r) PROVE Goal
  BY <1>i, <1>w, <1>18 DEF WriteSecretRejected, Requeue, history
<1>19. ASSUME NEW r \in Replicas, WriteSecretFails(r) PROVE Goal
  <2>1. CASE worker' = [worker EXCEPT ![r] = Idle] /\ UNCHANGED <<secrets, secretWatch>>
    BY <1>i, <1>19, <2>1, PodsStable, SecretsStable DEF WriteSecretFails, history
  <2>2. CASE Apply(r)
    BY <1>16, <1>19, <2>2 DEF WriteSecretFails, history
  <2> QED
    BY <1>19, <2>1, <2>2 DEF WriteSecretFails
<1>20. CASE UNCHANGED vars
  BY <1>20, PodsStable, WorkersStable, SecretsStable
     DEF vars, cluster, informers, process, history
<1>21. ASSUME NEW r \in Replicas, NEW p \in Pods, StartReconcileFails(r, p) PROVE Goal
  BY <1>21, PodsStable, WorkersStable, SecretsStable
     DEF StartReconcileFails, cluster, informers, history
<1> QED
  BY <1>1, <1>2, <1>3, <1>4, <1>5, <1>6, <1>7, <1>8, <1>9, <1>10, <1>11, <1>12,
     <1>13, <1>14, <1>15, <1>17, <1>18, <1>19, <1>20, <1>21
     DEF Next, Environment, Runtime, Reconcile

(* Namespace isolation and key mapping, for every set of pods and            *)
(* annotations and every number of replicas.                                *)
THEOREM OnlyWhatWasAskedIsWritten == Spec => []OnlyWhatWasAsked
<1>1. AskedInv => OnlyWhatWasAsked
  BY DEF AskedInv, SecretsLicensed
<1> QED
  BY <1>1, InitAsked, NextAsked, PTL DEF Spec

=============================================================================
