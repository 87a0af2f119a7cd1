-------------------------- MODULE JasmSystemProofs --------------------------
(* The guarantees of the reconciler hold in the whole process: with a       *)
(* registry that start-up builds step by step, Bitwarden answering from a   *)
(* copy, outages, and crashes at any moment.                                *)
EXTENDS JasmSystem, PodSecretOrderProofs, WellFoundedInduction

-----------------------------------------------------------------------------
\* What the registry holds at each stage of start-up; nothing serves before it
\* is complete.
Booted ==
    \A r \in Replicas :
        /\ phase[r] = "1password" => registry[r] = {"aws-secretsmanager"}
        /\ phase[r] = "bitwarden" =>
             registry[r] = {"aws-secretsmanager"} \cup (Configured \cap {"1password"})
        /\ phase[r] \in {"setup", "serving"} => registry[r] = Registered

\* A copy is of versions that exist, and one that is being loaded is no older
\* than the one that it will replace.
CopyIsPast ==
    \A r \in Replicas :
        /\ download[r] # NoCopy => download[r].left = CacheTTL
        /\ \A path \in Paths :
             /\ copy[r].ver[path] <= Len(vault[path])
             /\ download[r].ver[path] <= Len(vault[path])
             /\ download[r] # NoCopy => copy[r].ver[path] <= download[r].ver[path]

\* The steps that PodSecretController does not have.
Extra ==
    \/ \E name \in Registered : Outage(name)
    \/ \E r \in Replicas : Serve(r) \/ Crash(r) \/ FetchCached(r) \/ FetchFails(r)

\* Only a provider without a copy is asked directly.
DirectIsUncached ==
    \A r \in Replicas : worker[r].pc = "fetch" /\ worker'[r].pc = "get" =>
        worker[r].ann.provider # "bitwarden"

(* Losing freshness is no answer.                                           *)
LEMMA StaleIsNoAnswer ==
    ASSUME TypeOK, NEW s,
           \A q \in Replicas : worker'[q] = Idle \/ worker'[q] = StaleOn(worker[q], s)
    PROVE  DirectIsUncached
<1>1. \A q \in Replicas : worker'[q].pc = "idle" \/ worker'[q].pc = worker[q].pc
  <2>1. \A q \in Replicas : worker[q] \in Worker
    BY DEF TypeOK
  <2>2. \A q \in Replicas : StaleOn(worker[q], s).pc = worker[q].pc
    BY <2>1, StaleOnType
  <2> QED
    BY <2>2 DEF Idle
<1> QED
  BY <1>1 DEF DirectIsUncached

(* Nor is any step that sets one worker to something else.                  *)
LEMMA OtherIsNoAnswer ==
    ASSUME TypeOK, NEW r \in Replicas, NEW z, worker' = [worker EXCEPT ![r] = z],
           worker[r].pc # "fetch" \/ z.pc # "get"
    PROVE  DirectIsUncached
  BY DEF DirectIsUncached, TypeOK

(* A reset worker has no answer.                                            *)
LEMMA ResetIsNoAnswer ==
    ASSUME TypeOK, NEW r \in Replicas, worker' = [worker EXCEPT ![r] = Idle]
    PROVE  DirectIsUncached
<1>1. \A q \in Replicas : worker'[q] = worker[q] \/ worker'[q].pc = "idle"
  BY DEF TypeOK, Idle
<1> QED
  BY <1>1 DEF DirectIsUncached

(* A write of the object is no answer.                                      *)
LEMMA ApplyIsNoAnswer ==
    ASSUME TypeOK, NEW r \in Replicas, Apply(r)
    PROVE  DirectIsUncached
<1> DEFINE s == Target(worker[r].pod, worker[r].ann)
<1>1. CASE worker' = [worker EXCEPT ![r] = Idle]
  BY <1>1, ResetIsNoAnswer
<1>2. CASE worker' = [q \in Replicas |-> IF q = r THEN Idle ELSE StaleOn(worker[q], s)]
  <2>1. \A q \in Replicas : worker'[q] = Idle \/ worker'[q] = StaleOn(worker[q], s)
    BY <1>2
  <2> HIDE DEF s
  <2> QED
    BY <2>1, StaleIsNoAnswer
<1> QED
  BY <1>1, <1>2 DEF Apply

(* Every step of the process is a step of the reconciler's specification or *)
(* one of the composition's own.                                            *)
LEMMA StepSplits ==
    ASSUME TypeOK, Booted, [SysNext]_sysVars
    PROVE  ([Next]_vars /\ DirectIsUncached) \/ Extra
<1> DEFINE Goal == ([Next]_vars /\ DirectIsUncached) \/ Extra
<1>u. ASSUME worker' = worker PROVE DirectIsUncached
  BY <1>u DEF DirectIsUncached
<1>0. CASE UNCHANGED vars
  BY <1>0, <1>u DEF vars, process
<1>1. ASSUME NEW p \in Pods, NEW a \in Annotations, SysSetPod(p, a) PROVE Goal
  BY <1>1, <1>u DEF SysSetPod, SetPod, process, Next, Environment
<1>2. CASE UserSteps
  <2>1. ASSUME NEW p \in Pods, DeletePod(p) PROVE Goal
    BY <1>u, <2>1 DEF DeletePod, process, Next, Environment
  <2>2. ASSUME NEW path \in Paths, NEW keySet \in SUBSET Keys, Rotate(path, keySet)
        PROVE  Goal
    BY <1>u, <2>2 DEF Rotate, process, Next, Environment
  <2>3. ASSUME NEW s \in SecretKeys, UserDelete(s) PROVE Goal
    <3>1. DirectIsUncached
      BY <2>3, StaleIsNoAnswer DEF UserDelete
    <3> QED
      BY <2>3, <3>1 DEF Next, Environment
  <2>4. ASSUME NEW s \in SecretKeys, NEW k \in Keys, NEW opaque \in BOOLEAN,
               UserWrite(s, k, opaque)
        PROVE  Goal
    <3>1. DirectIsUncached
      BY <2>4, StaleIsNoAnswer DEF UserWrite
    <3> QED
      BY <2>4, <3>1 DEF Next, Environment
  <2> QED
    BY <1>2, <2>1, <2>2, <2>3, <2>4 DEF UserSteps
<1>3. CASE SysTick
  BY <1>3, <1>u DEF SysTick, Tick, process, Next, Environment
<1>4. ASSUME NEW name \in Registered, Outage(name) \/ Repaired(name) PROVE Goal
  BY <1>4, <1>0 DEF Extra, Repaired
<1>5. ASSUME NEW r \in Replicas, StartUp(r) \/ Crash(r) PROVE Goal
  BY <1>5, <1>0 DEF Extra, StartUp, Boot, RegisterOnePassword, RegisterBitwarden, Download
<1>6. ASSUME NEW r \in Replicas, SysRuntime(r) PROVE Goal
  <2>1. ASSUME NEW p \in Pods, DeliverPod(r, p) \/ BackoffElapsed(r, p) PROVE Goal
    BY <1>u, <2>1 DEF DeliverPod, BackoffElapsed, Next, Runtime
  <2>2. ASSUME NEW s \in SecretKeys, DeliverSecret(r, s) PROVE Goal
    BY <1>u, <2>2 DEF DeliverSecret, Next, Runtime
  <2> QED
    BY <1>6, <2>1, <2>2 DEF SysRuntime, Serving
<1>7. ASSUME NEW r \in Replicas, NEW p \in Pods, Begins(r, p) PROVE Goal
  <2>1. StartReconcile(r, p)
    BY <1>7 DEF Begins, Serving, Booted, StartReconcile
  <2>2. DirectIsUncached
    <3> DEFINE z == [Idle EXCEPT !.pc = "fetch", !.pod = p, !.ann = podCache[r][p]]
    <3>1. z.pc = "fetch"
      BY DEF Idle
    <3>2. worker' = [worker EXCEPT ![r] = Idle] \/ worker' = [worker EXCEPT ![r] = z]
      BY <2>1 DEF StartReconcile, Take, Done
    <3> HIDE DEF z
    <3> QED
      BY <3>1, <3>2, ResetIsNoAnswer, OtherIsNoAnswer
  <2> QED
    BY <2>1, <2>2 DEF Next, Reconcile
<1>8. ASSUME NEW r \in Replicas, Fetches(r) PROVE Goal
  <2>1. CASE FetchDirect(r)
    <3>1. FetchSecret(r) /\ worker[r].ann.provider # "bitwarden"
      BY <2>1 DEF FetchDirect, Serving
    <3>2. \A q \in Replicas : q # r => worker'[q] = worker[q]
      BY <3>1 DEF FetchSecret, TypeOK
    <3> QED
      BY <3>1, <3>2 DEF DirectIsUncached, Next, Reconcile
  <2>2. CASE Download(r)
    BY <1>0, <2>2 DEF Download
  <2> QED
    BY <1>8, <2>1, <2>2 DEF Fetches, Extra
<1>9. ASSUME NEW r \in Replicas, ReadSecret(r) PROVE Goal
  <2>1. worker[r].pc = "get" /\ \E z : worker' = [worker EXCEPT ![r] = z]
    BY <1>9 DEF ReadSecret
  <2> QED
    BY <1>9, <2>1, OtherIsNoAnswer DEF Next, Reconcile
<1>10. ASSUME NEW r \in Replicas, ReadSecretFails(r) \/ WriteSecretRejected(r) PROVE Goal
  <2>1. DirectIsUncached
    BY <1>10, ResetIsNoAnswer DEF ReadSecretFails, WriteSecretRejected, Requeue
  <2> QED
    BY <1>10, <2>1 DEF Next, Reconcile
<1>11. ASSUME NEW r \in Replicas, WriteSecret(r) \/ WriteSecretFails(r) PROVE Goal
  <2>1. DirectIsUncached
    BY <1>11, ResetIsNoAnswer, ApplyIsNoAnswer DEF WriteSecret, WriteSecretFails
  <2> QED
    BY <1>11, <2>1 DEF Next, Reconcile
<1>12. ASSUME NEW r \in Replicas, NEW p \in Pods, StartReconcileFails(r, p) PROVE Goal
  BY <1>u, <1>12 DEF StartReconcileFails, Next, Reconcile
<1>13. CASE UNCHANGED sysVars
  BY <1>0, <1>13 DEF sysVars
<1> QED
  BY <1>1, <1>2, <1>3, <1>4, <1>5, <1>6, <1>7, <1>8, <1>9, <1>10, <1>11, <1>12, <1>13
     DEF SysNext, SysEnvironment, SysReconcile, Serving

-----------------------------------------------------------------------------
(* The types of the composition and what start-up builds.                   *)

(* Every nonempty set of naturals has a least member.                       *)
LEMMA LeastOf ==
    ASSUME NEW S \in SUBSET Nat, S # {}
    PROVE  \E x \in S : \A y \in S : x <= y
<1>1. \A x, y \in Nat : y < x => <<y, x>> \in OpToRel(<, Nat)
  BY Zenon DEF OpToRel
<1>2. PICK x \in S : \A y \in S : ~(<<y, x>> \in OpToRel(<, Nat))
  BY WFMin, NatLessThanWellFounded, Zenon
<1>3. \A y \in S : ~(y < x)
  BY <1>1, <1>2, Zenon
<1> QED
  BY <1>3

(* The version a pod can count on is one.                                   *)
LEMMA FloorType ==
    ASSUME TypeOK, SysTypeOK, NEW a, a.path \in Paths
    PROVE  Floor(a) \in Nat
<1> DEFINE ages == {Age(a, copy[r]) : r \in Replicas} \cup {Age(a, download[r]) : r \in Replicas}
<1>1. ages \in SUBSET Nat
  BY DEF Age, SysTypeOK, TypeOK
<1>2. ages # {}
  BY ConfigurationAssumption
<1> HIDE DEF ages
<1>3. \E v \in ages : \A w \in ages : v <= w
  BY <1>1, <1>2, LeastOf
<1>4. (CHOOSE v \in ages : \A w \in ages : v <= w) \in Nat
  BY <1>1, <1>3
<1> QED
  BY <1>4 DEF Floor, ages

(* The copies that a process begins and a download with.                    *)
LEMMA CopyType ==
    ASSUME TypeOK
    PROVE  /\ NoCopy \in [ver : [Paths -> Nat], left : 0..CacheTTL]
           /\ NoCopy \in [ver : [Paths -> Nat], left : {0, CacheTTL}]
           /\ LatestCopy \in [ver : [Paths -> Nat], left : {0, CacheTTL}]
  BY ConfigurationAssumption DEF NoCopy, LatestCopy, TypeOK

\* The copies of the vault.
CopiesOK ==
    /\ copy \in [Replicas -> [ver : [Paths -> Nat], left : 0..CacheTTL]]
    /\ download \in [Replicas -> [ver : [Paths -> Nat], left : {0, CacheTTL}]]

\* The fields of memory, and what start-up has made of them.
MemoryOK ==
    /\ phase \in [Replicas -> {"down", "1password", "bitwarden", "setup", "serving"}]
    /\ registry \in [Replicas -> SUBSET Registered]
    /\ CopiesOK
    /\ Booted

(* Installing a download gives a well-formed copy.                          *)
LEMMA InstallOK ==
    ASSUME TypeOK, SysTypeOK, NEW r \in Replicas, Install(r)
    PROVE  CopiesOK'
<1>1. download[r] \in [ver : [Paths -> Nat], left : 0..CacheTTL]
  <2>1. {0, CacheTTL} \subseteq 0..CacheTTL
    BY ConfigurationAssumption
  <2> QED
    BY <2>1 DEF SysTypeOK
<1> QED
  BY <1>1, CopyType DEF Install, CopiesOK, SysTypeOK

(* Ending a process keeps its memory well formed.                           *)
LEMMA ExitOK ==
    ASSUME TypeOK, SysTypeOK, Booted, NEW r \in Replicas, Exit(r)
    PROVE  MemoryOK'
  BY CopyType DEF Exit, MemoryOK, CopiesOK, Booted, SysTypeOK

(* Registering a provider brings the registry to the next stage.            *)
LEMMA RegisterOK ==
    ASSUME TypeOK, SysTypeOK, Booted, NEW r \in Replicas,
           RegisterOnePassword(r) \/ RegisterBitwarden(r)
    PROVE  MemoryOK'
<1>1. ASSUME NEW name \in {"1password", "bitwarden"}, NEW next,
             phase[r] = name, Register(r, name, next),
             next = IF name = "1password" THEN "bitwarden" ELSE "setup"
      PROVE  MemoryOK'
  \* the registry with or without the name is what the next stage starts from
  <2>0. ASSUME phase' = [phase EXCEPT ![r] = next],
               \A q \in Replicas : q # r => registry'[q] = registry[q],
               registry'[r] = registry[r] \cup (Configured \cap {name})
        PROVE  Booted'
    <3>1. ASSUME NEW q \in Replicas, q # r
          PROVE  phase'[q] = phase[q] /\ registry'[q] = registry[q]
      BY <2>0, <3>1 DEF SysTypeOK
    <3>2. phase'[r] = next
      BY <2>0 DEF SysTypeOK
    <3>3. CASE name = "1password"
      <4>1. registry[r] = {"aws-secretsmanager"} /\ next = "bitwarden"
        BY <1>1, <3>3 DEF Booted
      <4> QED
        BY <2>0, <3>1, <3>2, <3>3, <4>1 DEF Booted
    <3>4. CASE name = "bitwarden"
      <4>1. /\ registry[r] = {"aws-secretsmanager"} \cup (Configured \cap {"1password"})
            /\ next = "setup"
        BY <1>1, <3>4 DEF Booted
      <4>2. registry'[r] = Registered
        BY <2>0, <3>4, <4>1, ConfigurationAssumption
      <4> QED
        BY <3>1, <3>2, <4>1, <4>2 DEF Booted
    <3> QED
      BY <3>3, <3>4
  <2>1. CASE Exit(r)
    BY <2>1, ExitOK
  <2>2. CASE /\ name \notin Configured /\ phase' = [phase EXCEPT ![r] = next]
             /\ UNCHANGED <<registry, copy, download>>
    <3>1. Booted'
      BY <2>0, <2>2
    <3> QED
      BY <1>1, <2>2, <3>1 DEF MemoryOK, CopiesOK, SysTypeOK
  <2>3. CASE /\ name \in Configured /\ phase' = [phase EXCEPT ![r] = next]
             /\ registry' = [registry EXCEPT ![r] = @ \cup {name}]
             /\ Created(r, name)
    <3>1. CopiesOK'
      BY <2>3, InstallOK DEF Created, CopiesOK, SysTypeOK
    <3>2. registry' \in [Replicas -> SUBSET Registered]
      BY <2>3, ConfigurationAssumption DEF SysTypeOK
    <3>3. phase' \in [Replicas -> {"down", "1password", "bitwarden", "setup", "serving"}]
      BY <1>1, <2>3 DEF SysTypeOK
    <3>4. Booted'
      BY <2>0, <2>3 DEF SysTypeOK
    <3> QED
      BY <3>1, <3>2, <3>3, <3>4 DEF MemoryOK
  <2> QED
    BY <1>1, <2>1, <2>2, <2>3 DEF Register
<1> QED
  BY <1>1 DEF RegisterOnePassword, RegisterBitwarden

(* Every step keeps the types of the composition, and the registry complete *)
(* where a process serves.                                                  *)
LEMMA NextSysType ==
    ASSUME TypeOK, SysTypeOK, Booted, [SysNext]_sysVars
    PROVE  SysTypeOK' /\ Booted'
<1> DEFINE Goal == SysTypeOK' /\ Booted'
<1>m. ASSUME MemoryOK', outage' \subseteq Registered, promised' = promised PROVE Goal
  BY <1>m DEF MemoryOK, CopiesOK, SysTypeOK
<1>c. ASSUME CopiesOK', UNCHANGED <<phase, registry, outage, promised>> PROVE Goal
  BY <1>c DEF CopiesOK, SysTypeOK, Booted
<1>u. ASSUME UNCHANGED <<deployment, promised>> PROVE Goal
  BY <1>u DEF deployment, memory, SysTypeOK, Booted
<1>1. ASSUME NEW p \in Pods, NEW a \in Annotations, SysSetPod(p, a) PROVE Goal
  <2>1. a.path = Absent \/ a.path \in Paths
    BY AnnotationAssumption DEF AnnotationType
  <2>2. (IF a.path = Absent THEN 0 ELSE Floor(a)) \in Nat
    BY <2>1, FloorType
  <2>3. promised' \in [Pods -> Nat]
    BY <1>1, <2>2 DEF SysSetPod, SysTypeOK
  <2> QED
    BY <1>1, <2>3 DEF SysSetPod, deployment, memory, SysTypeOK, Booted
<1>2. CASE SysTick
  <2>1. copy' \in [Replicas -> [ver : [Paths -> Nat], left : 0..CacheTTL]]
    <3> DEFINE Aged(c) == [c EXCEPT !.left = IF @ = 0 THEN 0 ELSE @ - 1]
    <3>1. ASSUME NEW c \in [ver : [Paths -> Nat], left : 0..CacheTTL]
          PROVE  Aged(c) \in [ver : [Paths -> Nat], left : 0..CacheTTL]
      BY ConfigurationAssumption
    <3>2. copy' = [r \in Replicas |-> Aged(copy[r])]
      BY <1>2 DEF SysTick
    <3> HIDE DEF Aged
    <3> QED
      BY <3>1, <3>2 DEF SysTypeOK
  <2> QED
    BY <1>2, <2>1 DEF SysTick, SysTypeOK, Booted
<1>3. ASSUME NEW name \in Registered, Outage(name) \/ Repaired(name) PROVE Goal
  BY <1>3 DEF Outage, Repaired, memory, SysTypeOK, Booted
<1>4. ASSUME NEW r \in Replicas, Boot(r) PROVE Goal
  <2>1. MemoryOK'
    BY <1>4, ConfigurationAssumption DEF Boot, MemoryOK, CopiesOK, SysTypeOK, Booted
  <2> QED
    BY <1>4, <1>m, <2>1 DEF Boot, SysTypeOK
<1>5. ASSUME NEW r \in Replicas, RegisterOnePassword(r) \/ RegisterBitwarden(r) PROVE Goal
  BY <1>5, <1>m, RegisterOK DEF RegisterOnePassword, RegisterBitwarden, SysTypeOK
<1>6. ASSUME NEW r \in Replicas, Serve(r) PROVE Goal
  <2>1. MemoryOK'
    BY <1>6 DEF Serve, MemoryOK, CopiesOK, SysTypeOK, Booted
  <2> QED
    BY <1>6, <1>m, <2>1 DEF Serve, SysTypeOK
<1>7. ASSUME NEW r \in Replicas, Crash(r) PROVE Goal
  BY <1>7, <1>m, ExitOK DEF Crash, SysTypeOK
<1>8. ASSUME NEW r \in Replicas, FetchCached(r) PROVE Goal
  <2>1. UNCHANGED <<copy, download>> \/ Install(r)
    BY <1>8 DEF FetchCached
  <2>2. CopiesOK'
    BY <2>1, InstallOK DEF CopiesOK, SysTypeOK
  <2> QED
    BY <1>8, <1>c, <2>2 DEF FetchCached
<1>9. ASSUME NEW r \in Replicas, FetchDirect(r) \/ FetchFails(r) \/ Download(r) PROVE Goal
  <2>1. CASE FetchDirect(r)
    BY <1>u, <2>1 DEF FetchDirect, Serving
  <2>2. CASE FetchFails(r) \/ Download(r)
    <3>1. CopiesOK'
      <4>1. PICK z \in {NoCopy, LatestCopy} :
              copy' = copy /\ download' = [download EXCEPT ![r] = z]
        BY <2>2 DEF FetchFails, Download
      <4>2. z \in [ver : [Paths -> Nat], left : {0, CacheTTL}]
        BY <4>1, CopyType
      <4> QED
        BY <4>1, <4>2 DEF CopiesOK, SysTypeOK
    <3> QED
      BY <1>c, <2>2, <3>1 DEF FetchFails, Download
  <2> QED
    BY <1>9, <2>1, <2>2
<1>10. ASSUME NEW r \in Replicas, SysRuntime(r) PROVE Goal
  BY <1>10, <1>u DEF SysRuntime, Serving
<1>11. CASE UNCHANGED sysVars
  BY <1>11, <1>u DEF sysVars
<1>12. CASE UserSteps /\ UNCHANGED <<deployment, promised>>
  BY <1>12, <1>u
<1> QED
  BY <1>1, <1>2, <1>3, <1>4, <1>5, <1>6, <1>7, <1>8, <1>9, <1>10, <1>11, <1>12, <1>u
     DEF SysNext, SysEnvironment, StartUp, SysReconcile, Fetches, Begins, Serving

-----------------------------------------------------------------------------
(* The composition's own steps, as the reconciler sees them.                *)

\* The answer holds version n of the path, whole.
Answered(r, n) ==
    /\ worker[r].pc = "fetch"
    /\ worker' = [worker EXCEPT ![r].pc = "get",
                                ![r].fetched = Snapshot(worker[r].ann.path, n)]

\* They change neither cluster nor history, and at most one worker.
Seen ==
    /\ UNCHANGED <<cluster, history, edits>>
    /\ \/ UNCHANGED informers
       \/ \E r \in Replicas : Relist(r) /\ worker' = worker
    /\ \/ worker' = worker
       \/ \E r \in Replicas : worker' = [worker EXCEPT ![r] = Idle]
       \/ \E r \in Replicas : \E n \in Nat \ {0} :
            n <= Len(vault[worker[r].ann.path]) /\ Answered(r, n)

(* A worker at work has a path.                                             *)
LEMMA PathOfWork ==
    ASSUME TypeOK, NEW r \in Replicas, worker[r].pc # "idle"
    PROVE  worker[r].ann.path \in Paths
  BY AnnotationAssumption DEF TypeOK, ParseOk, AnnotationType

(* A call that uses a copy answers with a version that exists, or fails.    *)
LEMMA CachedAnswer ==
    ASSUME TypeOK, SysTypeOK, CopyIsPast, NEW r \in Replicas, FetchCached(r)
    PROVE  \E c \in [ver : [Paths -> Nat], left : 0..CacheTTL] :
             /\ copy'[r] = c
             /\ c.left > 0
             /\ \A path \in Paths : c.ver[path] <= Len(vault[path])
             /\ \/ /\ c.ver[worker[r].ann.path] \in Nat \ {0}
                   /\ Answered(r, c.ver[worker[r].ann.path])
                   /\ UNCHANGED <<cluster, informers, queue, backoff, reported, history,
                                  edits, faults>>
                \/ FetchError(r) /\ UNCHANGED faults
<1>1. PICK c : /\ \/ c = copy[r] /\ c.left > 0 /\ copy' = copy
                  \/ c = download[r] /\ Install(r)
               /\ Answer(r, c)
  BY DEF FetchCached
<1>2. worker[r].pc = "fetch" /\ worker[r].ann.path \in Paths /\ UNCHANGED faults
  BY PathOfWork DEF FetchCached
<1>4. /\ c \in [ver : [Paths -> Nat], left : 0..CacheTTL]
      /\ c.left > 0
      /\ copy'[r] = c
      /\ \A path \in Paths : c.ver[path] <= Len(vault[path])
  <2>1. CASE c = download[r] /\ Install(r)
    BY <2>1, ConfigurationAssumption DEF Install, SysTypeOK, CopyIsPast
  <2>2. CASE c = copy[r] /\ c.left > 0 /\ copy' = copy
    BY <2>2 DEF SysTypeOK, CopyIsPast
  <2> QED
    BY <1>1, <2>1, <2>2
<1>5. c.ver[worker[r].ann.path] \in Nat
  BY <1>2, <1>4
<1>6. \/ /\ c.ver[worker[r].ann.path] \in Nat \ {0}
         /\ Answered(r, c.ver[worker[r].ann.path])
         /\ UNCHANGED <<cluster, informers, queue, backoff, reported, history, edits,
                        faults>>
      \/ FetchError(r) /\ UNCHANGED faults
  BY <1>1, <1>2, <1>5 DEF Answer, Answered
<1> QED
  BY <1>4, <1>6

(* The shape of every such step.                                            *)
LEMMA ExtraIsSeen ==
    ASSUME TypeOK, SysTypeOK, CopyIsPast, Extra
    PROVE  Seen
<1>1. ASSUME NEW name, Outage(name) PROVE Seen
  BY <1>1 DEF Outage, Seen, process
<1>2. ASSUME NEW r \in Replicas, Serve(r) PROVE Seen
  BY <1>2 DEF Serve, Seen
<1>3. ASSUME NEW r \in Replicas, Crash(r) PROVE Seen
  BY <1>3 DEF Crash, Seen
<1>4. ASSUME NEW r \in Replicas, FetchError(r) PROVE Seen
  BY <1>4 DEF FetchError, Requeue, Seen
<1>5. ASSUME NEW r \in Replicas, FetchCached(r) PROVE Seen
  <2>1. CASE FetchError(r)
    BY <1>4, <2>1
  <2>2. ASSUME NEW n \in Nat \ {0}, n <= Len(vault[worker[r].ann.path]), Answered(r, n),
               UNCHANGED <<cluster, informers, history, edits>>
        PROVE  Seen
    BY <2>2 DEF Seen
  <2>3. worker[r].ann.path \in Paths
    BY <1>5, PathOfWork DEF FetchCached
  <2> QED
    BY <1>5, <2>1, <2>2, <2>3, CachedAnswer
<1> QED
  BY <1>1, <1>2, <1>3, <1>4, <1>5 DEF Extra, FetchFails

(* What an answer makes of the worker.                                      *)
LEMMA AnsweredWorker ==
    ASSUME TypeOK, NEW r \in Replicas, NEW n \in Nat \ {0}, Answered(r, n)
    PROVE  /\ worker'[r] \in Worker /\ worker'[r].pc = "get"
           /\ worker'[r].pod = worker[r].pod /\ worker'[r].ann = worker[r].ann
           /\ worker'[r].fetched = Snapshot(worker[r].ann.path, n)
           /\ \A q \in Replicas : q # r => worker'[q] = worker[q]
           /\ worker' = [worker EXCEPT ![r] = worker'[r]]
<1>1. PICK f : f = Snapshot(worker[r].ann.path, n)
  OBVIOUS
<1>2. f \in [Keys -> Values \cup {Absent}]
  BY <1>1, PathOfWork, SnapshotType DEF Answered
<1>3. /\ worker \in [Replicas -> Worker] /\ worker[r] \in Worker
      /\ worker' = [worker EXCEPT ![r].pc = "get", ![r].fetched = f]
  BY <1>1 DEF TypeOK, Answered
<1>4. worker'[r] = [worker[r] EXCEPT !.pc = "get", !.fetched = f]
  BY <1>3
<1>5. /\ worker'[r] \in Worker /\ worker'[r].pc = "get"
      /\ worker'[r].pod = worker[r].pod /\ worker'[r].ann = worker[r].ann
      /\ worker'[r].fetched = f
  BY <1>2, <1>3, <1>4 DEF Worker
<1> QED
  BY <1>1, <1>3, <1>5

-----------------------------------------------------------------------------
(* They keep the invariants of the reconciler.                              *)

(* A full list of the cluster has the types of what it lists.               *)
LEMMA RelistType ==
    ASSUME TypeOK, NEW r \in Replicas, Relist(r)
    PROVE  /\ podWatch' \in [Replicas -> [Pods -> Seq(Annotations \cup {NoPod})]]
           /\ secretWatch' \in [Replicas -> [SecretKeys -> Seq(Secret \cup {NoSecret})]]
           /\ podCache' \in [Replicas -> [Pods -> Annotations \cup {NoPod}]]
           /\ secretCache' \in [Replicas -> [SecretKeys -> Secret \cup {NoSecret}]]
           /\ queue' \in [Replicas -> SUBSET Pods]
  BY DEF TypeOK, Relist

(* The types stay right.                                                    *)
LEMMA ExtraType ==
    ASSUME TypeInv, SysTypeOK, CopyIsPast, Extra
    PROVE  TypeInv'
<1>0. TypeOK /\ ObjOK
  BY DEF TypeInv
<1>1. ASSUME NEW name, Outage(name) PROVE TypeInv'
  BY <1>0, <1>1, BoundAssumption
     DEF TypeInv, TypeOK, ObjOK, Outage, Fault, cluster, informers, process, history
<1>2. ASSUME NEW r \in Replicas, Serve(r) PROVE TypeInv'
  BY <1>0, <1>2, RelistType DEF TypeInv, TypeOK, ObjOK, Serve, cluster, history
<1>3. ASSUME NEW r \in Replicas, Crash(r) PROVE TypeInv'
  <2>1. WorkerOK' /\ ObjOK'
    BY <1>0, <1>3, ResetType DEF Crash, ObjOK, Idle, TypeOK
  <2>2. /\ queue' \in [Replicas -> SUBSET Pods] /\ backoff' \in [Replicas -> SUBSET Pods]
        /\ faults' \in 0..MaxFaults
    BY <1>0, <1>3, BoundAssumption DEF TypeOK, Crash, Fault
  <2> QED
    BY <1>0, <1>3, <2>1, <2>2
       DEF TypeInv, TypeOK, WorkerOK, Crash, cluster, informers, history
<1>4. ASSUME NEW r \in Replicas, worker[r].pc = "fetch", FetchError(r),
             faults' = faults \/ Fault
      PROVE  TypeInv'
  <2>1. WorkerOK' /\ backoff' \in [Replicas -> SUBSET Pods]
    BY <1>0, <1>4, RequeueType DEF FetchError
  <2>2. ObjOK'
    BY <1>0, <1>4 DEF FetchError, Requeue, ObjOK, Idle, TypeOK
  <2>3. reported' \in [Pods -> Reasons] /\ faults' \in 0..MaxFaults
    BY <1>0, <1>4, BoundAssumption DEF FetchError, Emit, Fault, Reasons, TypeOK
  <2> QED
    BY <1>0, <1>4, <2>1, <2>2, <2>3
       DEF TypeInv, TypeOK, WorkerOK, FetchError, cluster, informers, history
<1>5. ASSUME NEW r \in Replicas, FetchCached(r) PROVE TypeInv'
  <2>1. worker[r].pc = "fetch"
    BY <1>5 DEF FetchCached
  <2>2. ASSUME NEW n \in Nat \ {0}, Answered(r, n),
               UNCHANGED <<cluster, informers, queue, backoff, reported, history, edits,
                           faults>>
        PROVE  TypeInv'
    <3>1. WorkerOK' /\ ObjOK'
      BY <1>0, <2>1, <2>2, AnsweredWorker DEF WorkerOK, ObjOK, TypeOK
    <3> QED
      BY <1>0, <2>2, <3>1 DEF TypeInv, TypeOK, WorkerOK, cluster, informers, history
  <2> QED
    BY <1>0, <1>4, <1>5, <2>1, <2>2, CachedAnswer
<1>6. ASSUME NEW r \in Replicas, FetchFails(r) PROVE TypeInv'
  BY <1>4, <1>6 DEF FetchFails
<1> QED
  BY <1>1, <1>2, <1>3, <1>5, <1>6 DEF Extra

(* Caches still catch up, and whoever is fresh holds the present object.    *)
LEMMA ExtraFresh ==
    ASSUME FreshInv, Seen
    PROVE  WatchCatchesUp' /\ FreshIsCurrent' /\ BuiltOnBase'
<1>0. TypeOK /\ secrets' = secrets
  BY DEF FreshInv, TypeInv, Seen, cluster
<1>1. CASE UNCHANGED informers
  <2>u. UNCHANGED <<secrets, secretCache, secretWatch>>
    BY <1>0, <1>1 DEF informers
  <2>1. CASE worker' = worker
    BY <2>u, <2>1, FreshStable
  <2>2. ASSUME NEW r \in Replicas, worker' = [worker EXCEPT ![r] = Idle]
        PROVE  WatchCatchesUp' /\ FreshIsCurrent' /\ BuiltOnBase'
    <3>1. Idle.pc # "write"
      BY DEF Idle
    <3> QED
      BY <2>u, <2>2, <3>1, FreshWorker
  <2>3. ASSUME NEW r \in Replicas, NEW n \in Nat \ {0}, Answered(r, n)
        PROVE  WatchCatchesUp' /\ FreshIsCurrent' /\ BuiltOnBase'
    <3>1. worker' = [worker EXCEPT ![r] = worker'[r]] /\ worker'[r].pc # "write"
      BY <1>0, <2>3, AnsweredWorker
    <3> QED
      BY <2>u, <3>1, FreshWorker
  <2> QED
    BY <2>1, <2>2, <2>3 DEF Seen
<1>2. ASSUME NEW r \in Replicas, Relist(r), worker' = worker
      PROVE  WatchCatchesUp' /\ FreshIsCurrent' /\ BuiltOnBase'
  <2>1. FreshIsCurrent' /\ BuiltOnBase'
    BY <1>0, <1>2 DEF FreshInv, FreshIsCurrent, BuiltOnBase, Target
  <2>2. WatchCatchesUp'
    BY <1>0, <1>2 DEF FreshInv, WatchCatchesUp, Relist, TypeOK
  <2> QED
    BY <2>1, <2>2
<1> QED
  BY <1>1, <1>2 DEF Seen

(* Whatever is held anywhere was asked for.                                 *)
LEMMA ExtraAsked ==
    ASSUME AskedInv, Seen
    PROVE  PodsRecorded' /\ WorkersRecorded' /\ SecretsLicensed'
<1>0. TypeOK /\ UNCHANGED <<pods, secrets, asked>>
  BY DEF AskedInv, TypeInv, Seen, cluster, history
<1>r. \A r \in Replicas : WorkerRecorded(worker[r])
  BY DEF AskedInv, WorkersRecorded
<1>1. WorkersRecorded'
  <2>1. CASE worker' = worker
    BY <1>0, <2>1, WorkersStable
  <2>2. ASSUME NEW r \in Replicas, worker' = [worker EXCEPT ![r] = Idle]
        PROVE  WorkersRecorded'
    <3>1. \A q \in Replicas : worker'[q] = worker[q] \/ worker'[q] = Idle
      BY <1>0, <2>2 DEF TypeOK
    <3> QED
      BY <1>0, <3>1, WorkersStable, IdleRecorded
  <2>3. ASSUME NEW r \in Replicas, NEW n \in Nat \ {0}, Answered(r, n)
        PROVE  WorkersRecorded'
    <3>1. PICK path, f : path = worker[r].ann.path /\ f = Snapshot(path, n)
      OBVIOUS
    <3>2. worker[r].pc = "fetch" /\ path \in Paths
      BY <1>0, <2>3, <3>1, PathOfWork DEF Answered
    <3>3. \A k \in Keys : f[k] # Absent => f[k].path = path /\ f[k].key = k
      BY <1>0, <3>1, <3>2, SnapshotType
    <3>4. /\ worker'[r].pc = "get" /\ worker'[r].pod = worker[r].pod
          /\ worker'[r].ann = worker[r].ann /\ worker'[r].fetched = f
          /\ \A q \in Replicas : q # r => worker'[q] = worker[q]
      BY <1>0, <2>3, <3>1, AnsweredWorker
    <3>5. WorkerRecorded(worker'[r])
      BY <1>r, <3>1, <3>2, <3>3, <3>4 DEF WorkerRecorded
    <3> QED
      BY <1>0, <3>4, <3>5, WorkersStable
  <2> QED
    BY <2>1, <2>2, <2>3 DEF Seen
<1>2. CASE UNCHANGED informers
  BY <1>0, <1>1, <1>2, PodsStable, SecretsStable DEF informers
<1>3. ASSUME NEW r \in Replicas, Relist(r) PROVE PodsRecorded' /\ SecretsLicensed'
  <2>2. \A q \in Replicas, t \in Pods :
           /\ Recorded(t, podCache'[q][t])
           /\ \A i \in 1..Len(podWatch'[q][t]) : Recorded(t, podWatch'[q][t][i])
    BY <1>0, <1>3 DEF Relist, AskedInv, PodsRecorded, TypeOK
  <2>3. \A q \in Replicas, t \in SecretKeys :
           /\ LicensedSecret(t, secretCache'[q][t])
           /\ \A i \in 1..Len(secretWatch'[q][t]) : LicensedSecret(t, secretWatch'[q][t][i])
    BY <1>0, <1>3 DEF Relist, AskedInv, SecretsLicensed, OnlyWhatWasAsked, TypeOK
  <2>4. PodsRecorded'
    BY <1>0, <2>2 DEF AskedInv, PodsRecorded, Recorded
  <2>5. SecretsLicensed'
    BY <1>0, <2>3
       DEF AskedInv, SecretsLicensed, OnlyWhatWasAsked, LicensedSecret, Licensed
  <2> QED
    BY <2>4, <2>5
<1> QED
  BY <1>1, <1>2, <1>3 DEF Seen

(* Every worker still works on one version of its path.                     *)
LEMMA ExtraVersion ==
    ASSUME TypeOK, VersionInv, Seen
    PROVE  VersionInv'
<1> SUFFICES ASSUME NEW q \in Replicas PROVE WorkOfOneVersion(worker[q])'
  BY DEF VersionInv
<1>0. vault' = vault /\ WorkOfOneVersion(worker[q])
  BY DEF Seen, cluster, VersionInv
<1>s. ASSUME worker'[q] = worker[q] PROVE WorkOfOneVersion(worker[q])'
  BY <1>0, <1>s, StepGrows, WorkStays DEF SameWork
<1>1. CASE worker' = worker
  BY <1>1, <1>s
<1>2. ASSUME NEW r \in Replicas, worker' = [worker EXCEPT ![r] = Idle]
      PROVE  WorkOfOneVersion(worker[q])'
  <2>1. worker'[q] = worker[q] \/ worker'[q].pc = "idle"
    BY <1>2 DEF TypeOK, Idle
  <2> QED
    BY <1>s, <2>1, FreshWork
<1>3. ASSUME NEW r \in Replicas, NEW n \in Nat \ {0},
             n <= Len(vault[worker[r].ann.path]), Answered(r, n)
      PROVE  WorkOfOneVersion(worker[q])'
  <2>1. CASE q # r
    BY <1>3, <1>s, <2>1, AnsweredWorker
  <2>2. CASE q = r
    <3>1. PICK path, f : path = worker[r].ann.path /\ f = Snapshot(path, n)
      OBVIOUS
    <3>2. /\ worker'[q].pc = "get" /\ worker'[q].ann.path = path /\ worker'[q].fetched = f
      BY <1>3, <2>2, <3>1, AnsweredWorker
    <3>3. f = [k \in Keys |-> IF k \in vault'[path][n]
                              THEN [path |-> path, key |-> k, ver |-> n] ELSE Absent]
      BY <1>0, <3>1 DEF Snapshot
    <3>4. path \in Paths
      BY <1>3, <3>1, PathOfWork DEF Answered
    <3>5. n \in 1..Len(vault'[path])
      BY <1>0, <1>3, <3>1, <3>4 DEF TypeOK
    <3> QED
      BY <3>2, <3>3, <3>5 DEF WorkOfOneVersion, Snapshot
  <2> QED
    BY <2>1, <2>2
<1> QED
  BY <1>1, <1>2, <1>3 DEF Seen

-----------------------------------------------------------------------------
(* Copies of the vault.                                                     *)

\* A copy ages, another one is loaded, replaces it or fails to, and both are lost
\* with their process.
CopyMoves(r) ==
    \/ /\ copy'[r].ver = copy[r].ver
       /\ copy'[r].left > 0 => copy[r].left > 0
       /\ download'[r] = download[r] \/ download'[r] = NoCopy
    \/ copy'[r] = copy[r] /\ download'[r] = LatestCopy /\ download[r] = NoCopy
    \/ copy'[r] = download[r] /\ download'[r] = NoCopy /\ download[r] # NoCopy
    \/ copy'[r] = NoCopy /\ download'[r] = NoCopy

(* Nothing else happens to one, and not while the vault changes.            *)
LEMMA CopySteps ==
    ASSUME SysTypeOK, [SysNext]_sysVars
    PROVE  \/ UNCHANGED <<copy, download>>
           \/ vault' = vault /\ \A r \in Replicas : CopyMoves(r)
<1> DEFINE Goal == \/ UNCHANGED <<copy, download>>
                   \/ vault' = vault /\ \A r \in Replicas : CopyMoves(r)
\* one replica moves, the others stay
<1>1. ASSUME NEW r \in Replicas, vault' = vault, CopyMoves(r),
             \A q \in Replicas : q # r => copy'[q] = copy[q] /\ download'[q] = download[q]
      PROVE  Goal
  <2>1. ASSUME NEW q \in Replicas, q # r PROVE CopyMoves(q)
    BY <1>1, <2>1 DEF CopyMoves
  <2> QED
    BY <1>1, <2>1
<1>2. CASE SysTick
  <2>1. vault' = vault /\ download' = download
    BY <1>2 DEF SysTick, Tick
  <2>2. ASSUME NEW r \in Replicas PROVE CopyMoves(r)
    <3>1. PICK c, d : /\ c = copy[r] /\ d = copy'[r]
                      /\ d = [c EXCEPT !.left = IF c.left = 0 THEN 0 ELSE c.left - 1]
      BY <1>2 DEF SysTick
    <3>2. c \in [ver : [Paths -> Nat], left : 0..CacheTTL]
      BY <3>1 DEF SysTypeOK
    <3>3. d.ver = c.ver /\ d.left = IF c.left = 0 THEN 0 ELSE c.left - 1
      BY <3>1, <3>2
    <3>4. d.left > 0 => c.left > 0
      BY <3>2, <3>3, ConfigurationAssumption
    <3> QED
      BY <2>1, <3>1, <3>3, <3>4 DEF CopyMoves
  <2> QED
    BY <2>1, <2>2
<1>3. ASSUME NEW r \in Replicas, Exit(r), vault' = vault PROVE Goal
  <2>1. /\ CopyMoves(r)
        /\ \A q \in Replicas : q # r => copy'[q] = copy[q] /\ download'[q] = download[q]
    BY <1>3 DEF Exit, CopyMoves, SysTypeOK
  <2> QED
    BY <1>1, <1>3, <2>1
<1>i. ASSUME NEW r \in Replicas, Install(r), vault' = vault PROVE Goal
  <2>1. /\ CopyMoves(r)
        /\ \A q \in Replicas : q # r => copy'[q] = copy[q] /\ download'[q] = download[q]
    BY <1>i DEF Install, CopyMoves, SysTypeOK
  <2> QED
    BY <1>1, <1>i, <2>1
<1>4. ASSUME NEW r \in Replicas, RegisterOnePassword(r) \/ RegisterBitwarden(r) PROVE Goal
  <2>1. vault' = vault
    BY <1>4 DEF RegisterOnePassword, RegisterBitwarden, vars, cluster
  <2>2. Exit(r) \/ Install(r) \/ UNCHANGED <<copy, download>>
    BY <1>4 DEF RegisterOnePassword, RegisterBitwarden, Register, Created
  <2> QED
    BY <1>3, <1>i, <2>1, <2>2
<1>5. ASSUME NEW r \in Replicas, Crash(r) PROVE Goal
  BY <1>3, <1>5 DEF Crash, cluster
<1>6. ASSUME NEW r \in Replicas, FetchCached(r) PROVE Goal
  <2>1. vault' = vault
    BY <1>6 DEF FetchCached, Answer, FetchError, cluster
  <2> QED
    BY <1>6, <1>i, <2>1 DEF FetchCached
<1>7. ASSUME UNCHANGED deployment PROVE Goal
  BY <1>7 DEF deployment, memory
<1>8. ASSUME NEW r \in Replicas, Boot(r) \/ Serve(r) PROVE Goal
  BY <1>8 DEF Boot, Serve
<1>9. CASE SysEnvironment
  BY <1>2, <1>7, <1>9 DEF SysEnvironment, SysSetPod, Outage, Repaired, memory
<1>10. ASSUME NEW r \in Replicas, SysRuntime(r) PROVE Goal
  BY <1>7, <1>10 DEF SysRuntime, Serving
<1>11. ASSUME NEW r \in Replicas, Download(r) \/ FetchFails(r) PROVE Goal
  <2>1. vault' = vault /\ copy' = copy
    BY <1>11 DEF Download, FetchFails, FetchError, vars, cluster
  <2>2. /\ \/ download'[r] = NoCopy
           \/ download'[r] = LatestCopy /\ download[r] = NoCopy
        /\ \A q \in Replicas : q # r => download'[q] = download[q]
    BY <1>11 DEF Download, FetchFails, SysTypeOK
  <2>3. CopyMoves(r)
    BY <2>1, <2>2 DEF CopyMoves
  <2> QED
    BY <1>1, <2>1, <2>2, <2>3
<1>12. ASSUME NEW r \in Replicas, SysReconcile(r) PROVE Goal
  BY <1>6, <1>7, <1>11, <1>12 DEF SysReconcile, Begins, Fetches, FetchDirect, Serving
<1>13. CASE UNCHANGED sysVars
  BY <1>7, <1>13 DEF sysVars
<1> QED
  BY <1>4, <1>5, <1>8, <1>9, <1>10, <1>11, <1>12, <1>13 DEF SysNext, StartUp

(* Copies stay ones of versions that exist, in the order they were taken.   *)
LEMMA NextCopy ==
    ASSUME TypeOK, SysTypeOK, CopyIsPast, VaultGrows, [SysNext]_sysVars
    PROVE  CopyIsPast'
<1> SUFFICES ASSUME NEW r \in Replicas
             PROVE  /\ download'[r] # NoCopy => download'[r].left = CacheTTL
                    /\ \A path \in Paths :
                         /\ copy'[r].ver[path] <= Len(vault'[path])
                         /\ download'[r].ver[path] <= Len(vault'[path])
                         /\ download'[r] # NoCopy =>
                              copy'[r].ver[path] <= download'[r].ver[path]
  BY DEF CopyIsPast, NoCopy
<1>0. UNCHANGED <<copy, download>> \/ (vault' = vault /\ CopyMoves(r))
  BY CopySteps
<1>1. LatestCopy.left = CacheTTL
  BY DEF LatestCopy
<1>2. download'[r] # NoCopy => download'[r].left = CacheTTL
  BY <1>0, <1>1 DEF CopyMoves, CopyIsPast
<1>3. ASSUME NEW path \in Paths
      PROVE  /\ copy'[r].ver[path] <= Len(vault'[path])
             /\ download'[r].ver[path] <= Len(vault'[path])
             /\ download'[r] # NoCopy => copy'[r].ver[path] <= download'[r].ver[path]
  <2>1. /\ copy[r].ver[path] \in Nat /\ copy[r].ver[path] <= Len(vault[path])
        /\ download[r].ver[path] \in Nat /\ download[r].ver[path] <= Len(vault[path])
        /\ download[r] # NoCopy => copy[r].ver[path] <= download[r].ver[path]
        /\ Len(vault[path]) \in Nat /\ Len(vault'[path]) \in Nat
        /\ Len(vault[path]) <= Len(vault'[path])
    BY DEF SysTypeOK, CopyIsPast, VaultGrows
  <2>2. LatestCopy.ver[path] = Len(vault[path]) /\ NoCopy.ver[path] = 0
    BY DEF LatestCopy, NoCopy
  <2> QED
    BY <1>0, <2>1, <2>2 DEF CopyMoves
<1> QED
  BY <1>2, <1>3

-----------------------------------------------------------------------------
(* The invariant of the whole process.                                      *)

SysInv ==
    /\ FreshInv /\ AskedInv /\ VersionInv
    /\ SysTypeOK /\ Booted /\ CopyIsPast

(* It holds before anything has started.                                    *)
LEMMA InitSys == SysInit => SysInv
<1> SUFFICES ASSUME SysInit PROVE SysInv
  OBVIOUS
<1>1. Init /\ FreshInv /\ AskedInv /\ VersionInv
  BY InitFresh, InitAsked, InitVersion DEF SysInit
<1>2. TypeOK
  BY <1>1 DEF FreshInv, TypeInv
<1>3. SysTypeOK
  BY <1>2, CopyType DEF SysInit, SysTypeOK
<1>4. Booted
  BY DEF SysInit, Booted
<1>5. CopyIsPast
  <2>1. \A path \in Paths : Len(vault[path]) \in Nat
    BY <1>2 DEF TypeOK
  <2>2. \A r \in Replicas : /\ download[r] = NoCopy
                            /\ \A path \in Paths : /\ copy[r].ver[path] = 0
                                                   /\ download[r].ver[path] = 0
    BY DEF SysInit, NoCopy
  <2> QED
    BY <2>1, <2>2 DEF CopyIsPast
<1> QED
  BY <1>1, <1>3, <1>4, <1>5 DEF SysInv

(* And every step of the process keeps it.                                  *)
LEMMA NextSys == SysInv /\ [SysNext]_sysVars => SysInv'
<1> SUFFICES ASSUME SysInv, [SysNext]_sysVars PROVE SysInv'
  OBVIOUS
<1>0. /\ TypeInv /\ TypeOK /\ FreshInv /\ AskedInv /\ VersionInv
      /\ SysTypeOK /\ Booted /\ CopyIsPast
  BY DEF SysInv, FreshInv, TypeInv
<1>1. SysTypeOK' /\ Booted'
  BY <1>0, NextSysType
<1>2. CASE [Next]_vars
  <2>1. FreshInv' /\ AskedInv' /\ VersionInv'
    BY <1>0, <1>2, NextFresh, NextAsked, NextVersion
  <2>2. CopyIsPast'
    BY <1>0, <1>2, StepOfVault, NextCopy
  <2> QED
    BY <1>1, <2>1, <2>2 DEF SysInv
<1>3. CASE Extra
  <2>1. TypeInv' /\ Seen
    BY <1>0, <1>3, ExtraType, ExtraIsSeen
  <2>2. FreshInv' /\ AskedInv' /\ VersionInv'
    BY <1>0, <2>1, ExtraFresh, ExtraAsked, ExtraVersion DEF FreshInv, AskedInv
  <2>3. CopyIsPast'
    BY <1>0, <2>1, StepGrows, NextCopy DEF Seen, cluster
  <2> QED
    BY <1>1, <2>2, <2>3 DEF SysInv
<1> QED
  BY <1>0, <1>2, <1>3, StepSplits

(* The variables of the composition keep their types, for any number of     *)
(* replicas, paths and faults.                                              *)
THEOREM SystemTypeCorrect == SysSpec => []SysTypeOK
<1>1. SysInv => SysTypeOK
  BY DEF SysInv
<1> QED
  BY <1>1, InitSys, NextSys, PTL DEF SysSpec

(* Namespace isolation and key mapping in the whole process: start-up,      *)
(* outages and answers from an old copy put nothing in a secret that no pod *)
(* of its namespace asked for.                                              *)
THEOREM SystemWritesWhatWasAsked == SysSpec => []OnlyWhatWasAsked
<1>1. SysInv => OnlyWhatWasAsked
  BY DEF SysInv, AskedInv, SecretsLicensed
<1> QED
  BY <1>1, InitSys, NextSys, PTL DEF SysSpec

(* The whole process, copies and crashes included, is atomic to an observer *)
(* of the cluster.                                                          *)
THEOREM SystemIsAtomic == SysSpec => ImplementsAtomicSync
<1>1. SysInit => Atomic!AtomicInit
  BY DEF SysInit, Init, Atomic!AtomicInit, Untimed, SecretKeys
<1>2. ASSUME SysInv, [SysNext]_sysVars PROVE [Atomic!AtomicNext]_(Atomic!atomicVars)
  <2>0. /\ TypeOK /\ FreshInv /\ AskedInv /\ VersionInv
        /\ SysTypeOK /\ Booted /\ CopyIsPast
    BY <1>2 DEF SysInv, FreshInv, TypeInv
  <2>1. CASE [Next]_vars
    BY <2>0, <2>1, StepSimulates
  <2>2. CASE Extra
    <3>1. UNCHANGED <<asked, vault, secrets>>
      BY <2>0, <2>2, ExtraIsSeen DEF Seen, cluster, history
    <3> QED
      BY <3>1 DEF Atomic!atomicVars, Untimed
  <2> QED
    BY <1>2, <2>0, <2>1, <2>2, StepSplits
<1> QED
  BY <1>1, <1>2, InitSys, NextSys, PTL DEF SysSpec, ImplementsAtomicSync, Atomic!AtomicSpec

(* No step of the process loses what it finds in a secret.                  *)
THEOREM SystemLosesNoUpdate == SysSpec => NoLostUpdate
<1>1. ASSUME SysInv, [SysNext]_sysVars, edits' = edits PROVE KeepsWhatItFinds
  <2>0. /\ TypeOK /\ FreshInv /\ SysTypeOK /\ Booted /\ CopyIsPast
    BY <1>1 DEF SysInv, FreshInv, TypeInv
  <2>1. CASE [Next]_vars
    BY <1>1, <2>0, <2>1, StepKeeps
  <2>2. CASE Extra
    <3>1. secrets' = secrets
      BY <2>0, <2>2, ExtraIsSeen DEF Seen, cluster
    <3> QED
      BY <3>1 DEF KeepsWhatItFinds
  <2> QED
    BY <1>1, <2>0, <2>1, <2>2, StepSplits
<1>2. SysInv /\ [SysNext]_sysVars => [edits' = edits => KeepsWhatItFinds]_vars
  BY <1>1
<1> QED
  BY <1>2, InitSys, NextSys, PTL DEF SysSpec, NoLostUpdate

-----------------------------------------------------------------------------
(* "ProviderUnsupported" is never a mistake of start-up.                    *)

(* Only reconciling a pod whose cached annotation names an unknown provider *)
(* reports it.                                                              *)
LEMMA ReportSteps ==
    ASSUME TypeOK, [Next]_vars, NEW p \in Pods, reported'[p] = "ProviderUnsupported",
           reported[p] # "ProviderUnsupported"
    PROVE  /\ asked' = asked
           /\ \E r \in Replicas : /\ podCache[r][p] # NoPod /\ ParseOk(podCache[r][p])
                                  /\ podCache[r][p].provider \notin Registered
<1> DEFINE Goal == /\ asked' = asked
                   /\ \E r \in Replicas : /\ podCache[r][p] # NoPod
                                          /\ ParseOk(podCache[r][p])
                                          /\ podCache[r][p].provider \notin Registered
<1>e. ASSUME NEW q, NEW reason, Emit(q, reason), reason # "ProviderUnsupported" PROVE FALSE
  BY <1>e DEF Emit, TypeOK
<1>1. ASSUME NEW r \in Replicas, NEW q \in Pods, StartReconcile(r, q) PROVE Goal
  <2>1. asked' = asked
    BY <1>1 DEF StartReconcile, Take, history
  <2>2. /\ podCache[r][q] # NoPod /\ ParseOk(podCache[r][q])
        /\ podCache[r][q].provider \notin Registered
        /\ Emit(q, "ProviderUnsupported")
    BY <1>1, <1>e DEF StartReconcile, Take
  <2>3. q = p
    BY <2>2 DEF Emit, TypeOK
  <2> QED
    BY <2>1, <2>2, <2>3
<1>2. ASSUME NEW r \in Replicas, FetchSecretFails(r) \/ WriteSecret(r) PROVE Goal
  BY <1>2, <1>e DEF FetchSecretFails, WriteSecret
<1> QED
  BY <1>1, <1>2
     DEF Next, Environment, Runtime, Reconcile, SetPod, DeletePod, Rotate, UserWrite,
         UserDelete, Tick, DeliverPod, BackoffElapsed, DeliverSecret, Restart, FetchSecret,
         ReadSecret, ReadSecretFails, WriteSecretRejected, WriteSecretFails, vars,
         StartReconcileFails

(* What was asked stays recorded.                                           *)
LEMMA AskedGrows == TypeOK /\ [Next]_vars => asked \subseteq asked'
<1> SUFFICES ASSUME TypeOK, [Next]_vars PROVE asked \subseteq asked'
  OBVIOUS
<1>1. ASSUME NEW p \in Pods, NEW a \in Annotations, SetPod(p, a) PROVE asked \subseteq asked'
  BY <1>1 DEF SetPod
<1>2. CASE asked' = asked
  BY <1>2
<1> QED
  BY <1>1, <1>2
     DEF Next, Environment, Runtime, Reconcile, DeletePod, Rotate, UserWrite,
         UserDelete, Tick, DeliverPod, BackoffElapsed, DeliverSecret, Restart,
         StartReconcile, Take, StartReconcileFails, FetchSecret, FetchSecretFails,
         ReadSecret, ReadSecretFails,
         WriteSecret, WriteSecretRejected, WriteSecretFails, vars, history

(* The composition's own steps report a failed fetch, or nothing.           *)
LEMMA ExtraReports ==
    ASSUME TypeOK, SysTypeOK, CopyIsPast, Extra, NEW p \in Pods,
           reported'[p] = "ProviderUnsupported"
    PROVE  reported[p] = "ProviderUnsupported"
<1>1. ASSUME NEW r \in Replicas, FetchError(r) PROVE reported[p] = "ProviderUnsupported"
  BY <1>1 DEF FetchError, Emit, TypeOK
<1>2. ASSUME NEW r \in Replicas, FetchCached(r) PROVE reported[p] = "ProviderUnsupported"
  BY <1>1, <1>2, CachedAnswer
<1> QED
  BY <1>1, <1>2 DEF Extra, Outage, Serve, Crash, FetchFails

(* Every step keeps the events true.                                        *)
LEMMA NextUnsupported ==
    ASSUME SysInv, UnsupportedIsReal, [SysNext]_sysVars
    PROVE  UnsupportedIsReal'
<1>0. /\ TypeOK /\ AskedInv /\ SysTypeOK /\ Booted /\ CopyIsPast
  BY DEF SysInv, FreshInv, TypeInv
<1> SUFFICES ASSUME NEW p \in Pods, reported'[p] = "ProviderUnsupported"
             PROVE  \E pa \in asked' : /\ pa[1] = p /\ ParseOk(pa[2])
                                       /\ pa[2].provider \notin Registered
  BY DEF UnsupportedIsReal
<1>1. CASE Extra
  <2>1. reported[p] = "ProviderUnsupported" /\ asked' = asked
    BY <1>0, <1>1, ExtraReports, ExtraIsSeen DEF Seen, history
  <2> QED
    BY <2>1 DEF UnsupportedIsReal
<1>2. CASE [Next]_vars
  <2>1. asked \subseteq asked'
    BY <1>0, <1>2, AskedGrows
  <2>2. CASE reported[p] = "ProviderUnsupported"
    BY <2>1, <2>2 DEF UnsupportedIsReal
  <2>3. CASE reported[p] # "ProviderUnsupported"
    <3>1. PICK r \in Replicas : /\ podCache[r][p] # NoPod /\ ParseOk(podCache[r][p])
                                /\ podCache[r][p].provider \notin Registered
      BY <1>0, <1>2, <2>3, ReportSteps
    <3>2. <<p, podCache[r][p]>> \in asked
      BY <1>0, <3>1 DEF AskedInv, PodsRecorded, Recorded
    <3>3. PICK pa : pa = <<p, podCache[r][p]>>
      OBVIOUS
    <3>4. pa \in asked' /\ pa[1] = p /\ pa[2] = podCache[r][p]
      BY <2>1, <3>2, <3>3
    <3> QED
      BY <3>1, <3>4
  <2> QED
    BY <2>2, <2>3
<1> QED
  BY <1>0, <1>1, <1>2, StepSplits

(* A pod is told that its provider is unsupported only because an           *)
(* annotation on it names one that is not configured: no outage or crash    *)
(* during start-up makes the reconciler run on a registry that lacks one.   *)
THEOREM UnsupportedIsNoAccident == SysSpec => []UnsupportedIsReal
<1>1. SysInit => UnsupportedIsReal
  BY DEF SysInit, Init, UnsupportedIsReal
<1>2. SysInv /\ UnsupportedIsReal /\ [SysNext]_sysVars => UnsupportedIsReal'
  BY NextUnsupported
<1> QED
  BY <1>1, <1>2, InitSys, NextSys, PTL DEF SysSpec

-----------------------------------------------------------------------------
(* Versions never go back, although Bitwarden answers from a copy.          *)

\* A path is one provider's: what Bitwarden serves no other provider does.
OwnPaths ==
    \A a, b \in Annotations :
        /\ ParseOk(a) /\ a.provider \in Registered
        /\ ParseOk(b) /\ b.provider \in Registered
        /\ a.path = b.path
        => (a.provider = "bitwarden" <=> b.provider = "bitwarden")

CachedPaths ==
    {path \in Paths : \E a \in Annotations : /\ ParseOk(a) /\ a.path = path
                                             /\ a.provider \in Registered
                                             /\ a.provider = "bitwarden"}

\* The version that an answer of replica r would be of: its copy's while that is
\* valid, else that of the copy being loaded, else the last one.
Newest(r) ==
    [path \in Paths |->
       IF path \in CachedPaths /\ copy[r].left > 0 THEN copy[r].ver[path]
       ELSE IF path \in CachedPaths /\ download[r] # NoCopy THEN download[r].ver[path]
       ELSE Len(vault[path])]

SysOrderInv == \A r \in Replicas : OrderedUpTo(Newest(r))

(* It only rises: a copy is replaced by one that was taken later, and if    *)
(* lost or expired by the one being loaded or by the vault itself.          *)
LEMMA NewestRises ==
    ASSUME SysInv, [SysNext]_sysVars, VaultGrows, NEW r \in Replicas, NEW new,
           new = Newest(r)'
    PROVE  Rises(Newest(r), new)
<1>0. TypeOK /\ SysTypeOK /\ CopyIsPast /\ SysTypeOK'
  BY NextSysType DEF SysInv, FreshInv, TypeInv
<1>1. ASSUME NEW path \in Paths
      PROVE  /\ Newest(r)[path] \in Nat /\ new[path] \in Nat
             /\ Newest(r)[path] <= new[path]
  <2>0. /\ copy[r].ver[path] \in Nat /\ copy'[r].ver[path] \in Nat
        /\ download[r].ver[path] \in Nat /\ download'[r].ver[path] \in Nat
    BY <1>0 DEF SysTypeOK
  <2>1. /\ copy[r].ver[path] <= Len(vault[path])
        /\ download[r].ver[path] <= Len(vault[path])
        /\ download[r] # NoCopy => copy[r].ver[path] <= download[r].ver[path]
        /\ Len(vault[path]) \in Nat /\ Len(vault'[path]) \in Nat
        /\ Len(vault[path]) <= Len(vault'[path])
    BY <1>0 DEF CopyIsPast, VaultGrows
  <2>2. /\ new[path] = IF path \in CachedPaths /\ copy'[r].left > 0 THEN copy'[r].ver[path]
                       ELSE IF path \in CachedPaths /\ download'[r] # NoCopy
                            THEN download'[r].ver[path]
                       ELSE Len(vault'[path])
        /\ Newest(r)[path] =
             IF path \in CachedPaths /\ copy[r].left > 0 THEN copy[r].ver[path]
             ELSE IF path \in CachedPaths /\ download[r] # NoCopy THEN download[r].ver[path]
             ELSE Len(vault[path])
    BY DEF Newest, CachedPaths, NoCopy
  <2>3. /\ LatestCopy.ver[path] = Len(vault[path])
        /\ ~(NoCopy.left > 0)
    BY DEF LatestCopy, NoCopy
  <2>4. UNCHANGED <<copy, download>> \/ CopyMoves(r)
    BY <1>0, CopySteps
  <2> QED
    BY <2>0, <2>1, <2>2, <2>3, <2>4 DEF CopyMoves
<1>2. /\ Newest(r) = [path \in Paths |-> Newest(r)[path]]
      /\ new = [path \in Paths |-> new[path]]
  BY DEF Newest
<1> QED
  BY <1>1, <1>2 DEF Rises

(* Each answer is of the newest version, so every step keeps the order.     *)
LEMMA NextSysOrder ==
    ASSUME OneReplica, OwnPaths, SysInv, SysOrderInv, [SysNext]_sysVars
    PROVE  SysOrderInv' /\ NoRegression
<1>0. /\ TypeOK /\ FreshInv /\ AskedInv /\ SysTypeOK /\ Booted /\ CopyIsPast
  BY DEF SysInv, FreshInv, TypeInv
<1>1. ASSUME NEW r \in Replicas PROVE OrderedUpTo(Newest(r))' /\ NoRegression
  <2>0. PICK top, new : /\ top = Newest(r) /\ OrderedUpTo(top)
                        /\ new = [path \in Paths |->
                             IF path \in CachedPaths /\ copy'[r].left > 0
                             THEN copy'[r].ver[path]
                             ELSE IF path \in CachedPaths /\ download'[r] # NoCopy
                             THEN download'[r].ver[path]
                             ELSE Len(vault'[path])]
    BY DEF SysOrderInv
  <2>1. new = Newest(r)'
    BY <2>0 DEF Newest, CachedPaths, NoCopy
  <2>2. ASSUME VaultGrows PROVE Rises(top, new)
    BY <2>0, <2>1, <2>2, NewestRises
  \* who works for Bitwarden works on a path that only Bitwarden serves
  <2>3. ASSUME NEW q \in Replicas, worker[q].pc = "fetch"
        PROVE  /\ worker[q].ann.path \in Paths
               /\ worker[q].ann.path \in CachedPaths <=> worker[q].ann.provider = "bitwarden"
    <3>1. /\ worker[q].ann \in Annotations /\ ParseOk(worker[q].ann)
          /\ worker[q].ann.provider \in Registered /\ worker[q].ann.path \in Paths
      BY <1>0, <2>3, PathOfWork DEF TypeOK, AskedInv, WorkersRecorded, WorkerRecorded
    <3> QED
      BY <3>1 DEF CachedPaths, OwnPaths
  <2>4. CASE [Next]_vars /\ DirectIsUncached
    <3>1. Rises(top, new)
      BY <1>0, <2>2, <2>4, StepOfVault
    <3>2. ASSUME NEW q \in Replicas, FetchSecret(q)
          PROVE  new[worker[q].ann.path] = Len(vault[worker[q].ann.path])
      <4>1. /\ worker[q].pc = "fetch" /\ worker'[q].pc = "get" /\ vault' = vault
        BY <1>0, <3>2 DEF FetchSecret, TypeOK, Worker, cluster
      <4>2. worker[q].ann.path \in Paths \ CachedPaths
        BY <2>3, <2>4, <4>1 DEF DirectIsUncached
      <4> QED
        BY <2>0, <4>1, <4>2
    <3>3. OrderedUpTo(new)' /\ NoRegression
      BY <1>0, <2>0, <2>4, <3>1, <3>2, NextOrder
    <3> QED
      BY <2>1, <3>3 DEF OrderedUpTo, HoldsNewest
  <2>5. CASE Extra
    <3>0. Seen /\ vault' = vault /\ secrets' = secrets
      BY <1>0, <2>5, ExtraIsSeen DEF Seen, cluster
    <3>1. Rises(top, new)
      BY <1>0, <2>2, <3>0, StepGrows
    <3>2. ASSUME NEW q \in Replicas, FetchCached(q)
          PROVE  OrderedUpTo(new)' /\ NoRegression
      <4>1. q = r
        BY DEF OneReplica
      <4>2. PICK c :
              /\ copy'[q] = c
              /\ c.left > 0
              /\ \/ /\ c.ver[worker[q].ann.path] \in Nat \ {0}
                    /\ Answered(q, c.ver[worker[q].ann.path])
                 \/ FetchError(q)
        BY <1>0, <3>2, CachedAnswer
      <4>3. copy'[r] = c
        BY <4>1, <4>2
      <4>4. CASE FetchError(q)
        <5>1. \A x \in Replicas : worker'[x] = worker[x] \/ worker'[x].pc = "idle"
          BY <1>0, <4>4 DEF FetchError, Requeue, TypeOK, Idle
        <5> QED
          BY <1>0, <2>0, <3>0, <3>1, <5>1, QuietStep
      <4>5. CASE /\ c.ver[worker[q].ann.path] \in Nat \ {0}
                 /\ Answered(q, c.ver[worker[q].ann.path])
        <5>1. PICK path, n, f : /\ path = worker[q].ann.path /\ n = c.ver[path]
                                /\ f = Snapshot(path, n)
          OBVIOUS
        <5>2. worker[q].pc = "fetch" /\ path \in Paths /\ path \in CachedPaths
          BY <2>3, <3>2, <5>1 DEF FetchCached
        <5>3. n = new[path]
          BY <2>0, <4>2, <4>3, <5>1, <5>2
        <5>4. /\ worker'[q].pc = "get" /\ worker'[q].ann.path = path
              /\ worker'[q].fetched = f
          BY <1>0, <4>5, <5>1, AnsweredWorker
        <5> QED
          BY <1>0, <2>0, <3>0, <3>1, <5>1, <5>2, <5>3, <5>4, FetchKeepsOrder
      <4> QED
        BY <4>2, <4>4, <4>5
    <3>3. ASSUME \A q \in Replicas : ~FetchCached(q)
          PROVE  OrderedUpTo(new)' /\ NoRegression
      <4>1. \A x \in Replicas : worker'[x] = worker[x] \/ worker'[x].pc = "idle"
        BY <1>0, <2>5, <3>3
           DEF Extra, Outage, Serve, Crash, FetchFails, FetchError, Requeue, process,
               TypeOK, Idle
      <4> QED
        BY <1>0, <2>0, <3>0, <3>1, <4>1, QuietStep
    <3> QED
      BY <2>1, <3>2, <3>3 DEF OrderedUpTo, HoldsNewest
  <2> QED
    BY <1>0, <2>4, <2>5, StepSplits
<1>2. NoRegression
  BY <1>1, ConfigurationAssumption
<1> QED
  BY <1>1, <1>2 DEF SysOrderInv

(* With one controller process, a key of a secret never goes back to an     *)
(* earlier version of its path, although Bitwarden answers from a copy that *)
(* expires, is lost in a crash and is loaded again.                         *)
THEOREM SystemNeverGoesBack ==
    ASSUME OneReplica, OwnPaths
    PROVE  SysSpec => NeverOlder
<1>1. SysInit => SysOrderInv
  BY InitOrder DEF SysInit, SysOrderInv
<1>2. SysInv /\ SysOrderInv /\ [SysNext]_sysVars => SysOrderInv' /\ [NoRegression]_vars
  BY NextSysOrder
<1> QED
  BY <1>1, <1>2, InitSys, NextSys, PTL DEF SysSpec, NeverOlder
=============================================================================
