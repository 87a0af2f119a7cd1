------------------------------ MODULE JasmSystem ------------------------------
(***************************************************************************)
(* The whole process: main.go and DefaultProviderRegistry build the         *)
(* provider registry step by step, end the process when a configured        *)
(* provider cannot be created, and start the manager last; the reconciler   *)
(* of PodSecretController then runs on that registry, with AWS and 1Password *)
(* answering from their present content and Bitwarden from the process's    *)
(* decrypted copy (BitwardenProvider).  Processes crash and the providers   *)
(* have outages at any moment.                                              *)
(***************************************************************************)
EXTENDS PodSecretController

CONSTANTS
    Configured,   \* optional providers that the environment switches on
    CacheTTL      \* life of Bitwarden's copy, in ticks

ASSUME ConfigurationAssumption ==
    /\ Configured \subseteq {"1password", "bitwarden"}
    /\ Registered = {"aws-secretsmanager"} \cup Configured
    /\ CacheTTL \in Nat \ {0}
    /\ Replicas # {}

VARIABLES
    phase,       \* per replica: how far main has come
    registry,    \* per replica: providers registered so far
    copy,        \* per replica: versions in Bitwarden's copy, ticks until expiry
    download,    \* per replica: the copy that a login is loading, or NoCopy
    outage,      \* providers that do not answer
    promised     \* history: version a pod could count on when it was started

memory     == <<phase, registry, copy, download>>
deployment == <<memory, outage>>
sysVars == <<vars, deployment, promised>>

NoCopy == [ver |-> [path \in Paths |-> 0], left |-> 0]
LatestCopy == [ver |-> [path \in Paths |-> Len(vault[path])], left |-> CacheTTL]

SysInit ==
    /\ Init
    /\ phase = [r \in Replicas |-> "down"]
    /\ registry = [r \in Replicas |-> {}]
    /\ copy = [r \in Replicas |-> NoCopy]
    /\ download = [r \in Replicas |-> NoCopy]
    /\ outage = {}
    /\ promised = [p \in Pods |-> 0]

-----------------------------------------------------------------------------
(* Start-up.                                                                 *)

\* os.Exit(1), or the process is killed: the memory of the process is gone.
Exit(r) ==
    /\ phase' = [phase EXCEPT ![r] = "down"]
    /\ registry' = [registry EXCEPT ![r] = {}]
    /\ copy' = [copy EXCEPT ![r] = NoCopy]
    /\ download' = [download EXCEPT ![r] = NoCopy]

BootChecksAws(r) ==
    /\ phase[r] = "down"
    /\ "aws-secretsmanager" \notin outage
    /\ phase' = [phase EXCEPT ![r] = "1password"]
    /\ registry' = [registry EXCEPT ![r] = {"aws-secretsmanager"}]
    /\ UNCHANGED <<vars, copy, download, outage, promised>>

\* The kubelet starts the container; NewManager and the AWS provider succeed
\* without calling anyone.
Boot(r) ==
    /\ phase[r] = "down"
    /\ phase' = [phase EXCEPT ![r] = "1password"]
    /\ registry' = [registry EXCEPT ![r] = {"aws-secretsmanager"}]
    /\ UNCHANGED <<vars, copy, download, outage, promised>>

\* The server takes the vault's present content for the download of a login: at
\* start-up, or for a call that finds the copy or the token expired.  SyncVault
\* may try several times; this is the attempt that gets through.
Download(r) ==
    /\ download[r] = NoCopy
    /\ "bitwarden" \notin outage
    /\ \/ phase[r] = "bitwarden" /\ "bitwarden" \in Configured
       \/ /\ phase[r] = "serving"
          /\ worker[r].pc = "fetch"
          /\ worker[r].ann.provider = "bitwarden"
    /\ download' = [download EXCEPT ![r] = LatestCopy]
    /\ UNCHANGED <<vars, phase, registry, copy, outage, promised>>

\* It has arrived and is decrypted: it becomes the copy, and its life begins.
Install(r) ==
    /\ download[r] # NoCopy
    /\ copy' = [copy EXCEPT ![r] = download[r]]
    /\ download' = [download EXCEPT ![r] = NoCopy]

\* NewBitwardenProvider returns with a loaded vault, NewOnePasswordProvider
\* after a call that has to succeed.
Created(r, name) ==
    \/ name = "bitwarden" /\ Install(r)
    \/ name # "bitwarden" /\ name \notin outage /\ UNCHANGED <<copy, download>>

RegisterOrSkip(r, name, next) ==
    /\ phase' = [phase EXCEPT ![r] = next]
    /\ \/ /\ name \notin Configured \ outage
          /\ UNCHANGED <<registry, copy, download>>
       \/ /\ name \in Configured
          /\ Created(r, name)
          /\ registry' = [registry EXCEPT ![r] = @ \cup {name}]

\* A provider that is not configured is skipped; one that cannot be created
\* ends the process.  A provider that is created starts its retry queue, which
\* nothing is ever added to.
Register(r, name, next) ==
    \/ /\ name \notin Configured
       /\ phase' = [phase EXCEPT ![r] = next]
       /\ UNCHANGED <<registry, copy, download>>
    \/ /\ name \in Configured
       /\ Created(r, name)
       /\ phase' = [phase EXCEPT ![r] = next]
       /\ registry' = [registry EXCEPT ![r] = @ \cup {name}]
    \/ /\ name \in Configured \cap outage
       /\ Exit(r)

RegisterOnePassword(r) ==
    /\ phase[r] = "1password"
    /\ Register(r, "1password", "bitwarden")
    /\ UNCHANGED <<vars, outage, promised>>

RegisterBitwarden(r) ==
    /\ phase[r] = "bitwarden"
    /\ Register(r, "bitwarden", "setup")
    /\ UNCHANGED <<vars, outage, promised>>

\* SetupWithManager and mgr.Start: the informers fill, reconciling begins.
Serve(r) ==
    /\ phase[r] = "setup"
    /\ phase' = [phase EXCEPT ![r] = "serving"]
    /\ Relist(r)
    /\ UNCHANGED <<cluster, backoff, worker, reported, history, edits, faults,
                   registry, copy, download, outage, promised>>

Crash(r) ==
    /\ phase[r] # "down"
    /\ Fault
    /\ Exit(r)
    /\ queue' = [queue EXCEPT ![r] = {}]
    /\ backoff' = [backoff EXCEPT ![r] = {}]
    /\ worker' = [worker EXCEPT ![r] = Idle]
    /\ UNCHANGED <<cluster, informers, reported, history, edits, outage, promised>>

-----------------------------------------------------------------------------
(* The world outside: outages, users and time.                               *)

Outage(name) ==
    /\ name \in Registered \ outage
    /\ Fault
    /\ outage' = outage \cup {name}
    /\ UNCHANGED <<cluster, informers, process, reported, history, edits, memory,
                   promised>>

Repaired(name) ==
    /\ name \in outage
    /\ outage' = outage \ {name}
    /\ UNCHANGED <<vars, memory, promised>>

\* The versions of the path that a replica may still answer with: its copy's, or
\* those of one that it is loading.
Age(a, c) ==
    IF a.provider = "bitwarden" /\ c.left > 0 THEN c.ver[a.path] ELSE Len(vault[a.path])

\* The oldest of them all.
Floor(a) ==
    LET ages == {Age(a, copy[r]) : r \in Replicas} \cup {Age(a, download[r]) : r \in Replicas}
    IN CHOOSE v \in ages : \A w \in ages : v <= w

SysSetPod(p, a) ==
    /\ SetPod(p, a)
    /\ promised' = [promised EXCEPT ![p] = IF a.path = Absent THEN 0 ELSE Floor(a)]
    /\ UNCHANGED deployment

UserSteps ==
    \/ \E p \in Pods : DeletePod(p)
    \/ \E path \in Paths, keySet \in SUBSET Keys : Rotate(path, keySet)
    \/ \E s \in SecretKeys : UserDelete(s)
    \/ \E s \in SecretKeys, k \in Keys, opaque \in BOOLEAN : UserWrite(s, k, opaque)

SysTickBelowZero ==
    /\ Tick
    /\ copy' = [r \in Replicas |-> [copy[r] EXCEPT !.left = @ - 1]]
    /\ UNCHANGED <<phase, registry, download, outage, promised>>

SysTick ==
    /\ Tick
    /\ copy' = [r \in Replicas |->
                  [copy[r] EXCEPT !.left = IF @ = 0 THEN 0 ELSE @ - 1]]
    /\ UNCHANGED <<phase, registry, download, outage, promised>>

-----------------------------------------------------------------------------
(* The reconciler at work in a serving process.                              *)

Serving(r, step) ==
    /\ phase[r] = "serving"
    /\ step
    /\ UNCHANGED <<deployment, promised>>

\* FetchSecret returns an error.
FetchError(r) ==
    /\ Emit(worker[r].pod, "SecretFetchFailed")
    /\ Requeue(r)
    /\ UNCHANGED <<cluster, informers, queue, history, edits>>

\* AWS and 1Password answer from what they hold.
FetchDirect(r) ==
    /\ worker[r].pc = "fetch"
    /\ worker[r].ann.provider \notin outage \cup {"bitwarden"}
    /\ Serving(r, FetchSecret(r))

Answer(r, c) ==
    LET path == worker[r].ann.path IN
    \/ /\ c.ver[path] > 0
       /\ worker' = [worker EXCEPT ![r].pc = "get",
                                   ![r].fetched = Snapshot(path, c.ver[path])]
       /\ UNCHANGED <<cluster, informers, queue, backoff, reported, history, edits>>
    \/ c.ver[path] = 0 /\ FetchError(r)

FetchCachedWithoutStoring(r) ==
    /\ phase[r] = "serving"
    /\ worker[r].pc = "fetch"
    /\ worker[r].ann.provider = "bitwarden"
    /\ \/ /\ download[r] = NoCopy /\ copy[r].left > 0
          /\ Answer(r, copy[r])
          /\ UNCHANGED download
       \/ /\ download[r] # NoCopy
          /\ Answer(r, download[r])
          /\ download' = [download EXCEPT ![r] = NoCopy]
    /\ UNCHANGED <<faults, phase, registry, copy, outage, promised>>

FetchCachedIgnoresExpiry(r) ==
    /\ phase[r] = "serving"
    /\ worker[r].pc = "fetch"
    /\ worker[r].ann.provider = "bitwarden"
    /\ \/ /\ download[r] = NoCopy
          /\ Answer(r, copy[r])
          /\ UNCHANGED <<copy, download>>
       \/ Install(r) /\ Answer(r, download[r])
    /\ UNCHANGED <<faults, phase, registry, outage, promised>>

\* Bitwarden answers from the copy if that is valid, and otherwise from the one
\* that it has loaded.  Nobody else works in the process between the
\* installation and the look-up, so these are one step.
FetchCached(r) ==
    /\ phase[r] = "serving"
    /\ worker[r].pc = "fetch"
    /\ worker[r].ann.provider = "bitwarden"
    /\ \/ /\ download[r] = NoCopy /\ copy[r].left > 0
          /\ Answer(r, copy[r])
          /\ UNCHANGED <<copy, download>>
       \/ Install(r) /\ Answer(r, download[r])
    /\ UNCHANGED <<faults, phase, registry, outage, promised>>

\* The path does not exist, the provider is down, or the one call fails.
FetchFails(r) ==
    LET a == worker[r].ann IN
    /\ phase[r] = "serving"
    /\ worker[r].pc = "fetch"
    /\ \/ a.provider # "bitwarden" /\ vault[a.path] = <<>> /\ UNCHANGED faults
       \/ a.provider \in outage /\ UNCHANGED faults
       \/ Fault
    /\ FetchError(r)
    /\ download' = [download EXCEPT ![r] = NoCopy]
    /\ UNCHANGED <<phase, registry, copy, outage, promised>>

Fetches(r) ==
    FetchDirect(r) \/ (phase[r] = "serving" /\ Download(r)) \/ FetchCached(r) \/ FetchFails(r)

Begins(r, p) == Serving(r, Take(r, p, registry[r]))

-----------------------------------------------------------------------------
StartUp(r) ==
    \/ Boot(r) \/ RegisterOnePassword(r)
    \/ phase[r] = "bitwarden" /\ Download(r)
    \/ RegisterBitwarden(r) \/ Serve(r)

SysReconcile(r) ==
    \/ \E p \in Pods : Begins(r, p) \/ Serving(r, StartReconcileFails(r, p))
    \/ Fetches(r)
    \/ Serving(r, ReadSecret(r)) \/ Serving(r, ReadSecretFails(r))
    \/ Serving(r, WriteSecret(r)) \/ Serving(r, WriteSecretRejected(r))
    \/ Serving(r, WriteSecretFails(r))

SysRuntime(r) ==
    \/ \E p \in Pods : Serving(r, DeliverPod(r, p)) \/ Serving(r, BackoffElapsed(r, p))
    \/ \E s \in SecretKeys : Serving(r, DeliverSecret(r, s))

SysEnvironment ==
    \/ \E p \in Pods, a \in Annotations : SysSetPod(p, a)
    \/ UserSteps /\ UNCHANGED <<deployment, promised>>
    \/ \E name \in Registered : Outage(name) \/ Repaired(name)
    \/ SysTick

SysNext ==
    \/ SysEnvironment
    \/ \E r \in Replicas : StartUp(r) \/ Crash(r) \/ SysRuntime(r) \/ SysReconcile(r)

(* As in PodSecretController; the kubelet restarts a process that has ended  *)
(* and start-up goes on.  Nobody promises that an outage ends.               *)
SysFairness ==
    /\ WF_sysVars(SysTick)
    /\ \A r \in Replicas :
         /\ WF_sysVars(StartUp(r))
         /\ \A p \in Pods : /\ WF_sysVars(Serving(r, DeliverPod(r, p)))
                            /\ WF_sysVars(Serving(r, BackoffElapsed(r, p)))
                            /\ SF_sysVars(Begins(r, p))
         /\ \A s \in SecretKeys : WF_sysVars(Serving(r, DeliverSecret(r, s)))
         /\ WF_sysVars(Fetches(r))
         /\ WF_sysVars(Serving(r, ReadSecret(r)))
         /\ WF_sysVars(Serving(r, WriteSecret(r)))
         /\ WF_sysVars(Serving(r, WriteSecretRejected(r)))

SysSpec == SysInit /\ [][SysNext]_sysVars /\ SysFairness
-----------------------------------------------------------------------------
(* Every variable that the composition adds has its type.                   *)
SysTypeOK ==
    /\ phase \in [Replicas -> {"down", "1password", "bitwarden", "setup", "serving"}]
    /\ registry \in [Replicas -> SUBSET Registered]
    /\ copy \in [Replicas -> [ver : [Paths -> Nat], left : 0..CacheTTL]]
    /\ download \in [Replicas -> [ver : [Paths -> Nat], left : {0, CacheTTL}]]
    /\ outage \subseteq Registered
    /\ promised \in [Pods -> Nat]

(* No pod is told that its provider is unsupported because start-up was cut *)
(* short by an outage or a crash: only an annotation that names a provider  *)
(* which is not configured ever causes that event.                          *)
UnsupportedIsReal ==
    \A p \in Pods : reported[p] = "ProviderUnsupported" =>
        \E pa \in asked : /\ pa[1] = p /\ ParseOk(pa[2])
                          /\ pa[2].provider \notin Registered

AllServing == \A r \in Replicas : phase[r] = "serving"

(* A controller that crashed, or that an outage keeps from starting, serves *)
(* again by itself once its providers answer.                               *)
ComesBack == <>[](outage \cap Configured = {} => AllServing)

(* Outages are contained: while the process serves, every servable pod of a *)
(* provider that answers ends with its secret in place, even if another     *)
(* provider never comes back; and with nothing older than the copies that   *)
(* were valid or being loaded when the pod was started.                     *)
EventuallyServed ==
    \A p \in Pods : <>[](/\ AllServing /\ Servable(p)
                         /\ pods[p].provider \notin outage
                         => SyncedSince(p, promised[p]))

(* Once no provider is down, the last event on a live pod comes to describe *)
(* its present annotation, through crashes and out-of-date copies.          *)
EventuallyTold ==
    \A p \in Pods : <>[](/\ AllServing /\ outage = {}
                         /\ pods[p] # NoPod /\ pods[p].text # "none"
                         /\ Verdict(p) = "SecretSyncSuccess" => Servable(p)
                         => reported[p] = Verdict(p))
=============================================================================
