# A TLA+ verification of jasm

jasm is a Kubernetes controller. It watches pods, reads the annotation
`jasm.io/secret-sync` on them, fetches the named secret from a provider
(AWS Secrets Manager, 1Password or Bitwarden) and keeps a Kubernetes `Secret` of
the requested name in the pod's namespace. This directory models the parts of
it whose correctness depends on the order of steps: TLA+ modules translated from
the Go source, TLC configurations that check them on small instances, and TLAPS
proofs for arbitrary instances.

## 1. Inventory

| Component | Source (`src/`) | State it keeps | Operations | Hard behaviour |
|---|---|---|---|---|
| Reconciler | `internal/controller/podsecret_controller.go` | none of its own: reads informer caches, writes the API server | `Reconcile`, `SetupWithManager`, `findPodsForSecret` | stale reads, conflicting writers, retries, crash between fetch and write, its own write waking it up |
| Annotation parser | `internal/annotation/parser.go` | none | `ParseAnnotation` | – |
| Events | `internal/events/recorder.go` | last event on a pod | `Emit...` | an event about an annotation that has been corrected since |
| Informers, work queue, API server | `cmd/controller/main.go`, `SetupWithManager` (and controller-runtime, external) | caches, watch streams, queue, backoff, resourceVersions | deliver, requeue, restart | lag, loss of everything at a restart, two replicas without leader election |
| Retry queue | `internal/provider/retry_queue.go` | `items`, `depth`, `running`, `stopCh`, `wg` | `Add`, `Start`, `Stop`, `process`, `processNextItem`, `Depth` | lock-free counters, channel close, cancellation, restart |
| Bitwarden provider | `internal/provider/bitwarden.go`, `bitwarden_ref.go` | `mu` | `FetchSecret`, `wrapError`, reference parser | mutex released by hand; lookup after the unlock |
| Bitwarden client and cache | `bitwarden_client.go`, `bitwarden_types.go` | keys, token, `VaultCache` | `Authenticate`, `SyncVault`, `FindItem`, `ToSecretMap` | half-finished logins, expiry, retries, key rotation |
| Bitwarden crypto | `bitwarden_crypto.go` | none | key derivation, decryption | – |
| 1Password provider | `onepassword.go`, `onepassword_ref.go` | none between two calls | `FetchSecret`, reference parser and `String` | one answer from three requests while the account changes; errors told apart by their words |
| AWS provider | `aws.go` | none between two calls | `FetchSecret` | JSON values turned into text |
| Registry and start-up | `provider.go`, `cmd/controller/main.go` | provider map, read-only after start | `Register`, `Get`, `main` | a configured provider that cannot be created ends the process: crash loop during an outage |
| Metrics | `internal/metrics/metrics.go` | counters | `Record...`, `UpdateQueueDepth` | a counter fed with absolute values |

How they interact: watch events put pods in the work queue; a reconcile calls
one provider, reads the target secret from the cache and sends a Create or
Update to the API server; the accepted write is itself a watch event and comes
back through `findPodsForSecret`. The Bitwarden and 1Password providers own a
retry queue whose depth callback feeds the metrics.

What makes each part correct:

* **Reconciler** – values only reach a namespace, name and key that was asked
  for; what others wrote is not lost; an old value never replaces a newer one;
  every pod that can be served is served in the end, whatever happens on the
  way; the last event describes the present annotation.
* **Retry queue** – no item is lost, duplicated or completed twice; one
  processor; `Stop` returns; the depth is right; items are completed.
* **Bitwarden** – staleness is bounded by the cache lifetime; reads do not go
  backwards; no path keeps the mutex; the client recovers from every
  half-finished login; an error says what is missing.
* **1Password and AWS** – the fields that are returned are those the path
  names, not a mixture of two states of the account; "not found" is said only
  of what was not there; values arrive as they were stored.
* **Start-up** – the process serves with all its providers or not at all, and
  comes back by itself; one provider's outage is not another one's.

The hazards, each at its line and with the properties that watch it, are in
`PROJECT.json` under `hazards`.

## 2. Modules

| Module | Contents |
|---|---|
| `PodSecretController` | reconciler, parser, events, informers, work queue, API server, users |
| `MCPodSecretController` | annotations and namespaces for TLC |
| `PodSecretControllerProofs` | type correctness |
| `PodSecretSafetyProofs` | no lost update, namespace isolation |
| `AtomicSync` | what the reconciler promises: a secret is synced in one atomic step |
| `PodSecretRefinementProofs` | `PodSecretController` implements `AtomicSync` |
| `PodSecretOrderProofs` | values never go back to an older version, with one active process |
| `RetryQueue`, `MCRetryQueue`, `RetryQueueProofs` | the retry queue, its instances, its proofs |
| `BitwardenProvider`, `MCBitwardenProvider`, `BitwardenProofs` | provider, client and cache, its instances, its proofs |
| `DirectProviders`, `MCDirectProviders`, `DirectProvidersProofs` | 1Password and AWS, their instances, their proofs |
| `JasmSystem`, `MCJasmSystem`, `JasmSystemProofs` | the whole process: start-up, registry, reconciler, cached and direct providers; its instance, its proofs |

`JasmSystem` extends `PodSecretController`; `PodSecretController` instantiates
`AtomicSync`; the other components stand alone. `JasmSystemProofs` builds on the four
proof modules of `PodSecretController`, each of which extends the one before it.

Operators next to a definition that differ from it in one detail
(`RequeueAfterReset`, `StopWithoutWait`, `NeedsLoginWhenBothExpired`, ...) are
mutants: plausible bugs at that place. None of them is used by a specification;
each shows that a property would notice the bug.

### 2.1 PodSecretController

`Reconcile` is cut where it leaves the process, because that is where others
interleave:

| Action | Code (`podsecret_controller.go`) |
|---|---|
| `StartReconcile`, `StartReconcileFails` | 51–88: the cached `Get` of the pod, missing annotation, `ParseAnnotation`, registry lookup, each with its early return and event; an error of that `Get` other than "not found" (54–58) |
| `FetchSecret`, `FetchSecretFails` | 90–96 |
| `ReadSecret`, `ReadSecretFails` | 98–143: the cached `Get` of the secret, key mapping, labels, annotations, `StringData` |
| `WriteSecret`, `WriteSecretRejected`, `WriteSecretFails` | 145–163: `Update` or `Create`, their errors, the success event |
| `DeliverPod`, `DeliverSecret` | 167–214: the two watches; the mapping function runs on the old and the new object |

A secret is a record of its data, the managed-by label, the source annotation,
the synced-at stamp and whether its type is `Opaque`. A provider value is a
record of path, key and version, so that a property can say where a value
comes from and how old it is. `resourceVersion` is the Boolean `fresh` of the
worker: true when the cached copy was the latest, made false by every later
write (`StaleOn`). `StringData` is merged over the submitted `Data` (`Overlay`),
as the API server does. An `Update` that changes nothing produces no event,
which is why the RFC3339 stamp with its resolution of a second matters.

External parts are modelled from how the code uses them: watch events of one
object arrive in order and those of different objects in any order; the queue
holds a pod once; an error puts the pod back after a delay; `Restart` forgets
everything and lists the cluster again (`Relist`). A pod that is reconciled is taken out
of the queue and can be queued again while the reconcile is running; as the
controller has one worker per process, it is then taken up after it.

History variables: `asked` (annotations that ever existed), `due` (provider
version when the pod's annotation was set).

**The abstract specification.** `AtomicSync` has no caches, queues, workers or
replicas. Its state is the annotations ever requested, the versions stored under
each path and the secrets. A secret changes by an edit of a user, or by `Sync`:
one version of a path that a pod of that namespace asked for, whole, under the
keys it asked for, over the secret *as it is at that moment*. The refinement
mapping of `PodSecretController` is `asked`, `vault` and the stored secrets
without their synced-at stamp (`Untimed`); a reconcile maps to stuttering up to
the accepted write, and that write to one `Sync`. It says in one formula that a
reconcile cut by crashes, retries, stale caches and a second replica leaves no
mixture of two versions, no value under the wrong key and no lost foreign key.

### 2.2 RetryQueue

Each action is one critical section or one atomic operation; a goroutine's
position is a `pc`. `Add` is three steps (append, count, report), `Start` two
(swap, spawn), `Stop` five (load, close, wait, clear, remake), the processor
seven and its exit. Closing a closed channel sets `panicked`, after which
nothing moves. The ticker is `ProcTake` being enabled; an empty queue is left at
once, so that step changes nothing and is not an action. The length of a
backoff (`calculateBackoff`) is "some time". `gauge` is the metric fed by
`onDepthChange` as `bitwarden.go` 63–65 registers it; it shows that the code
adds the absolute depth to an up-down counter.

### 2.3 BitwardenProvider

A call is parsed (`Call`), waits for the mutex (`Lock`), and either goes to the
lookup at once or runs `Authenticate` under the mutex: `Prelogin` (with
`DeriveKeys`), `Login` (with `DecryptSymmetricKey`), `Sync` with `SyncFails`,
`SyncRefused` and `BackoffSleep` as the retry loop of `SyncVault`, and
`Decrypt`, which replaces the cache as a whole or fails. `Find` is `FindItem`
under the cache's read lock, `ToSecretMap` and the field filter. Every failure
on the way releases the mutex (`Fail`).

The server is the sequence of vault revisions, the generation of the account's
key and of its KDF settings. An encrypted text is represented by the generation
of the key it is encrypted under; it decrypts when the client holds that
generation (the MAC check of `bitwarden_crypto.go`). `foreign` marks a vault
with an item the account's key does not open. Time is counted in ticks:
`CacheTTL`, `TokenLife`, and `Transfer` for the time from the server's snapshot
to the end of the decryption. A field that does not decrypt alone does not fail the
download: the code leaves it empty (`bitwarden_client.go` 407–438), which is an
entry with the value `Empty` here. Error texts are the set of words that `wrapError`
and `isBWRateLimited` search for, names chosen by users included.

History variables: `past` (the revision current at each of the last ticks),
`served` (latest revision any call returned from).

### 2.4 DirectProviders

| Action | Code |
|---|---|
| `Fetch` | `onepassword.go` `FetchSecret` up to its first request, with the reference parser of `onepassword_ref.go` |
| `ListVaults`, `ListItems`, `GetItem` | `lookupVaultID`, `lookupItemID`, `fetchAllFields`: three requests |
| `Resolve` | `resolveSecret`: one request with the text `String` makes |
| `RequestFails` | any of them returns an error of the SDK |
| `FetchAws` | `aws.go` `FetchSecret` |
| `SetVault`, `SetItem` | the owners of the account, between two requests |

`vaults` and `items` are the 1Password account: titles need not be unique, items
move between vaults. A title is the sequence of its slash-separated pieces, so
that joining decoded components (`String`) and splitting the text again (the SDK,
`Resolvable`) is modelled by what it does. An error is the set of words that
`wrapError` and `isRateLimited` look for (`WrapError`, `IsRateLimited`); the SDK
is external and may say "not found" with or without the word vault (`Refusals`).
A JSON number carries its literal, the shortest text of the `float64` it is read
as (`1.10` is `1.1`) and its decimal exponent, on which `%v` decides between plain
digits and scientific notation (`Convert`).

`Init` is any account, so one call is examined from every state that earlier
edits can have led to; edits are actions only while a call runs. The history
variable `window` is the sequence of accounts since the call began.

### 2.5 JasmSystem

The composition. `phase` is how far `main` has come, `registry` what
`DefaultProviderRegistry` has registered so far, `copy` the versions in
Bitwarden's decrypted vault and the ticks until it expires, `download` the
versions of a vault that the server has sent and that is not installed yet,
`outage` the providers that do not answer.

| Action | Code |
|---|---|
| `Boot` | `main`, up to the AWS provider, which is created without calling anyone |
| `RegisterOnePassword`, `RegisterBitwarden` | `DefaultProviderRegistry`: skipped when not configured, otherwise created or, when that fails, `os.Exit(1)` |
| `Download` | the server's answer to the request of `SyncVault` (`bitwarden_client.go` 212–259), at start-up or for a call that logs in |
| `Install`, `Created` | the rest of `SyncVault` (261–286): the decrypted vault becomes the copy, whose life begins now; part of `RegisterBitwarden` and `FetchCached` |
| `Serve` | `SetupWithManager`, `mgr.Start` |
| `FetchDirect`, `FetchCached`, `FetchFails` | the reconciler's `FetchSecret` with a direct or the cached provider, in an outage or not |
| `Begins` | `Take` of `PodSecretController` on the registry of this process |
| `Crash`, `Outage`, `Repaired` | faults, at any moment, start-up included |

The rest of the reconciler is `PodSecretController`'s, in a serving process
(`Serving`). `FetchCached` answers from the copy while it has time left, or from
the one it has loaded. Between the server's answer and the installed copy
anything may happen: a rotation, a new pod, an outage (after which the load may
still succeed or fail) or a crash. Installing and looking up are one step, because
nobody else works in the process between them. The token is not modelled here, so
a call may log in at any time; the retries of `SyncVault` are those of
`BitwardenProvider`, and `Download` is the attempt that gets through.

`promised` is a history variable: the oldest version that a valid copy, or one that
is being loaded, could hold when the pod was given its annotation. The second half
is needed: the server sends version 1, the path is rotated, a pod is started, and
the copy with version 1 is installed for its whole life. The pod is served version 1
and nothing need reconcile it again. Without downloads in `Floor` TLC finds this
behaviour as a counterexample of `EventuallyServed`.

## 3. Runs

### Controller

| Run | Instance | Shows |
|---|---|---|
| `controller_isolation` | two pods that share a secret, one in another namespace with the same secret name, two paths that meet in one key, a mapping and none, 3 edits, 1 fault | `TypeOK`, `OnlyWhatWasAsked`, `ImplementsAtomicSync`, `NeverOlder` |
| `controller_replicas` | two replicas, one pod, 3 edits | `NoLostUpdate`, `ImplementsAtomicSync`, `EventuallySynced` |
| `controller_polling` | one pod, one edit | violates `NoPolling` |
| `controller_stale_keys` | one pod, two mappings, 2 edits | violates `OnlySpecifiedKeys` |

Bounds. An *edit* is any change by a user or the provider's owner; a *fault* is
a failed call or a restart. The shortest bad behaviours found with the mutants
need three edits (annotate, write or delete the secret, and one more in the
middle of a reconcile) and one fault; the instances allow that. In
`controller_isolation` they may be an annotation on each of the two pods that share a
secret and one more change: each one's write wakes the other. These two pods are
interchangeable (symmetry, with safety properties only); the process has one worker,
so their reconciles do not overlap. Pods without the annotation occur in `system`.
`MaxPending`
bounds the undelivered events of one secret: three leave room for a create, a
change and a delete that the replica has not heard of. The clock is counted
modulo `ClockPeriod`: with 2 (`system`, `controller_polling`) consecutive writes
may carry different stamps, with 1 they carry the same, so both outcomes of "did
the update change anything" occur. Where
values never go back (`NeverOlder`), the claim is for one replica: with two, the
slower one may put back, for one round, what it fetched before a rotation.

### Whole process

| Run | Instance | Shows |
|---|---|---|
| `system` | one replica, one pod, a cached and a direct provider, every kind of annotation, 2 edits, 2 faults, clock modulo 2 | `SysTypeOK`, `UnsupportedIsReal`, `NeverOlder`, `ComesBack`, `EventuallyServed`, `EventuallyTold` |

Bounds. Two edits are an annotation and its correction, or an annotation and a
rotation; two faults are an outage and a crash, or a crash during the start-up
that follows a crash. A download may take any number of steps. `CacheTTL` 1 lets the copy expire between any two steps;
the clock runs on, so expiry happens again and again. An outage need not end: a
process of which a configured provider stays down never serves, and a serving
one goes on for the pods of the others.

### Retry queue

| Run | Instance | Shows |
|---|---|---|
| `queue_lifecycle` | 2 items, 1 goroutine calling `Start`/`Stop` up to 4 times, 1 failure per item, cancellation | `TypeOK`, `ItemsConserved`, `DepthAtRest`, `OneProcessor`, `StopReturns`, `Drained` |

Bounds. Two items distinguish front from back; four calls are Start, Stop,
Start, Stop; one failure of `RetryFunc` takes an item through the whole retry
path and to the back. One goroutine controls the queue, as in the program; two
that call `Stop` together close the channel twice. `TypeOK`, `ItemsConserved` and
`DepthAtRest` are proved for any number of them, `OneProcessor` for one. The queue stops when nobody calls it any
more, so deadlock is not an error here.

### Bitwarden

| Run | Instance | Shows |
|---|---|---|
| `bitwarden_lookup` | one caller, every form of path and vault, token expires before the cache, 1 change, 2 faults | `TypeOK`, `FreshEnough` |
| `bitwarden_recovery` | two callers, 1 change, 2 faults, shutdown, cache expires before the token | `FreshEnough`, `NeverBackwards`, `FetchReturns`, `Recovers` |
| `bitwarden_folder_error` | one caller | violates `MissingFolderIsMissing` |

Bounds. Lifetimes of 1 and 2 ticks give both orders of token and cache expiry;
`Transfer` of 1 lets the vault change during a download; one retry of the
download (3 in the code) is enough to go round the loop and to give up. The
bound of `FreshEnough`, `CacheTTL + Transfer - 1` ticks, is tight: with one tick
less TLC finds a counterexample.

### 1Password and AWS

| Run | Instance | Shows |
|---|---|---|
| `direct_reads` | 2 vaults, 2 items, 2 titles, 2 contents (one without a usable field), up to 2 edits during a call, every form of path | `TypeOK`, `OneEditIsAtomic`, `OrderedRead`, `AbsenceIsReal` |
| `onepassword_escaped` | a path whose item title contains an escaped slash | violates `FetchesNamedField` |
| `aws_numbers` | a number of seven digits | violates `NumbersKeepTheirDigits` |

Bounds. Two vaults and two items allow twins, swaps and moves; two edits are one
between each two of the three requests. Vaults and items are interchangeable
(symmetry); only invariants are checked here. Calls follow one another for ever,
and none leaves anything behind for the next.

### Fairness

* **Controller** (`controller_replicas`). Watch events arrive, the rate limiter's
  delay ends, a provider or API call returns: weak fairness. The work queue is FIFO, so a pod that is
  queued is taken up although others are taken in between: strong fairness of
  `StartReconcile` for each pod. The clock advances. Nothing is assumed about
  users, faults or restarts.
* **Whole process.** As for the controller; besides, the kubelet restarts a
  container that has ended and start-up goes on (weak fairness of `StartUp`), and a
  vault that the server has sent is installed or the call fails (`StartUp`,
  `Fetches`): the HTTP client has a timeout, decryption ends.
  Crashes and outages are finitely many, but nobody has to repair an outage.
* **Retry queue.** Goroutines run: weak fairness of every step in progress.
  `select` chooses at random among ready cases, so a processor that keeps meeting
  a closed channel leaves through it: strong fairness of `ProcExit`. `RetryFunc`
  returns, and it does not fail for ever: each item fails at most `MaxAttempts`
  times, without which no queue without a limit on attempts would ever be empty.
  Nobody has to call `Add`, `Start`, `Stop` or cancel.
* **Bitwarden.** Requests end because the HTTP client has a timeout of 30
  seconds, sleeps end: weak fairness of `Authenticate` and `Find`. `sync.Mutex`
  hands over to a waiter that has waited long (starvation mode): strong fairness
  of `Lock`. The reconciler returns an error to the work queue and calls again:
  weak fairness of `CallAgain`. No login is assumed to succeed; faults are
  finitely many.

## 4. Where the code and what is said of it disagree

1. `NoPolling`. `README.md:32` says "No polling". Every sync writes a new
   synced-at time; the watch event of that write reconciles the pod again, and
   whenever the second has changed, the provider is called and the secret is
   written once more.
2. `OnlySpecifiedKeys`. `README.md:288` says only the specified keys are included
   in the secret. `StringData` is merged over the existing `Data`, so keys of an
   earlier mapping remain.
3. `MissingFolderIsMissing`. The text for a missing item contains "folder" and
   "not found" and is reported as a missing folder.
4. `FetchesNamedField`. The parser decodes `%2F` in a component and `String` joins
   the decoded components without encoding them, so the SDK splits the title of an
   item at its slash and answers with a field of another item.
5. `NumbersKeepTheirDigits`. JSON numbers are read as `float64` and printed with
   `%v`: from 10^6 on, and below 10^-4, in scientific notation. The test "Numeric
   port values" expects the digits, of shorter numbers.

Seen while modelling, without a run of their own because no document promises
otherwise or the program does not get there:

* *Retry queue.* `Depth()` is −1 for a moment when an item is completed before its
  `Add` has counted it; after its context is cancelled the processor is gone
  while `running` stays set, so `Start` does nothing until `Stop` is called; two
  goroutines calling `Stop` close the channel twice; `onDepthChange` adds the
  absolute depth to an up-down counter. The queue is started by the program, with a
  context (`context.Background()`) that is never cancelled, and its `Add` is only
  called by tests: what is said of it is about the component as written.
* *Bitwarden.* With two folders of one name, whether a stored item is found depends
  on the iteration order of a map.
* *1Password.* A missing item is reported as a missing vault, as the text of
  `lookupItemID` contains both words; a title that contains "429" makes "not
  found" a rate limit; an item that is retitled and refilled in one save
  is answered with its new fields under its old title (the exception
  `Repurposed` of `OneEditIsAtomic`).
* *Start-up.* While a configured provider is down no process can start, the pods of
  the other providers wait with it; a running process is not affected.
* *Staleness.* A pod served from Bitwarden's copy keeps an older version until
  something reconciles it again; two replicas with copies of different age may
  write their versions in turns. `FetchSecret` is called without a deadline.
* *Metrics.* `SetupMeterProvider` is never called, although `README.md:408`
  describes OTLP metrics.

## 5. Proofs

All theorems hold for every value of the constants that meets the `ASSUME`s of
the module: that the sentinels (`Absent`, `Foreign`, `NoPod`, `None`, ...) are not
ordinary values, that bounds are natural numbers, that `NamespaceOf` gives every
pod a namespace, and that the annotations, paths and vaults have their type.
The bounds may be arbitrarily large: they occur in the proofs only as limits of
counters. In `JasmSystem` there is at least one replica. Four theorems have a
hypothesis of their own, which the statement names:

* `OneReplica` (`NeverGoesBack`, `SystemNeverGoesBack`): one process is active. The
  development overlay of `deploy/` has one replica, the production overlay two with
  `--leader-elect`. Of two that write, a slow one can put back what the other has
  replaced; `controller_replicas` therefore does not check `NeverOlder`.
* `OneControl` (`OneProcessorAtATime`): one goroutine calls `Start` and `Stop`, as in
  the program. Two that call `Stop` together close the channel twice.
* `OwnPaths` (`SystemNeverGoesBack`): what Bitwarden serves no other provider serves.
  The path of an annotation means something to one provider only; the model stores the
  versions per path, so without this a path could be read both from Bitwarden's copy
  and directly.
* `NotFoundIsTelling` (`AbsencesAreReal`): neither a failure of a request nor the title
  of an item has "not found" in its text. `wrapError` decides by these words alone,
  and titles are chosen by users.

The instances of the runs meet all four, except that `controller_replicas` has two
replicas.

| Theorem | States | Inductive invariant |
|---|---|---|
| `TypeCorrect` | `Spec => []TypeOK` | `TypeInv`: `TypeOK`, and a worker about to write has an object |
| `NoUpdateIsLost` | `Spec => NoLostUpdate` | `FreshInv` |
| `OnlyWhatWasAskedIsWritten` | `Spec => []OnlyWhatWasAsked` | `AskedInv` |
| `ReconcileIsAtomic` | `Spec => ImplementsAtomicSync` | `VersionInv`, with `FreshInv` and `AskedInv` |
| `NeverGoesBack` | `OneReplica` gives `Spec => NeverOlder` | `OrderInv`, with `VersionInv` |
| `QueueTypeCorrect`, `NoItemIsLost` | `Spec => []TypeOK`, `Spec => []ItemsConserved` | `QueueInv` |
| `OneProcessorAtATime` | `OneControl` gives `Spec => []OneProcessor` | `ControlInv` |
| `DepthIsRightAtRest` | `Spec => []DepthAtRest` | `DepthInv`, with `QueueInv` |
| `ProviderTypeCorrect`, `StalenessIsBounded`, `ReadsAreMonotonic` | `Spec => []TypeOK`, `[]FreshEnough`, `[]NeverBackwards` | `CacheInv` |
| `TypeCorrect` (of `DirectProvidersProofs`), `ReadsAreOrdered`, `NoTornRead` | `Spec => []TypeOK`, `[]OrderedRead`, `[]OneEditIsAtomic` | `ReadInv` |
| `AbsencesAreReal` | `NotFoundIsTelling` gives `Spec => []AbsenceIsReal` | `AbsenceIsReal`, with `ReadInv` |
| `SystemTypeCorrect`, `UnsupportedIsNoAccident` | `SysSpec => []SysTypeOK`, `[]UnsupportedIsReal` | `SysInv` |
| `SystemWritesWhatWasAsked`, `SystemLosesNoUpdate`, `SystemIsAtomic` | `SysSpec => []OnlyWhatWasAsked`, `NoLostUpdate`, `ImplementsAtomicSync` | `SysInv` |
| `SystemNeverGoesBack` | `OneReplica` and `OwnPaths` give `SysSpec => NeverOlder` | `SysOrderInv`, with `SysInv` |

* **`FreshInv`.** `NoLostUpdate` is about the API server, but what a write does
  is decided by a cached copy. The chain is: the cache plus the undelivered
  events end at the present secret (`WatchCatchesUp`); so a copy read with no
  event outstanding is the present secret, and stays so until some write makes
  the worker stale (`FreshIsCurrent`); and the object differs from its copy only
  by provider values (`BuiltOnBase`). An accepted update is one with a fresh
  copy.
* **`AskedInv`.** Whatever annotation a pod, a cache, a watch stream or a worker
  holds was once on that pod (`PodsRecorded`, `WorkersRecorded`), and every
  secret anywhere on the way – stored, cached, on a watch stream, read or about
  to be written – carries only licensed values (`SecretsLicensed`). `asked` only
  grows, so a licence is never lost.
* **`VersionInv`.** That an accepted write is one abstract `Sync` needs three
  things: the base it was built on is the secret at that moment (`FreshInv`); the
  annotation was requested and is valid (`AskedInv`); and the object is one whole
  version of the path over that base (`WorkOfOneVersion`), whatever was stored
  since, because `vault` only grows (`StepGrows`, `DesiredOfVersion`). Each of the
  other steps is a step of users or a stutter (`StepSimulates`). The number of
  pods, replicas, keys, edits and faults is arbitrary.
* **`OrderInv`.** That a write never brings an older version is not about the write:
  it was decided when the worker fetched. With one process, no secret and no work in
  the worker's hands is ahead of the version that the next answer can be of
  (`NoneNewer`), and once the worker has an answer, nothing stored under its path is
  ahead of that (`HoldsNewest`): nobody else writes provider values in between. The
  lemmas are stated for any `top`, the versions of the next answers, that only rises
  (`Rises`); here it is the last version of each path, in the whole process it is not.
* **`QueueInv`.** `ItemsConserved` needs `Hands`: which `pc` of a processor goes
  with holding an item.
* **`ControlInv`.** For each place in `Start` and `Stop` where the controlling goroutine
  can be: whether the channel is closed, what the `WaitGroup` counts and whether a
  processor is alive. `wg` is the number of live processors, so `wg.Wait` returning
  says that the processor is gone before the channel is made anew.
* **`DepthInv`.** The counter is the number of items whose `Add` has counted them less
  the number whose success has been counted, as sets (`Counted`, `Discounted`): it
  may be −1 in between. At rest the difference is the set of queued items, and a
  sequence without repetitions is as long as the set of its elements
  (`LengthCounts`).
* **`CacheInv`.** `Locked` (whoever is between `Lock` and `Fail` or `Decrypt`
  holds the mutex, hence at most one refreshes the cache), `Growing` (`past` is
  ordered and never ahead of the vault), `CacheRevision` (a cache with `left`
  ticks to go holds at least the revision of that long ago), `CallerRevisions`
  (what a caller is about to read or install is at least its `floor` and its
  `seen`).
* **`ReadInv`.** `WindowInv`: neighbouring states of `window` differ in one vault or in
  one item. `CallInv`: a call that asks for items has seen its vault under the wanted
  title, and one that asks for fields has seen its item under the wanted title in that
  vault, no earlier. With at most one edit the window has at most two states, and
  the case that the requests saw different ones is an edit of the vault, which leaves
  the items alone, or of the item, which leaves the vaults alone.
* **`SysInv`.** `Booted`: what the registry holds at each stage of start-up; nothing
  serves before it is complete, hence an "unsupported" event is about a provider that
  is not configured. `CopyIsPast`: the versions of the copy and of a download exist in the vault,
  and a download is no older than the copy it replaces. The
  composition is proved from the component: every step of the process is a step of
  `PodSecretController` or one of five it does not have, an outage, the end of
  start-up, a crash, an answer from the copy, a failed fetch (`StepSplits`, `Extra`),
  and those leave cluster and history alone; a download leaves all variables of the
  reconciler alone. An answer from the copy is a version the
  vault has had, which is what `VersionInv` asks of an answer, so the refinement
  carries over to stale answers.
* **`SysOrderInv`.** `OrderedUpTo` with the version the process would answer with:
  the copy's while it is valid, else that of the download in progress, else the last
  (`Newest`). It only rises (`NewestRises`): a copy is replaced by a later one, and a
  crash or a failed call, which lose it, or its expiry leave a newer download or the
  vault itself.

Only model-checked: what needs fairness, which is out of the prover's reach
(`EventuallySynced`, `EventuallyServed`, `EventuallyTold`, `ComesBack`, `StopReturns`,
`Drained`, `FetchReturns`, `Recovers`). Every invariant and every action property
that a passing run checks is proved. The five runs of section 4 are
counterexamples on one instance and need no proof.

## 6. Not modelled

* **Start-up errors that no retry mends** (a bad flag, no kubeconfig): they end the process before anything is started. `Init`
  of `BitwardenProvider` is the state after `NewBitwardenProvider` has succeeded.
* **Cryptography**: only whether a text decrypts. A MAC is taken to be present;
  unauthenticated texts are accepted by the code and are outside the model.
* **Metrics** other than the queue depth: counters that are only written.
* Logging, the wording of events, the
  event broadcaster's rate limit.
* **Watch interruptions inside a process**: a relist is modelled as `Restart`
  only, or `Serve` in the composition.
* **A failing cached `List` in `findPodsForSecret`** (186–188) drops the event. The
  errors of the cached `Get`s are modelled (`StartReconcileFails`, `ReadSecretFails`);
  this one is not, and `EventuallySynced`, `EventuallyServed` and `EventuallyTold`
  assume that it does not happen: if it did, a deleted or changed secret would be put
  right at the pod's next event only.
* **A path that is deleted at the provider.** `Rotate` adds versions; it may leave out
  keys, but the path stays. After a deletion the secret would keep its last values and
  `SecretFetchFailed` would be reported when something reconciles the pod, not by
  itself, so `EventuallyTold` is about paths that are created and changed.
* **Numbers nested in a JSON value** of an AWS secret: an object or array is one
  literal text.
* **The namespace check of lines 75–80** of the reconciler cannot fail, as the
  parser copies the pod's namespace.
* **`VaultCache.Clear`** is not called by the program.
* **`calculateBackoff`**: the length of a delay is "some time".
* **A token that expires during the `Authenticate` that obtained it**: the server
  is taken to accept it for the download.
* **Concurrency of Bitwarden callers**: today's controller has one worker, so the
  two callers of the model are what the mutex is there for, not what one process
  does now.

## 7. Plan

Done: the reconciler with its abstract specification, the retry queue, the three
providers, start-up and the composition of the whole process; proofs of every safety
property that a run checks, and of the reconciler's again for the whole process. Left:

1. The safety half of the liveness properties: that a state which is not the wanted one
   always leaves a step to take, such as a pod that is not in sync being queued, in
   backoff, with the worker or on a watch stream (`EventuallySynced`), and a waiting
   `Stop` having a processor to wait for (`StopReturns`).
2. Bitwarden's copy in `JasmSystem` as an abstraction of `BitwardenProvider`: what
   `Download`, `Install` and `FetchCached` take for granted, from `CacheRevision` and
   `CallerRevisions`.
