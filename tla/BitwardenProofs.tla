--------------------------- MODULE BitwardenProofs ---------------------------
(* Bounded staleness and monotonic reads of the Bitwarden provider, for any *)
(* number of callers, any vault and any lifetimes.                          *)
EXTENDS BitwardenProvider, TLAPS, SequenceTheorems

CallerType ==
    [pc : {"idle", "lock", "prelogin", "login", "sync", "backoff", "decrypt", "find"},
     ref : Ref \cup {NoRef}, floor : Nat, seen : Nat, attempt : 0..MaxRetries,
     reply : Nat, replyKey : Nat, age : 0..Transfer]
ResultType ==
    [kind : Kinds, ref : Ref \cup {NoRef}, ver : Nat,
     fields : [Names -> Names \cup {Empty}], floor : Nat, seen : Nat]

\* Exactly the caller inside Authenticate holds the mutex.
Locked == \A c \in Callers :
    caller[c].pc \in {"prelogin", "login", "sync", "backoff", "decrypt"} <=> mu = c

\* The history is that of a growing vault.
Growing == /\ past[0] <= Len(vault)
           /\ \A i, j \in 0..Window : i <= j => past[j] <= past[i]

\* The cache is a revision of the vault, at least as late as all that was
\* returned, and while it is valid not older than its age allows.
CacheRevision ==
    /\ 1 <= cache.ver /\ cache.ver <= Len(vault)
    /\ served <= cache.ver
    /\ cache.left > 0 => past[CacheTTL - cache.left + Transfer] <= cache.ver

\* A downloaded vault is not older than the cache it will replace; a caller
\* that is about to look into the cache will find what it is owed.
CallerRevisions == \A c \in Callers :
    /\ caller[c].floor <= past[Window]
    /\ caller[c].seen <= served
    /\ caller[c].pc = "decrypt" => /\ cache.ver <= caller[c].reply
                                   /\ caller[c].reply <= Len(vault)
                                   /\ past[caller[c].age] <= caller[c].reply
    /\ caller[c].pc = "find" => caller[c].floor <= cache.ver

CacheInv ==
    /\ TypeOK /\ Locked /\ Growing /\ CacheRevision /\ CallerRevisions
    /\ FreshEnough /\ NeverBackwards

-----------------------------------------------------------------------------
(* ParseReference returns a reference or NoRef.                             *)
LEMMA ParseType == ASSUME NEW text PROVE ParseReference(text) \in Ref \cup {NoRef}
  BY DEF ParseReference

(* The constant records have their types.                                   *)
LEMMA RecordTypes == /\ Idle \in CallerType /\ NoResult \in ResultType
                     /\ Absent \in [Names -> Names \cup {Empty}]
  BY BoundAssumption DEF Idle, CallerType, NoResult, ResultType, Absent, Kinds

(* The window of the history reaches back at least as far as a download.    *)
LEMMA WindowSize == Window \in Nat /\ Transfer <= Window /\ Transfer \in Nat
  BY BoundAssumption DEF Window

(* A fresh provider satisfies the invariant.                                *)
LEMMA InitCache == Init => CacheInv
<1> SUFFICES ASSUME Init PROVE CacheInv
  OBVIOUS
<1>1. PICK x \in Contents : vault = <<x>>
  BY DEF Init
<1>2. vault \in Seq(Contents) /\ vault # <<>> /\ Len(vault) = 1
  BY <1>1
<1>3. TypeOK
  <2>1. /\ key \in Nat /\ cred \in Nat /\ kdf \in {"pbkdf2", "argon2"}
        /\ master \in Nat /\ symKey \in Nat
        /\ token \in 0..TokenLife /\ cache \in [ver : Nat, left : 0..CacheTTL]
        /\ served \in Nat /\ edits \in 0..MaxEdits /\ faults \in 0..MaxFaults
        /\ past \in [0..Window -> Nat]
    BY BoundAssumption DEF Init
  <2>2. shutdown \in BOOLEAN /\ mu \in Callers \cup {Nobody}
    BY DEF Init
  <2>3. caller \in [Callers -> CallerType] /\ result \in [Callers -> ResultType]
    BY RecordTypes DEF Init
  <2> QED
    BY <1>2, <2>1, <2>2, <2>3 DEF TypeOK, CallerType, ResultType
<1>4. \A c \in Callers : /\ caller[c].pc = "idle" /\ caller[c].floor = 0
                         /\ caller[c].seen = 0 /\ result[c].ver = 0
  BY DEF Init, Idle, NoResult
<1>5. Locked
  BY <1>4, NameAssumption DEF Init, Locked
<1>6. \A i \in 0..Window : past[i] = 1
  BY DEF Init
<1>7. Growing /\ CacheRevision
  BY <1>2, <1>6, WindowSize, BoundAssumption DEF Init, Growing, CacheRevision, Window
<1>8. CallerRevisions /\ FreshEnough /\ NeverBackwards
  BY <1>4, <1>6, WindowSize DEF Init, CallerRevisions, FreshEnough, NeverBackwards, FromCache
<1> QED
  BY <1>3, <1>5, <1>7, <1>8 DEF CacheInv

(* One caller moves to a record of the right type.                          *)
LEMMA CallerMoves ==
    ASSUME TypeOK, NEW c \in Callers, NEW r \in CallerType,
           caller' = [caller EXCEPT ![c] = r]
    PROVE  /\ caller' \in [Callers -> CallerType]
           /\ \A d \in Callers : caller'[d] = IF d = c THEN r ELSE caller[d]
  BY DEF TypeOK, CallerType

(* One caller returns: its answer has a type, and is as late as it must be. *)
LEMMA AnswerStored ==
    ASSUME TypeOK, FreshEnough, NeverBackwards, NEW c \in Callers,
           NEW r \in ResultType, r.ver # 0 => r.floor <= r.ver /\ r.seen <= r.ver,
           result' = [result EXCEPT ![c] = r]
    PROVE  result' \in [Callers -> ResultType] /\ FreshEnough' /\ NeverBackwards'
<1>1. result \in [Callers -> ResultType]
  BY DEF TypeOK, ResultType
<1>2. \A d \in Callers : result'[d] = IF d = c THEN r ELSE result[d]
  BY <1>1
<1>3. result' \in [Callers -> ResultType]
  BY <1>1
<1>4. r.ver \in Nat /\ r.floor \in Nat /\ r.seen \in Nat
  BY DEF ResultType
<1> QED
  BY <1>2, <1>3, <1>4 DEF FreshEnough, NeverBackwards, FromCache

(* A step that touches neither callers nor revisions keeps the invariant.   *)
LEMMA InvStable ==
    ASSUME CacheInv, TypeOK', UNCHANGED <<vault, cache, mu, caller, result, past, served>>
    PROVE  CacheInv'
  BY DEF CacheInv, Locked, Growing, CacheRevision, CallerRevisions, FreshEnough,
         NeverBackwards, FromCache

(* A caller that moves inside Authenticate, with the mutex, without a reply. *)
LEMMA HolderMoves ==
    ASSUME CacheInv, NEW c \in Callers, NEW r \in CallerType, mu = c,
           r.pc \in {"login", "sync", "backoff"},
           r.floor = caller[c].floor, r.seen = caller[c].seen,
           caller' = [caller EXCEPT ![c] = r],
           UNCHANGED <<vault, cache, mu, past, served, result>>
    PROVE  /\ caller' \in [Callers -> CallerType]
           /\ (TypeOK' => CacheInv')
<1>1. /\ caller' \in [Callers -> CallerType]
      /\ \A d \in Callers : caller'[d] = IF d = c THEN r ELSE caller[d]
  BY CallerMoves DEF CacheInv
<1>2. Locked'
  BY <1>1 DEF CacheInv, Locked
<1>3. CallerRevisions'
  BY <1>1 DEF CacheInv, CallerRevisions
<1>4. Growing' /\ CacheRevision' /\ FreshEnough' /\ NeverBackwards'
  BY DEF CacheInv, Growing, CacheRevision, FreshEnough, NeverBackwards, FromCache
<1> QED
  BY <1>1, <1>2, <1>3, <1>4 DEF CacheInv

(* A caller that gives up releases the mutex and returns no secret.         *)
LEMMA HolderFails ==
    ASSUME CacheInv, NEW c \in Callers, mu = c, Fail(c),
           UNCHANGED <<vault, cache, past, served>>
    PROVE  /\ caller' \in [Callers -> CallerType] /\ result' \in [Callers -> ResultType]
           /\ mu' = Nobody
           /\ (TypeOK' => CacheInv')
<1>0. TypeOK /\ FreshEnough /\ NeverBackwards
  BY DEF CacheInv
<1>1. /\ caller' = [caller EXCEPT ![c] = Idle] /\ mu' = Nobody
      /\ result' = [result EXCEPT ![c] =
           [kind |-> "auth", ref |-> caller[c].ref, ver |-> 0, fields |-> Absent,
            floor |-> caller[c].floor, seen |-> caller[c].seen]]
  BY DEF Fail, Unlock, Return
<1>2. /\ caller' \in [Callers -> CallerType]
      /\ \A d \in Callers : caller'[d] = IF d = c THEN Idle ELSE caller[d]
  BY <1>0, <1>1, CallerMoves, RecordTypes
<1>3. [kind |-> "auth", ref |-> caller[c].ref, ver |-> 0, fields |-> Absent,
       floor |-> caller[c].floor, seen |-> caller[c].seen] \in ResultType
  BY <1>0, RecordTypes DEF TypeOK, ResultType, Kinds
<1>4. result' \in [Callers -> ResultType] /\ FreshEnough' /\ NeverBackwards'
  BY <1>0, <1>1, <1>3, AnswerStored
<1>5. Idle.pc = "idle" /\ Idle.floor = 0 /\ Idle.seen = 0
  BY DEF Idle
<1>6. Locked'
  BY <1>1, <1>2, <1>5, NameAssumption DEF CacheInv, Locked
<1>7. CallerRevisions'
  <2>1. past[Window] \in Nat /\ served \in Nat
    BY <1>0, WindowSize DEF TypeOK
  <2> QED
    BY <1>2, <1>5, <2>1 DEF CacheInv, CallerRevisions
<1>8. Growing' /\ CacheRevision'
  BY DEF CacheInv, Growing, CacheRevision
<1> QED
  BY <1>1, <1>2, <1>4, <1>6, <1>7, <1>8 DEF CacheInv

(* A new revision is stored on the server.                                  *)
LEMMA StoreKeeps ==
    ASSUME CacheInv, NEW content \in Contents, Store(content) PROVE CacheInv'
<1>0. TypeOK /\ vault' = Append(vault, content) /\ edits' = edits + 1 /\ edits < MaxEdits
      /\ UNCHANGED <<key, cred, kdf, master, symKey, token, cache, mu, caller, result,
                     past, served, shutdown, faults>>
  BY DEF CacheInv, Store, Edit, client, ghosts
<1>1. vault' \in Seq(Contents) /\ vault' # <<>> /\ Len(vault') = Len(vault) + 1
      /\ Len(vault) \in Nat
  <2>1. vault \in Seq(Contents)
    BY <1>0 DEF TypeOK
  <2>2. vault' \in Seq(Contents) /\ Len(vault') = Len(vault) + 1 /\ Len(vault) \in Nat
    BY <1>0, <2>1, AppendProperties
  <2> QED
    BY <2>2, EmptySeq
<1>2. TypeOK'
  <2>1. edits' \in 0..MaxEdits
    BY <1>0, BoundAssumption DEF TypeOK
  <2> QED
    BY <1>0, <1>1, <2>1 DEF TypeOK
<1>3. past[0] \in Nat /\ cache.ver \in Nat /\ \A c \in Callers : caller[c].reply \in Nat
  BY <1>0, WindowSize DEF TypeOK
<1>4. Growing' /\ CacheRevision' /\ CallerRevisions'
  BY <1>0, <1>1, <1>3 DEF CacheInv, Growing, CacheRevision, CallerRevisions
<1>5. Locked' /\ FreshEnough' /\ NeverBackwards'
  BY <1>0 DEF CacheInv, Locked, FreshEnough, NeverBackwards, FromCache
<1> QED
  BY <1>2, <1>4, <1>5 DEF CacheInv

(* Time passes.                                                             *)
LEMMA TickKeeps == ASSUME CacheInv, Tick PROVE CacheInv'
<1>0. TypeOK /\ Growing /\ CacheRevision /\ CallerRevisions
  BY DEF CacheInv
<1>1. /\ \A c \in Callers : caller[c].pc = "decrypt" => caller[c].age < Transfer
      /\ caller' = [c \in Callers |-> IF caller[c].pc = "decrypt"
                                      THEN [caller[c] EXCEPT !.age = @ + 1]
                                      ELSE caller[c]]
  BY DEF Tick
<1>t. /\ token' = Elapse(token) /\ token \in 0..TokenLife
      /\ cache' = [cache EXCEPT !.left = Elapse(@)]
      /\ cache \in [ver : Nat, left : 0..CacheTTL]
  BY <1>0 DEF Tick, TypeOK
<1>p. /\ past' = [i \in 0..Window |-> IF i = 0 THEN Len(vault) ELSE past[i - 1]]
      /\ past \in [0..Window -> Nat]
  BY <1>0 DEF Tick, TypeOK
<1>n. Len(vault) \in Nat
  <2>1. vault \in Seq(Contents)
    BY <1>0 DEF TypeOK
  <2> QED
    BY <2>1
<1>u. UNCHANGED <<vault, key, cred, kdf, master, symKey, mu, result, served,
                  shutdown, edits, faults>>
  BY DEF Tick, server, bounds
<1>2. \A c \in Callers :
        /\ caller'[c] \in CallerType
        /\ caller'[c].pc = caller[c].pc /\ caller'[c].floor = caller[c].floor
        /\ caller'[c].seen = caller[c].seen /\ caller'[c].reply = caller[c].reply
        /\ caller[c].pc = "decrypt" => caller'[c].age = caller[c].age + 1
                                         /\ caller[c].age < Transfer
  <2> SUFFICES ASSUME NEW c \in Callers
               PROVE  /\ caller'[c] \in CallerType
                      /\ caller'[c].pc = caller[c].pc /\ caller'[c].floor = caller[c].floor
                      /\ caller'[c].seen = caller[c].seen /\ caller'[c].reply = caller[c].reply
                      /\ caller[c].pc = "decrypt" => caller'[c].age = caller[c].age + 1
                                                       /\ caller[c].age < Transfer
    OBVIOUS
  <2>1. caller[c] \in CallerType
    BY <1>0 DEF TypeOK, CallerType
  <2>2. CASE caller[c].pc # "decrypt"
    BY <1>1, <2>1, <2>2
  <2>3. CASE caller[c].pc = "decrypt"
    <3>1. caller'[c] = [caller[c] EXCEPT !.age = @ + 1] /\ caller[c].age < Transfer
      BY <1>1, <2>3
    <3>2. caller[c].age + 1 \in 0..Transfer
      BY <2>1, <3>1, BoundAssumption DEF CallerType
    <3> QED
      BY <2>1, <3>1, <3>2 DEF CallerType
  <2> QED
    BY <2>2, <2>3
<1>3. caller' \in [Callers -> CallerType]
  BY <1>1, <1>2
<1>4. /\ cache' \in [ver : Nat, left : 0..CacheTTL] /\ cache'.ver = cache.ver
      /\ cache.left > 0 => cache'.left = cache.left - 1
      /\ cache.left = 0 => cache'.left = 0
      /\ cache.left \in 0..CacheTTL
  BY <1>t, BoundAssumption DEF Elapse
<1>5. past' \in [0..Window -> Nat] /\ past'[0] = Len(vault) /\ Len(vault) \in Nat
      /\ \A i \in 0..Window : i > 0 => past'[i] = past[i - 1] /\ i - 1 \in 0..Window
  BY <1>p, <1>n, WindowSize
<1>6. TypeOK'
  <2>1. token' \in 0..TokenLife
    BY <1>t, BoundAssumption DEF Elapse
  <2> QED
    BY <1>0, <1>u, <1>3, <1>4, <1>5, <2>1 DEF TypeOK, CallerType
<1>7. \A i \in 0..Window : past[i] <= Len(vault) /\ past[i] \in Nat
  <2>1. 0 \in 0..Window /\ \A i \in 0..Window : 0 <= i /\ past[i] \in Nat
    BY <1>p, WindowSize
  <2>2. \A i \in 0..Window : past[i] <= past[0]
    BY <1>0, <2>1 DEF Growing
  <2>3. past[0] <= Len(vault)
    BY <1>0 DEF Growing
  <2> QED
    BY <1>n, <2>1, <2>2, <2>3
<1>8. Growing'
  <2> SUFFICES ASSUME NEW i \in 0..Window, NEW j \in 0..Window, i <= j
               PROVE  past'[j] <= past'[i]
    BY <1>u, <1>5 DEF Growing
  <2>1. CASE i = 0
    BY <1>5, <1>7, <2>1
  <2>2. CASE i > 0
    <3>1. j > 0 /\ i - 1 <= j - 1
      BY <2>2
    <3> QED
      BY <1>0, <1>5, <2>2, <3>1 DEF Growing
  <2> QED
    BY <2>1, <2>2
<1>9. CacheRevision'
  <2>1. ASSUME cache'.left > 0
        PROVE  past'[CacheTTL - cache'.left + Transfer] <= cache'.ver
    <3>1. cache.left > 0 /\ cache'.left = cache.left - 1
      BY <1>4, <2>1
    <3> DEFINE i == CacheTTL - cache.left + Transfer
    <3>2. /\ CacheTTL - cache'.left + Transfer = i + 1 /\ i + 1 \in 0..Window
          /\ i + 1 > 0 /\ (i + 1) - 1 = i
      BY <1>4, <2>1, <3>1, BoundAssumption DEF Window
    <3> HIDE DEF i
    <3>3. past'[i + 1] = past[i]
      BY <1>5, <3>2
    <3>4. past[i] <= cache.ver
      BY <1>0, <3>1 DEF CacheRevision, i
    <3> QED
      BY <1>4, <3>2, <3>3, <3>4
  <2> QED
    BY <1>0, <1>u, <1>4, <2>1 DEF CacheRevision
<1>10. CallerRevisions'
  <2> SUFFICES ASSUME NEW c \in Callers
               PROVE  /\ caller'[c].floor <= past'[Window]
                      /\ caller'[c].seen <= served'
                      /\ caller'[c].pc = "decrypt" =>
                           /\ cache'.ver <= caller'[c].reply
                           /\ caller'[c].reply <= Len(vault')
                           /\ past'[caller'[c].age] <= caller'[c].reply
                      /\ caller'[c].pc = "find" => caller'[c].floor <= cache'.ver
    BY DEF CallerRevisions
  <2>1. past[Window] <= past'[Window]
    <3>1. CASE Window = 0
      BY <1>5, <1>7, <3>1
    <3>2. CASE Window > 0
      <4>1. past'[Window] = past[Window - 1] /\ Window - 1 \in 0..Window /\ Window \in 0..Window
        BY <1>5, <3>2, WindowSize
      <4> QED
        BY <1>0, <3>2, <4>1, WindowSize DEF Growing
    <3> QED
      BY <3>1, <3>2, WindowSize
  <2>2. caller[c].floor \in Nat /\ past[Window] \in Nat /\ past'[Window] \in Nat
    BY <1>0, <1>5, WindowSize DEF TypeOK
  <2>3. ASSUME caller[c].pc = "decrypt" PROVE past'[caller'[c].age] <= caller'[c].reply
    <3>1. /\ caller'[c].age = caller[c].age + 1 /\ caller[c].age < Transfer
          /\ caller[c].age \in Nat
      BY <1>0, <1>2, <2>3 DEF TypeOK
    <3>2. caller[c].age + 1 \in 0..Window /\ (caller[c].age + 1) - 1 = caller[c].age
      BY <3>1, WindowSize
    <3>3. past'[caller[c].age + 1] = past[caller[c].age]
      BY <1>5, <3>1, <3>2
    <3> QED
      BY <1>0, <1>2, <2>3, <3>1, <3>3 DEF CallerRevisions
  <2> QED
    BY <1>0, <1>u, <1>2, <1>4, <2>1, <2>2, <2>3 DEF CallerRevisions
<1>11. Locked' /\ FreshEnough' /\ NeverBackwards'
  BY <1>u, <1>2 DEF CacheInv, Locked, FreshEnough, NeverBackwards, FromCache
<1> QED
  BY <1>6, <1>8, <1>9, <1>10, <1>11 DEF CacheInv

(* A call begins, the first time or again.                                  *)
LEMMA EnterKeeps ==
    ASSUME CacheInv, NEW c \in Callers, NEW ref \in Ref \cup {NoRef}, Enter(c, ref),
           caller[c].pc = "idle",
           UNCHANGED <<server, client, mu, ghosts, shutdown, bounds>>
    PROVE  CacheInv'
<1> DEFINE r == [caller[c] EXCEPT !.pc = "lock", !.ref = ref, !.seen = served]
<1>0. TypeOK /\ Locked /\ FreshEnough /\ NeverBackwards
  BY DEF CacheInv
<1>1. served \in Nat /\ past[Window] \in Nat
  BY <1>0, WindowSize DEF TypeOK
<1>2. r \in CallerType /\ r.pc = "lock" /\ r.floor = caller[c].floor /\ r.seen = served
  <2>1. caller[c] \in CallerType
    BY <1>0 DEF TypeOK, CallerType
  <2> QED
    BY <1>1, <2>1 DEF CallerType
<1>3. caller' = [caller EXCEPT ![c] = r] /\ result' = [result EXCEPT ![c] = NoResult]
  BY DEF Enter
<1> HIDE DEF r
<1>4. /\ caller' \in [Callers -> CallerType]
      /\ \A d \in Callers : caller'[d] = IF d = c THEN r ELSE caller[d]
  BY <1>0, <1>2, <1>3, CallerMoves
<1>5. NoResult.ver = 0
  BY DEF NoResult
<1>6. result' \in [Callers -> ResultType] /\ FreshEnough' /\ NeverBackwards'
  BY <1>0, <1>3, <1>5, AnswerStored, RecordTypes
<1>7. TypeOK'
  BY <1>0, <1>4, <1>6 DEF TypeOK, CallerType, ResultType, server, client, ghosts, bounds
<1>8. Locked'
  BY <1>0, <1>2, <1>4 DEF Locked
<1>9. CallerRevisions'
  BY <1>1, <1>2, <1>4 DEF CacheInv, CallerRevisions, server, client, ghosts
<1>10. Growing' /\ CacheRevision'
  BY DEF CacheInv, Growing, CacheRevision, server, client, ghosts
<1> QED
  BY <1>6, <1>7, <1>8, <1>9, <1>10 DEF CacheInv

(* A path that does not parse is answered at once.                          *)
LEMMA CallKeeps ==
    ASSUME CacheInv, NEW c \in Callers, NEW text \in Texts, Call(c, text)
    PROVE  CacheInv'
<1>1. CASE ParseReference(text) # NoRef
  <2>1. /\ Enter(c, ParseReference(text)) /\ caller[c].pc = "idle"
        /\ UNCHANGED <<server, client, mu, ghosts, shutdown, bounds>>
    BY <1>1, Zenon DEF Call
  <2>2. ParseReference(text) \in Ref \cup {NoRef}
    BY ParseType
  <2> QED
    BY <2>1, <2>2, EnterKeeps, Zenon
<1>2. CASE ParseReference(text) = NoRef
  <2> DEFINE r == [NoResult EXCEPT !.kind = "invalid"]
  <2>0. TypeOK /\ FreshEnough /\ NeverBackwards
    BY DEF CacheInv
  <2>1. r \in ResultType /\ r.ver = 0
    BY RecordTypes DEF NoResult, ResultType, Kinds
  <2>2. /\ result' = [result EXCEPT ![c] = r]
        /\ UNCHANGED <<caller, server, client, mu, ghosts, shutdown, bounds>>
    BY <1>2 DEF Call
  <2> HIDE DEF r
  <2>3. result' \in [Callers -> ResultType] /\ FreshEnough' /\ NeverBackwards'
    BY <2>0, <2>1, <2>2, AnswerStored
  <2>4. TypeOK'
    BY <2>0, <2>2, <2>3 DEF TypeOK, ResultType, server, client, ghosts, bounds
  <2>5. Locked' /\ Growing' /\ CacheRevision' /\ CallerRevisions'
    BY <2>2 DEF CacheInv, Locked, Growing, CacheRevision, CallerRevisions, server,
                client, ghosts
  <2> QED
    BY <2>3, <2>4, <2>5 DEF CacheInv
<1> QED
  BY <1>1, <1>2

(* A caller gets the mutex and looks at the cache.                          *)
LEMMA LockKeeps == ASSUME CacheInv, NEW c \in Callers, Lock(c) PROVE CacheInv'
<1> DEFINE pc == IF NeedsLogin THEN "prelogin" ELSE "find"
           r == [caller[c] EXCEPT !.pc = pc, !.floor = past[Window]]
<1>0. TypeOK /\ Locked /\ Growing /\ CacheRevision /\ CallerRevisions
  BY DEF CacheInv
<1>1. /\ mu = Nobody /\ mu' = IF NeedsLogin THEN c ELSE mu
      /\ caller' = [caller EXCEPT ![c] = r]
      /\ UNCHANGED <<server, client, result, ghosts, shutdown, bounds>>
  BY DEF Lock, MutexFree
<1>2. past[Window] \in Nat /\ caller[c] \in CallerType /\ cache.left \in 0..CacheTTL
      /\ cache.ver \in Nat
  BY <1>0, WindowSize DEF TypeOK, CallerType
<1>3. r \in CallerType /\ r.pc = pc /\ r.floor = past[Window] /\ r.seen = caller[c].seen
  BY <1>2 DEF CallerType
<1>4. /\ caller' \in [Callers -> CallerType]
      /\ \A d \in Callers : caller'[d] = IF d = c THEN r ELSE caller[d]
  <2> HIDE DEF r
  <2> QED
    BY <1>0, <1>1, <1>3, CallerMoves
<1>5. ASSUME ~NeedsLogin PROVE past[Window] <= cache.ver
  <2>1. cache.left > 0
    BY <1>5 DEF NeedsLogin, IsCacheValid
  <2> DEFINE i == CacheTTL - cache.left + Transfer
  <2>2. i \in 0..Window /\ Window \in 0..Window /\ i <= Window
    BY <1>2, <2>1, BoundAssumption DEF Window
  <2>3. past[i] <= cache.ver
    BY <1>0, <2>1 DEF CacheRevision
  <2> HIDE DEF i
  <2>4. past[Window] <= past[i] /\ past[i] \in Nat
    BY <1>0, <2>2 DEF Growing, TypeOK
  <2> QED
    BY <1>2, <2>3, <2>4
<1> HIDE DEF r
<1>6. TypeOK'
  <2>1. mu' \in Callers \cup {Nobody}
    BY <1>1
  <2> QED
    BY <1>0, <1>1, <1>4, <2>1 DEF TypeOK, CallerType, server, client, ghosts, bounds
<1>7. Locked'
  BY <1>0, <1>1, <1>3, <1>4, NameAssumption DEF Locked
<1>8. CallerRevisions'
  BY <1>0, <1>1, <1>2, <1>3, <1>4, <1>5 DEF CallerRevisions, server, client, ghosts
<1>9. Growing' /\ CacheRevision' /\ FreshEnough' /\ NeverBackwards'
  BY <1>1 DEF CacheInv, Growing, CacheRevision, FreshEnough, NeverBackwards, FromCache,
              server, client, ghosts
<1> QED
  BY <1>6, <1>7, <1>8, <1>9 DEF CacheInv

(* The caller inside Authenticate is the holder of the mutex.               *)
LEMMA Holder ==
    ASSUME CacheInv, NEW c \in Callers,
           caller[c].pc \in {"prelogin", "login", "sync", "backoff", "decrypt"}
    PROVE  /\ mu = c /\ caller[c] \in CallerType
           /\ \A d \in Callers : d # c =>
                caller[d].pc \notin {"prelogin", "login", "sync", "backoff", "decrypt"}
<1>1. TypeOK /\ Locked
  BY DEF CacheInv
<1>2. caller[c] \in CallerType
  BY <1>1 DEF TypeOK, CallerType
<1> QED
  BY <1>1, <1>2 DEF Locked

(* Prelogin, Login and the retries of SyncVault.                            *)
LEMMA LoginKeeps ==
    ASSUME CacheInv, NEW c \in Callers, Prelogin(c) \/ Login(c) PROVE CacheInv'
<1> DEFINE pc == IF caller[c].pc = "prelogin" THEN "login" ELSE "sync"
           r == [caller[c] EXCEPT !.pc = pc]
<1>0. TypeOK
  BY DEF CacheInv
<1>1. /\ caller[c].pc \in {"prelogin", "login"}
      /\ caller' = [caller EXCEPT ![c] = r]
      /\ UNCHANGED <<vault, key, cred, kdf, cache, mu, result, past, served, shutdown,
                     edits, faults>>
  <2>1. CASE Prelogin(c)
    BY <2>1 DEF Prelogin, Advance, server, ghosts, bounds
  <2>2. CASE Login(c)
    BY <2>2 DEF Login, Advance, server, ghosts, bounds
  <2> QED
    BY <2>1, <2>2
<1>2. mu = c /\ caller[c] \in CallerType
  BY <1>1, Holder
<1>3. /\ r \in CallerType /\ r.pc \in {"login", "sync", "backoff"}
      /\ r.floor = caller[c].floor /\ r.seen = caller[c].seen
  BY <1>1, <1>2 DEF CallerType
<1> HIDE DEF r
<1>4. caller' \in [Callers -> CallerType] /\ (TypeOK' => CacheInv')
  BY <1>1, <1>2, <1>3, HolderMoves
<1>5. master' \in Nat /\ symKey' \in Nat /\ token' \in 0..TokenLife
  <2>1. /\ master' = master \/ master' = cred
        /\ symKey' = symKey \/ symKey' = key
        /\ token' = token \/ token' = TokenLife
    <3>1. CASE Prelogin(c)
      BY <3>1 DEF Prelogin
    <3>2. CASE Login(c)
      BY <3>2 DEF Login
    <3> QED
      BY <3>1, <3>2
  <2>2. /\ master \in Nat /\ cred \in Nat /\ symKey \in Nat /\ key \in Nat
        /\ token \in 0..TokenLife /\ TokenLife \in 0..TokenLife
    BY <1>0, BoundAssumption DEF TypeOK
  <2> QED
    BY <2>1, <2>2
<1>6. TypeOK'
  BY <1>0, <1>1, <1>4, <1>5 DEF TypeOK, CallerType
<1> QED
  BY <1>4, <1>6

(* Every way in which Authenticate gives up.                                *)
LEMMA FailKeeps ==
    ASSUME CacheInv, NEW c \in Callers, Fail(c),
           caller[c].pc \in {"prelogin", "login", "sync", "backoff", "decrypt"},
           token' \in 0..TokenLife, faults' \in 0..MaxFaults,
           UNCHANGED <<server, master, symKey, cache, ghosts, shutdown, edits>>
    PROVE  CacheInv'
<1>0. TypeOK
  BY DEF CacheInv
<1>1. mu = c
  BY Holder
<1>2. UNCHANGED <<vault, key, cred, kdf, master, symKey, cache, past, served, shutdown,
                  edits>>
  BY DEF server, ghosts
<1>3. /\ caller' \in [Callers -> CallerType] /\ result' \in [Callers -> ResultType]
      /\ mu' = Nobody /\ (TypeOK' => CacheInv')
  BY <1>1, <1>2, HolderFails
<1>4. TypeOK'
  BY <1>0, <1>2, <1>3 DEF TypeOK, CallerType, ResultType
<1> QED
  BY <1>3, <1>4

(* A request that fails keeps the fault counter within its bound.           *)
LEMMA FaultBound ==
    ASSUME TypeOK, RequestFails \/ Fault \/ UNCHANGED faults
    PROVE  faults' \in 0..MaxFaults
<1>1. faults \in 0..MaxFaults
  BY DEF TypeOK
<1>2. MaxFaults \in Nat
  BY BoundAssumption
<1>3. faults' = faults \/ (faults < MaxFaults /\ faults' = faults + 1)
  BY DEF RequestFails, Fault
<1> QED
  BY ONLY <1>1, <1>2, <1>3

(* The failures of Prelogin, Login and SyncVault.                           *)
LEMMA GiveUpKeeps ==
    ASSUME CacheInv, NEW c \in Callers,
           PreloginFails(c) \/ LoginFails(c) \/ SyncRefused(c)
    PROVE  CacheInv'
<1>0. TypeOK
  BY DEF CacheInv
<1>1. RequestFails \/ Fault \/ UNCHANGED faults
  BY DEF PreloginFails, LoginFails, SyncRefused
<1>2. token' \in 0..TokenLife
  <2>1. token' = token \/ token' = TokenLife
    BY DEF PreloginFails, LoginFails, SyncRefused, client
  <2>2. token \in 0..TokenLife /\ TokenLife \in 0..TokenLife
    BY <1>0, BoundAssumption DEF TypeOK
  <2> QED
    BY <2>1, <2>2
<1>3. /\ Fail(c) /\ caller[c].pc \in {"prelogin", "login", "sync"}
      /\ UNCHANGED <<server, master, symKey, cache, ghosts, shutdown, edits>>
  BY DEF PreloginFails, LoginFails, SyncRefused, client
<1>4. faults' \in 0..MaxFaults
  BY <1>0, <1>1, FaultBound
<1> QED
  BY <1>2, <1>3, <1>4, FailKeeps

(* A retry of SyncVault, and the sleep before it.                           *)
LEMMA RetryKeeps ==
    ASSUME CacheInv, NEW c \in Callers, SyncFails(c) \/ BackoffSleep(c)
    PROVE  CacheInv'
<1>0. TypeOK
  BY DEF CacheInv
<1>1. /\ caller[c].pc \in {"sync", "backoff"} /\ (RequestFails \/ UNCHANGED faults)
      /\ UNCHANGED <<vault, key, cred, kdf, master, symKey, token, cache, past, served,
                     shutdown, edits>>
  BY DEF SyncFails, BackoffSleep, server, client, ghosts, bounds
<1>2. faults' \in 0..MaxFaults
  BY <1>0, <1>1, FaultBound
<1>3. mu = c /\ caller[c] \in CallerType /\ token \in 0..TokenLife
  BY <1>0, <1>1, Holder DEF TypeOK
<1>4. CASE Fail(c)
  BY <1>1, <1>2, <1>3, <1>4, FailKeeps DEF server, ghosts
<1>5. CASE ~Fail(c)
  <2> DEFINE up == [caller[c] EXCEPT !.pc = "backoff", !.attempt = @ + 1]
             again == [caller[c] EXCEPT !.pc = "sync"]
  <2>1. \/ /\ SyncFails(c) /\ caller[c].attempt < MaxRetries
           /\ caller' = [caller EXCEPT ![c] = up]
        \/ /\ BackoffSleep(c) /\ caller' = [caller EXCEPT ![c] = again]
    BY <1>5 DEF SyncFails, BackoffSleep, Advance
  <2>2. UNCHANGED <<mu, result>>
    BY <1>5 DEF SyncFails, BackoffSleep
  <2>3. /\ again \in CallerType /\ again.pc = "sync"
        /\ again.floor = caller[c].floor /\ again.seen = caller[c].seen
    BY <1>3 DEF CallerType
  <2>4. caller[c].attempt < MaxRetries =>
          /\ up \in CallerType /\ up.pc = "backoff"
          /\ up.floor = caller[c].floor /\ up.seen = caller[c].seen
    <3> SUFFICES ASSUME caller[c].attempt < MaxRetries
                 PROVE  /\ up \in CallerType /\ up.pc = "backoff"
                        /\ up.floor = caller[c].floor /\ up.seen = caller[c].seen
      OBVIOUS
    <3>1. caller[c].attempt + 1 \in 0..MaxRetries
      BY <1>3, BoundAssumption DEF CallerType
    <3> QED
      BY <1>3, <3>1 DEF CallerType
  <2> HIDE DEF up, again
  <2>5. \E r \in CallerType : /\ r.pc \in {"login", "sync", "backoff"}
                              /\ r.floor = caller[c].floor /\ r.seen = caller[c].seen
                              /\ caller' = [caller EXCEPT ![c] = r]
    BY <2>1, <2>3, <2>4
  <2>6. caller' \in [Callers -> CallerType] /\ (TypeOK' => CacheInv')
    BY <1>1, <1>3, <2>2, <2>5, HolderMoves
  <2>7. TypeOK'
    BY <1>0, <1>1, <1>2, <2>2, <2>6 DEF TypeOK, CallerType
  <2> QED
    BY <2>6, <2>7
<1> QED
  BY <1>4, <1>5

(* The server answers with its current revision, at least the cached one.   *)
LEMMA SyncKeeps == ASSUME CacheInv, NEW c \in Callers, Sync(c) PROVE CacheInv'
<1> DEFINE r == [caller[c] EXCEPT !.pc = "decrypt", !.reply = Len(vault),
                                  !.replyKey = key, !.age = 0]
<1>0. TypeOK /\ Locked /\ Growing /\ CacheRevision /\ CallerRevisions
  BY DEF CacheInv
<1>1. /\ caller[c].pc = "sync" /\ caller' = [caller EXCEPT ![c] = r]
      /\ UNCHANGED <<server, client, mu, result, ghosts, shutdown, bounds>>
  BY DEF Sync
<1>2. mu = c /\ caller[c] \in CallerType
  BY <1>1, Holder
<1>3. Len(vault) \in Nat /\ key \in Nat /\ 0 \in 0..Transfer /\ 0 \in Nat
  <2>1. vault \in Seq(Contents) /\ key \in Nat
    BY <1>0 DEF TypeOK
  <2> QED
    BY <2>1, BoundAssumption
<1>4. /\ r \in CallerType /\ r.pc = "decrypt" /\ r.reply = Len(vault) /\ r.age = 0
      /\ r.floor = caller[c].floor /\ r.seen = caller[c].seen
  BY <1>2, <1>3 DEF CallerType
<1> HIDE DEF r
<1>5. /\ caller' \in [Callers -> CallerType]
      /\ \A d \in Callers : caller'[d] = IF d = c THEN r ELSE caller[d]
  BY <1>0, <1>1, <1>4, CallerMoves
<1>6. TypeOK'
  BY <1>0, <1>1, <1>5 DEF TypeOK, CallerType, server, client, ghosts, bounds
<1>7. Locked'
  BY <1>0, <1>1, <1>2, <1>4, <1>5 DEF Locked
<1>8. CallerRevisions'
  <2>1. past[0] <= Len(vault) /\ cache.ver <= Len(vault)
    BY <1>0 DEF Growing, CacheRevision
  <2> QED
    BY <1>0, <1>1, <1>3, <1>4, <1>5, <2>1 DEF CallerRevisions, server, client, ghosts
<1>9. Growing' /\ CacheRevision' /\ FreshEnough' /\ NeverBackwards'
  BY <1>1 DEF CacheInv, Growing, CacheRevision, FreshEnough, NeverBackwards, FromCache,
              server, client, ghosts
<1> QED
  BY <1>6, <1>7, <1>8, <1>9 DEF CacheInv

(* The downloaded revision replaces the cache, or the call gives up.        *)
LEMMA DecryptKeeps == ASSUME CacheInv, NEW c \in Callers, Decrypt(c) PROVE CacheInv'
<1>0. TypeOK /\ Locked /\ Growing /\ CacheRevision /\ CallerRevisions
  BY DEF CacheInv
<1>1. caller[c].pc = "decrypt"
  BY DEF Decrypt
<1>2. /\ mu = c /\ caller[c] \in CallerType
      /\ \A d \in Callers : d # c =>
           caller[d].pc \notin {"prelogin", "login", "sync", "backoff", "decrypt"}
  BY <1>1, Holder
<1>3. CASE Fail(c) /\ UNCHANGED cache
  <2>1. UNCHANGED <<server, master, symKey, token, ghosts, shutdown, edits, faults>>
    BY DEF Decrypt, bounds
  <2>2. token' \in 0..TokenLife /\ faults' \in 0..MaxFaults
    BY <1>0, <2>1 DEF TypeOK
  <2> QED
    BY <1>1, <1>3, <2>1, <2>2, FailKeeps
<1>4. CASE ~(Fail(c) /\ UNCHANGED cache)
  <2> DEFINE r == [caller[c] EXCEPT !.pc = "find", !.attempt = 0, !.reply = 0,
                                    !.replyKey = 0, !.age = 0]
             v == caller[c].reply
  <2>1. /\ cache' = [ver |-> v, left |-> CacheTTL] /\ mu' = Nobody
        /\ caller' = [caller EXCEPT ![c] = r]
        /\ UNCHANGED <<server, master, symKey, token, result, ghosts, shutdown, bounds>>
    BY <1>4 DEF Decrypt, Unlock
  <2>2. 0 \in 0..MaxRetries /\ 0 \in 0..Transfer /\ 0 \in Nat
    BY BoundAssumption
  <2>3. /\ r \in CallerType /\ r.pc = "find"
        /\ r.floor = caller[c].floor /\ r.seen = caller[c].seen
    BY <1>2, <2>2 DEF CallerType
  <2> HIDE DEF r
  <2>4. /\ caller' \in [Callers -> CallerType]
        /\ \A d \in Callers : caller'[d] = IF d = c THEN r ELSE caller[d]
    BY <1>0, <2>1, <2>3, CallerMoves
  <2>5. /\ cache.ver <= v /\ v <= Len(vault) /\ past[caller[c].age] <= v
        /\ v \in Nat /\ cache.ver \in Nat /\ served \in Nat /\ 1 <= cache.ver
        /\ served <= cache.ver /\ caller[c].age \in 0..Transfer
    BY <1>0, <1>1, <1>2 DEF CallerRevisions, CacheRevision, TypeOK, CallerType
  <2>6. past[Transfer] <= v /\ past[Window] <= v
    <3>1. /\ caller[c].age \in 0..Window /\ Transfer \in 0..Window /\ Window \in 0..Window
          /\ caller[c].age <= Transfer /\ caller[c].age <= Window
      BY <2>5, WindowSize
    <3>2. past[Transfer] <= past[caller[c].age] /\ past[Window] <= past[caller[c].age]
      BY <1>0, <3>1 DEF Growing
    <3>3. past[Transfer] \in Nat /\ past[Window] \in Nat /\ past[caller[c].age] \in Nat
      BY <1>0, <3>1 DEF TypeOK
    <3> QED
      BY <2>5, <3>2, <3>3
  <2>7. /\ cache' \in [ver : Nat, left : 0..CacheTTL]
        /\ cache'.ver = v /\ cache'.left = CacheTTL
    BY <2>1, <2>5, BoundAssumption
  <2> HIDE DEF v
  <2>8. TypeOK'
    BY <1>0, <2>1, <2>4, <2>7 DEF TypeOK, CallerType, server, ghosts, bounds
  <2>9. Locked'
    BY <1>0, <1>2, <2>1, <2>3, <2>4, NameAssumption DEF Locked
  <2>10. CacheRevision'
    <3>1. CacheTTL - cache'.left + Transfer = Transfer
      BY <2>7, BoundAssumption
    <3> QED
      BY <2>1, <2>5, <2>6, <2>7, <3>1 DEF CacheRevision, server, ghosts
  <2>11. CallerRevisions'
    <3>1. \A d \in Callers : /\ caller[d].floor \in Nat /\ caller[d].floor <= past[Window]
                             /\ caller[d].seen <= served
                             /\ d # c => caller[d].pc # "decrypt"
      BY <1>0, <1>2 DEF CallerRevisions, TypeOK
    <3>2. past[Window] \in Nat
      BY <1>0, WindowSize DEF TypeOK
    <3>3. \A d \in Callers : caller[d].floor <= v
      BY <2>5, <2>6, <3>1, <3>2
    <3>4. UNCHANGED <<vault, past, served>>
      BY <2>1 DEF server, ghosts
    <3> QED
      BY <2>3, <2>4, <2>7, <3>1, <3>3, <3>4 DEF CallerRevisions
  <2>12. Growing' /\ FreshEnough' /\ NeverBackwards'
    BY <2>1 DEF CacheInv, Growing, FreshEnough, NeverBackwards, FromCache, server, ghosts
  <2> QED
    BY <2>8, <2>9, <2>10, <2>11, <2>12 DEF CacheInv
<1> QED
  BY <1>3, <1>4

(* ToSecretMap gives every name a name or the empty string.                 *)
LEMMA SecretMapType ==
    ASSUME NEW entries PROVE ToSecretMap(entries) \in [Names -> Names \cup {Empty}]
<1> DEFINE Last(n, v) == \E i \in DOMAIN entries :
                           /\ entries[i] = [name |-> n, value |-> v]
                           /\ \A j \in (i + 1)..Len(entries) :
                                entries[j].name = n => entries[j].value = Empty
           Value(n) == IF \E v \in Names : Last(n, v)
                       THEN CHOOSE v \in Names : Last(n, v) ELSE Empty
<1>1. ToSecretMap(entries) = [n \in Names |-> Value(n)]
  BY DEF ToSecretMap
<1> HIDE DEF Last
<1>2. \A n \in Names : Value(n) \in Names \cup {Empty}
  OBVIOUS
<1> HIDE DEF Value
<1> QED
  BY <1>1, <1>2

(* Find returns from the revision in the cache.                             *)
LEMMA FindReturns ==
    ASSUME NEW c \in Callers, Find(c)
    PROVE  \E kind \in Kinds, fields \in [Names -> Names \cup {Empty}] :
             Return(c, kind, cache.ver, fields)
<1> DEFINE content == vault[cache.ver]
           ref == caller[c].ref
           Fields == [Names -> Names \cup {Empty}]
           Goal == \E kind \in Kinds, fields \in Fields :
                       Return(c, kind, cache.ver, fields)
<1>1. Absent \in Fields
  BY RecordTypes
<1>2. \A words : Verdict(words) \in Kinds
  BY DEF Verdict, WrapError, Kinds
<1>3. {"empty", "field", "ok"} \subseteq Kinds
  BY DEF Kinds
<1>4. CASE \E words : Return(c, Verdict(words), cache.ver, Absent)
  BY <1>1, <1>2, <1>4
<1>5. ASSUME NEW id \in FoldersNamed(content, ref.folder),
             NEW item \in ItemsFound(content, id, ref.item),
             LET secrets == ToSecretMap(item.entries) IN
             IF secrets = Absent THEN Return(c, "empty", cache.ver, Absent)
             ELSE IF ref.field = Empty THEN Return(c, "ok", cache.ver, secrets)
             ELSE IF secrets[ref.field] = Empty THEN Return(c, "field", cache.ver, Absent)
             ELSE Return(c, "ok", cache.ver,
                         [Absent EXCEPT ![ref.field] = secrets[ref.field]])
      PROVE Goal
  <2> DEFINE secrets == ToSecretMap(item.entries)
             one == [Absent EXCEPT ![ref.field] = secrets[ref.field]]
  <2>1. secrets \in Fields
    BY SecretMapType
  <2> HIDE DEF secrets
  <2>2. one \in Fields
    BY <1>1, <2>1
  <2> HIDE DEF one
  <2>3. \/ Return(c, "empty", cache.ver, Absent) \/ Return(c, "ok", cache.ver, secrets)
        \/ Return(c, "field", cache.ver, Absent) \/ Return(c, "ok", cache.ver, one)
    BY <1>5, Zenon DEF secrets, one
  <2> QED
    BY <1>1, <1>3, <2>1, <2>2, <2>3
<1>6. \/ \E words : Return(c, Verdict(words), cache.ver, Absent)
      \/ \E id \in FoldersNamed(content, ref.folder) :
           \E item \in ItemsFound(content, id, ref.item) :
             LET secrets == ToSecretMap(item.entries) IN
             IF secrets = Absent THEN Return(c, "empty", cache.ver, Absent)
             ELSE IF ref.field = Empty THEN Return(c, "ok", cache.ver, secrets)
             ELSE IF secrets[ref.field] = Empty THEN Return(c, "field", cache.ver, Absent)
             ELSE Return(c, "ok", cache.ver,
                         [Absent EXCEPT ![ref.field] = secrets[ref.field]])
  BY Zenon DEF Find
<1> QED
  BY <1>4, <1>5, <1>6, Zenon

(* A lookup returns what the caller is owed.                                *)
LEMMA FindKeeps == ASSUME CacheInv, NEW c \in Callers, Find(c) PROVE CacheInv'
<1>0. TypeOK /\ Locked /\ CacheRevision /\ CallerRevisions /\ FreshEnough /\ NeverBackwards
  BY DEF CacheInv
<1>1. PICK kind \in Kinds, fields \in [Names -> Names \cup {Empty}] :
        Return(c, kind, cache.ver, fields)
  BY FindReturns
<1> DEFINE r == [kind |-> kind, ref |-> caller[c].ref, ver |-> cache.ver,
                 fields |-> fields, floor |-> caller[c].floor, seen |-> caller[c].seen]
<1>2. /\ caller[c].pc = "find" /\ caller' = [caller EXCEPT ![c] = Idle]
      /\ result' = [result EXCEPT ![c] = r]
  BY <1>1 DEF Find, Return
<1>3. /\ served' = IF cache.ver > served THEN cache.ver ELSE served
      /\ UNCHANGED <<server, client, mu, past, shutdown, bounds>>
  BY DEF Find
<1>4. /\ served \in Nat /\ cache.ver \in Nat /\ served <= cache.ver
      /\ caller[c].floor <= cache.ver /\ caller[c].seen <= served
      /\ caller[c].seen \in Nat /\ caller[c].floor \in Nat
      /\ caller[c].ref \in Ref \cup {NoRef} /\ past[Window] \in Nat
  <2>1. caller[c].pc = "find"
    BY <1>2
  <2>2. /\ served \in Nat /\ cache.ver \in Nat /\ past[Window] \in Nat
        /\ caller[c].seen \in Nat /\ caller[c].floor \in Nat
        /\ caller[c].ref \in Ref \cup {NoRef}
    <3>1. TypeOK
      BY <1>0
    <3>2. served \in Nat /\ cache.ver \in Nat /\ past[Window] \in Nat
      BY <3>1, WindowSize DEF TypeOK
    <3>3. caller[c] \in CallerType
      BY <3>1 DEF TypeOK, CallerType
    <3> QED
      BY <3>2, <3>3 DEF CallerType
  <2>3. served <= cache.ver /\ caller[c].floor <= cache.ver /\ caller[c].seen <= served
    BY <1>0, <2>1 DEF CacheRevision, CallerRevisions
  <2> QED
    BY <2>2, <2>3
<1>5. served' \in Nat /\ served <= served' /\ served' <= cache.ver
  BY <1>3, <1>4
<1>6. /\ r \in ResultType
      /\ r.ver # 0 => r.floor <= r.ver /\ r.seen <= r.ver
  BY <1>4 DEF ResultType
<1> HIDE DEF r
<1>7. result' \in [Callers -> ResultType] /\ FreshEnough' /\ NeverBackwards'
  BY <1>0, <1>2, <1>6, AnswerStored
<1>8. /\ caller' \in [Callers -> CallerType]
      /\ \A d \in Callers : caller'[d] = IF d = c THEN Idle ELSE caller[d]
  BY <1>0, <1>2, CallerMoves, RecordTypes
<1>9. Idle.pc = "idle" /\ Idle.floor = 0 /\ Idle.seen = 0
  BY DEF Idle
<1>10. TypeOK'
  BY <1>0, <1>3, <1>5, <1>7, <1>8 DEF TypeOK, CallerType, ResultType, server, client, bounds
<1>11. Locked'
  BY <1>0, <1>2, <1>3, <1>8, <1>9 DEF Locked
<1>12. CallerRevisions'
  <2>1. \A d \in Callers : caller[d].seen \in Nat /\ caller[d].seen <= served
    BY <1>0 DEF TypeOK, CallerRevisions
  <2>2. \A d \in Callers : caller[d].seen <= served'
    BY <1>4, <1>5, <2>1
  <2> QED
    BY <1>0, <1>3, <1>4, <1>5, <1>8, <1>9, <2>2 DEF CallerRevisions, server, client
<1>13. Growing' /\ CacheRevision'
  BY <1>3, <1>5 DEF CacheInv, Growing, CacheRevision, server, client
<1> QED
  BY <1>7, <1>10, <1>11, <1>12, <1>13 DEF CacheInv

(* Every step keeps the invariant.                                          *)
LEMMA NextCache == CacheInv /\ [Next]_vars => CacheInv'
<1> SUFFICES ASSUME CacheInv, [Next]_vars PROVE CacheInv'
  OBVIOUS
<1>0. TypeOK
  BY DEF CacheInv
<1>1. CASE UNCHANGED vars
  <2>1. TypeOK'
    BY <1>0, <1>1 DEF TypeOK, vars, server, client, ghosts, bounds
  <2> QED
    BY <1>1, <2>1, InvStable DEF vars, server, client, ghosts
<1>2. CASE RotateKey
  <2>1. TypeOK'
    BY <1>0, <1>2, BoundAssumption DEF TypeOK, RotateKey, Edit, client, ghosts
  <2> QED
    BY <1>2, <2>1, InvStable DEF RotateKey, client, ghosts
<1>3. ASSUME NEW type \in {"pbkdf2", "argon2"}, ChangeKdf(type) PROVE CacheInv'
  <2>1. TypeOK'
    BY <1>0, <1>3, BoundAssumption DEF TypeOK, ChangeKdf, Edit, client, ghosts
  <2> QED
    BY <1>3, <2>1, InvStable DEF ChangeKdf, client, ghosts
<1>4. CASE Shutdown
  <2>1. shutdown' \in BOOLEAN
    BY <1>4 DEF Shutdown
  <2>2. TypeOK'
    BY <1>0, <1>4, <2>1 DEF TypeOK, Shutdown, server, client, ghosts, bounds
  <2> QED
    BY <1>4, <2>2, InvStable DEF Shutdown, server, client, ghosts
<1>5. ASSUME NEW c \in Callers, CallAgain(c) PROVE CacheInv'
  <2>1. result[c].ref \in Ref \cup {NoRef}
    BY <1>0 DEF TypeOK
  <2> QED
    BY <1>5, <2>1, EnterKeeps DEF CallAgain
<1>6. ASSUME NEW c \in Callers, Authenticate(c) PROVE CacheInv'
  BY <1>6, LoginKeeps, GiveUpKeeps, RetryKeeps, SyncKeeps, DecryptKeeps DEF Authenticate
<1>7. CASE Environment
  BY <1>2, <1>3, <1>4, <1>7, StoreKeeps, TickKeeps DEF Environment
<1> QED
  BY <1>1, <1>5, <1>6, <1>7, CallKeeps, LockKeeps, FindKeeps DEF Next

(* The invariant holds in every reachable state.                            *)
LEMMA CacheInvariant == Spec => []CacheInv
<1>1. Init => CacheInv
  BY InitCache
<1>2. CacheInv /\ [Next]_vars => CacheInv'
  BY NextCache
<1> QED
  BY <1>1, <1>2, PTL DEF Spec

(* Types are kept, the retry counter of SyncVault within maxRetries among   *)
(* them.                                                                    *)
THEOREM ProviderTypeCorrect == Spec => []TypeOK
<1>1. CacheInv => TypeOK
  BY DEF CacheInv
<1> QED
  BY <1>1, CacheInvariant, PTL

(* FetchSecret never returns anything older than one cache lifetime plus    *)
(* one download, for any number of callers, vault, lifetimes and retries.   *)
THEOREM StalenessIsBounded == Spec => []FreshEnough
<1>1. CacheInv => FreshEnough
  BY DEF CacheInv
<1> QED
  BY <1>1, CacheInvariant, PTL

(* The mutex around Authenticate makes reads monotonic: the cache is never  *)
(* replaced by an older revision of the vault.                              *)
THEOREM ReadsAreMonotonic == Spec => []NeverBackwards
<1>1. CacheInv => NeverBackwards
  BY DEF CacheInv
<1> QED
  BY <1>1, CacheInvariant, PTL
=============================================================================
