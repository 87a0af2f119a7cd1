-------------------------- MODULE BitwardenProvider --------------------------
(***************************************************************************)
(* FetchSecret of the Bitwarden provider (bitwarden.go) on its client       *)
(* (bitwarden_client.go): concurrent callers share one decrypted copy of    *)
(* the vault.  The caller that finds it expired logs in and downloads the   *)
(* vault again while it holds the provider's mutex; the lookup in the copy  *)
(* happens after the mutex is released.  The server, the account's owner    *)
(* and the clock move between any two steps.                                *)
(***************************************************************************)
EXTENDS Integers, Sequences, FiniteSets

CONSTANTS
    Callers,      \* goroutines inside FetchSecret
    Texts,        \* the paths they pass: [scheme, parts]
    FolderIds, Names,
    WordsIn,      \* Names -> the words of an error text that a name contains
    Contents,     \* what the owner may store: [folders, items, foreign]
    Empty,        \* the empty string
    BadEscape,    \* a path component that PathUnescape refuses
    Nobody, NoRef,
    CacheTTL,     \* cacheTTL, in ticks
    TokenLife,    \* expires_in of the login answer, in ticks
    Transfer,     \* ticks from the server's snapshot to the end of decryption
    MaxRetries,   \* maxRetries (3 in the code)
    MaxEdits,     \* bound: changes of the account and its vault
    MaxFaults     \* bound: failed requests

Ref == [folder : Names, item : Names, field : Names \cup {Empty}]
Item == [folder : FolderIds \cup {Empty}, name : Names,
         entries : Seq([name : Names, value : Names \cup {Empty}])]
Content == [folders : [FolderIds -> Names \cup {Empty}], items : Seq(Item),
            foreign : BOOLEAN]

ASSUME TextAssumption ==
    Texts \subseteq [scheme : BOOLEAN, parts : Seq(Names \cup {Empty, BadEscape})]
ASSUME NameAssumption ==
    /\ Empty \notin Names \cup FolderIds /\ BadEscape \notin Names \cup {Empty}
    /\ NoRef \notin Ref /\ Nobody \notin Callers
    /\ WordsIn \in [Names -> SUBSET STRING]
ASSUME ContentAssumption ==
    Contents \subseteq Content
ASSUME BoundAssumption ==
    /\ CacheTTL \in Nat \ {0} /\ TokenLife \in Nat /\ Transfer \in Nat
    /\ MaxRetries \in Nat /\ MaxEdits \in Nat /\ MaxFaults \in Nat

VARIABLES
    vault,     \* server: the contents of every revision so far
    key,       \* server: generation of the account's symmetric key
    cred,      \* server: generation of the account's KDF settings
    kdf,       \* server: KDF type, "pbkdf2" or "argon2"
    master,    \* client: KDF settings that masterKey was derived with
    symKey,    \* client: generation of symKey and symMac
    token,     \* client: ticks until tokenExpiry
    cache,     \* client: [ver, left] revision in the cache, ticks until expiry
    mu,        \* p.mu: its holder, or Nobody
    caller,    \* Callers -> the call in progress
    result,    \* Callers -> what the last call returned
    past,      \* history: revision current i ticks before the last tick
    served,    \* history: latest revision any call has returned from
    shutdown,  \* the manager's context is cancelled
    edits, faults

server  == <<vault, key, cred, kdf>>
client  == <<master, symKey, token, cache>>
ghosts  == <<past, served>>
bounds  == <<edits, faults>>
vars == <<server, client, mu, caller, result, ghosts, shutdown, bounds>>

Window == CacheTTL + Transfer - 1
Absent == [n \in Names |-> Empty]
Idle == [pc |-> "idle", ref |-> NoRef, floor |-> 0, seen |-> 0, attempt |-> 0,
         reply |-> 0, replyKey |-> 0, age |-> 0]
NoResult == [kind |-> "none", ref |-> NoRef, ver |-> 0, fields |-> Absent,
             floor |-> 0, seen |-> 0]

-----------------------------------------------------------------------------
(* ParseBitwardenReference and Validate: the reference with the non-empty    *)
(* components of the path, bw://folder/item[/field].                         *)
ParseReference(text) ==
    LET parts == SelectSeq(text.parts, LAMBDA p : p # Empty)
        Reads(ref) == parts = IF ref.field = Empty
                              THEN <<ref.folder, ref.item>>
                              ELSE <<ref.folder, ref.item, ref.field>> IN
    IF text.scheme /\ \E ref \in Ref : Reads(ref)
    THEN CHOOSE ref \in Ref : Reads(ref)
    ELSE NoRef

(* ToSecretMap: the non-empty entries of an item, written in the order login, *)
(* card, custom fields, notes; a later one replaces an earlier one.           *)
ToSecretMap(entries) ==
    LET Last(n, v) == \E i \in DOMAIN entries :
                        /\ entries[i] = [name |-> n, value |-> v]
                        /\ \A j \in (i + 1)..Len(entries) :
                             entries[j].name = n => entries[j].value = Empty IN
    [n \in Names |-> IF \E v \in Names : Last(n, v)
                     THEN CHOOSE v \in Names : Last(n, v) ELSE Empty]

\* The folders FindItem may settle on: it ranges over a map, in any order.
FoldersNamed(content, name) == {id \in FolderIds : content.folders[id] = name}

\* The first item of that name in the folder, if there is one.
ItemsFound(content, id, name) ==
    {content.items[i] : i \in {i \in DOMAIN content.items :
        /\ content.items[i].folder = id /\ content.items[i].name = name
        /\ \A j \in 1..(i - 1) : ~(/\ content.items[j].folder = id
                                   /\ content.items[j].name = name)}}

\* Words of the error texts of FindItem, which quote the names looked for.
FolderError(ref) == {"folder", "not found"} \cup WordsIn[ref.folder]
ItemError(ref) == {"item", "not found", "folder"}
                      \cup WordsIn[ref.folder] \cup WordsIn[ref.item]

IsBWRateLimited(words) == words \cap {"rate limit", "429", "too many requests"} # {}

WrapError(words) ==
    IF {"folder", "not found"} \subseteq words THEN "folder"
    ELSE IF {"item", "not found"} \subseteq words THEN "item"
    ELSE IF {"field", "not found"} \subseteq words THEN "field"
    ELSE "other"

Verdict(words) == IF IsBWRateLimited(words) THEN "ratelimited" ELSE WrapError(words)

-----------------------------------------------------------------------------
(* NewBitwardenProvider has authenticated: the program serves from here on.  *)
Init ==
    /\ vault \in {<<x>> : x \in {y \in Contents : ~y.foreign}}
    /\ key = 1 /\ cred = 1 /\ kdf = "pbkdf2"
    /\ master = 1 /\ symKey = 1
    /\ token = TokenLife
    /\ cache = [ver |-> 1, left |-> CacheTTL]
    /\ mu = Nobody
    /\ caller = [c \in Callers |-> Idle]
    /\ result = [c \in Callers |-> NoResult]
    /\ past = [i \in 0..Window |-> 1]
    /\ served = 0
    /\ shutdown = FALSE
    /\ edits = 0 /\ faults = 0

-----------------------------------------------------------------------------
(* The account's owner, the clock and the manager.                           *)

Edit == edits < MaxEdits /\ edits' = edits + 1
Fault == faults < MaxFaults /\ faults' = faults + 1

Store(content) ==
    /\ Edit
    /\ vault' = Append(vault, content)
    /\ UNCHANGED <<key, cred, kdf, client, mu, caller, result, ghosts, shutdown,
                   faults>>

\* A new symmetric key: the server keeps every item encrypted under it.
RotateKey ==
    /\ Edit
    /\ key' = key + 1
    /\ UNCHANGED <<vault, cred, kdf, client, mu, caller, result, ghosts,
                   shutdown, faults>>

ChangeKdf(type) ==
    /\ Edit
    /\ kdf' = type
    /\ cred' = cred + 1
    /\ UNCHANGED <<vault, key, client, mu, caller, result, ghosts, shutdown,
                   faults>>

Elapse(n) == IF n = 0 THEN 0 ELSE n - 1

\* A downloaded vault is decrypted within Transfer ticks of the snapshot.
Tick ==
    /\ \A c \in Callers : caller[c].pc = "decrypt" => caller[c].age < Transfer
    /\ caller' = [c \in Callers |-> IF caller[c].pc = "decrypt"
                                    THEN [caller[c] EXCEPT !.age = @ + 1]
                                    ELSE caller[c]]
    /\ token' = Elapse(token)
    /\ cache' = [cache EXCEPT !.left = Elapse(@)]
    /\ past' = [i \in 0..Window |-> IF i = 0 THEN Len(vault) ELSE past[i - 1]]
    /\ UNCHANGED <<server, master, symKey, mu, result, served, shutdown, bounds>>

Shutdown ==
    /\ ~shutdown
    /\ shutdown' = TRUE
    /\ UNCHANGED <<server, client, mu, caller, result, ghosts, bounds>>

-----------------------------------------------------------------------------
(* FetchSecret.                                                              *)

\* A valid reference goes on to p.mu.Lock().
Enter(c, ref) ==
    /\ caller' = [caller EXCEPT ![c].pc = "lock", ![c].ref = ref, ![c].seen = served]
    /\ result' = [result EXCEPT ![c] = NoResult]

Call(c, text) ==
    LET ref == ParseReference(text) IN
    /\ caller[c].pc = "idle"
    /\ \/ /\ ref = NoRef
          /\ result' = [result EXCEPT ![c] = [NoResult EXCEPT !.kind = "invalid"]]
          /\ UNCHANGED caller
       \/ /\ ref # NoRef
          /\ Enter(c, ref)
    /\ UNCHANGED <<server, client, mu, ghosts, shutdown, bounds>>

\* The reconciler calls again after a failure to authenticate.
CallAgain(c) ==
    /\ caller[c].pc = "idle" /\ result[c].kind = "auth" /\ ~shutdown
    /\ Enter(c, result[c].ref)
    /\ UNCHANGED <<server, client, mu, ghosts, shutdown, bounds>>

IsCacheValid == cache.left > 0
IsAuthenticated == token > 0

NeedsLoginWhenBothExpired == ~IsCacheValid /\ ~IsAuthenticated
NeedsLogin == ~IsCacheValid \/ ~IsAuthenticated

MutexIgnored == TRUE
MutexFree == mu = Nobody

\* The mutex is taken; it is given back at once when the cache can be used.
Lock(c) ==
    /\ caller[c].pc = "lock"
    /\ MutexFree
    /\ mu' = IF NeedsLogin THEN c ELSE mu
    /\ caller' = [caller EXCEPT ![c].pc = IF NeedsLogin THEN "prelogin" ELSE "find",
                                ![c].floor = past[Window]]
    /\ UNCHANGED <<server, client, result, ghosts, shutdown, bounds>>

Advance(c, pc) == caller' = [caller EXCEPT ![c].pc = pc]
Unlock == mu' = Nobody

Return(c, kind, ver, fields) ==
    /\ caller' = [caller EXCEPT ![c] = Idle]
    /\ result' = [result EXCEPT ![c] =
         [kind |-> kind, ref |-> caller[c].ref, ver |-> ver, fields |-> fields,
          floor |-> caller[c].floor, seen |-> caller[c].seen]]

FailKeepsLock(c) ==
    /\ UNCHANGED mu
    /\ Return(c, "auth", 0, Absent)

\* "failed to re-authenticate": the mutex is released before the return.
Fail(c) ==
    /\ Unlock
    /\ Return(c, "auth", 0, Absent)

\* A request fails, as every request does once the context is cancelled.
RequestFails == IF shutdown THEN UNCHANGED faults ELSE Fault

PreloginDerivesOnce(c) ==
    /\ caller[c].pc = "prelogin" /\ ~shutdown /\ kdf = "pbkdf2"
    /\ Advance(c, "login")
    /\ UNCHANGED <<server, client, mu, result, ghosts, shutdown, bounds>>

\* Prelogin and DeriveKeys.
Prelogin(c) ==
    /\ caller[c].pc = "prelogin" /\ ~shutdown /\ kdf = "pbkdf2"
    /\ master' = cred
    /\ Advance(c, "login")
    /\ UNCHANGED <<server, symKey, token, cache, mu, result, ghosts, shutdown,
                   bounds>>

PreloginFails(c) ==
    /\ caller[c].pc = "prelogin"
    /\ IF ~shutdown /\ kdf # "pbkdf2" THEN UNCHANGED faults ELSE RequestFails
    /\ Fail(c)
    /\ UNCHANGED <<server, client, ghosts, shutdown, edits>>

\* Login and DecryptSymmetricKey; the server checks the password hash.
Login(c) ==
    /\ caller[c].pc = "login" /\ ~shutdown /\ master = cred
    /\ token' = TokenLife
    /\ symKey' = key
    /\ Advance(c, "sync")
    /\ UNCHANGED <<server, master, cache, mu, result, ghosts, shutdown, bounds>>

\* Refused or failed; or the token is stored and its key cannot be decrypted.
LoginFails(c) ==
    /\ caller[c].pc = "login"
    /\ \/ /\ IF ~shutdown /\ master # cred THEN UNCHANGED faults ELSE RequestFails
          /\ UNCHANGED token
       \/ /\ ~shutdown /\ master = cred /\ Fault
          /\ token' = TokenLife
    /\ Fail(c)
    /\ UNCHANGED <<server, master, symKey, cache, ghosts, shutdown, edits>>

\* SyncVault: an answer with status 200 is a snapshot of the vault.
Sync(c) ==
    /\ caller[c].pc = "sync" /\ ~shutdown
    /\ caller' = [caller EXCEPT ![c].pc = "decrypt", ![c].reply = Len(vault),
                                ![c].replyKey = key, ![c].age = 0]
    /\ UNCHANGED <<server, client, mu, result, ghosts, shutdown, bounds>>

SyncFailsOneTooMany(c) ==
    /\ caller[c].pc = "sync"
    /\ RequestFails
    /\ IF caller[c].attempt <= MaxRetries
       THEN /\ caller' = [caller EXCEPT ![c].pc = "backoff", ![c].attempt = @ + 1]
            /\ UNCHANGED <<mu, result>>
       ELSE Fail(c)
    /\ UNCHANGED <<server, client, ghosts, shutdown, edits>>

\* A transport error, 429 or 5xx: retried until maxRetries retries are used up.
SyncFails(c) ==
    /\ caller[c].pc = "sync"
    /\ RequestFails
    /\ IF caller[c].attempt < MaxRetries
       THEN /\ caller' = [caller EXCEPT ![c].pc = "backoff", ![c].attempt = @ + 1]
            /\ UNCHANGED <<mu, result>>
       ELSE Fail(c)
    /\ UNCHANGED <<server, client, ghosts, shutdown, edits>>

\* Any other status, or an answer that is not JSON, ends the call.
SyncRefused(c) ==
    /\ caller[c].pc = "sync" /\ ~shutdown
    /\ Fault
    /\ Fail(c)
    /\ UNCHANGED <<server, client, ghosts, shutdown, edits>>

\* backoffSleep: the timer, or the cancelled context.
BackoffSleep(c) ==
    /\ caller[c].pc = "backoff"
    /\ \/ /\ ~shutdown
          /\ Advance(c, "sync")
          /\ UNCHANGED <<mu, result>>
       \/ /\ shutdown
          /\ Fail(c)
    /\ UNCHANGED <<server, client, ghosts, shutdown, bounds>>

\* The names of every folder and item decrypt under the key of the login.
Decrypts(c) ==
    /\ caller[c].replyKey = symKey
    /\ ~vault[caller[c].reply].foreign

\* All is decrypted before the cache is replaced as a whole, or nothing is.
Decrypt(c) ==
    /\ caller[c].pc = "decrypt"
    /\ \/ /\ Decrypts(c)
          /\ cache' = [ver |-> caller[c].reply, left |-> CacheTTL]
          /\ Unlock
          /\ caller' = [caller EXCEPT ![c].pc = "find", ![c].attempt = 0,
                          ![c].reply = 0, ![c].replyKey = 0, ![c].age = 0]
          /\ UNCHANGED result
       \/ /\ ~Decrypts(c)
          /\ Fail(c)
          /\ UNCHANGED cache
    /\ UNCHANGED <<server, master, symKey, token, ghosts, shutdown, bounds>>

\* FindItem under the cache's read lock, then the field filter.
Find(c) ==
    LET ref == caller[c].ref
        content == vault[cache.ver]
        Found(kind, fields) == Return(c, kind, cache.ver, fields) IN
    /\ caller[c].pc = "find"
    /\ \/ /\ FoldersNamed(content, ref.folder) = {}
          /\ Found(Verdict(FolderError(ref)), Absent)
       \/ \E id \in FoldersNamed(content, ref.folder) :
            \/ /\ ItemsFound(content, id, ref.item) = {}
               /\ Found(Verdict(ItemError(ref)), Absent)
            \/ \E item \in ItemsFound(content, id, ref.item) :
                 LET secrets == ToSecretMap(item.entries) IN
                 IF secrets = Absent THEN Found("empty", Absent)
                 ELSE IF ref.field = Empty THEN Found("ok", secrets)
                 ELSE IF secrets[ref.field] = Empty THEN Found("field", Absent)
                 ELSE Found("ok", [Absent EXCEPT ![ref.field] = secrets[ref.field]])
    /\ served' = IF cache.ver > served THEN cache.ver ELSE served
    /\ UNCHANGED <<server, client, mu, past, shutdown, bounds>>

-----------------------------------------------------------------------------
Authenticate(c) ==
    \/ Prelogin(c) \/ PreloginFails(c)
    \/ Login(c) \/ LoginFails(c)
    \/ Sync(c) \/ SyncFails(c) \/ SyncRefused(c)
    \/ BackoffSleep(c) \/ Decrypt(c)

Environment ==
    \/ \E content \in Contents : Store(content)
    \/ RotateKey
    \/ \E type \in {"pbkdf2", "argon2"} : ChangeKdf(type)
    \/ Tick
    \/ Shutdown

Next ==
    \/ Environment
    \/ \E c \in Callers : \/ \E text \in Texts : Call(c, text)
                          \/ CallAgain(c)
                          \/ Lock(c) \/ Authenticate(c) \/ Find(c)

(* Requests have a timeout and sleeps end; sync.Mutex starves no waiter; the *)
(* reconciler retries what failed.                                           *)
Fairness ==
    \A c \in Callers : /\ SF_vars(Lock(c))
                       /\ WF_vars(Authenticate(c))
                       /\ WF_vars(Find(c))
                       /\ WF_vars(CallAgain(c))

Spec == Init /\ [][Next]_vars
FairSpec == Spec /\ Fairness

-----------------------------------------------------------------------------
Kinds == {"none", "invalid", "auth", "ratelimited", "folder", "item", "field",
          "other", "empty", "ok"}

(* Every variable has its type, and the retry counter stays within bounds.  *)
TypeOK ==
    /\ vault \in Seq(Contents) /\ vault # <<>>
    /\ key \in Nat /\ cred \in Nat /\ kdf \in {"pbkdf2", "argon2"}
    /\ master \in Nat /\ symKey \in Nat
    /\ token \in 0..TokenLife
    /\ cache \in [ver : Nat, left : 0..CacheTTL]
    /\ mu \in Callers \cup {Nobody}
    /\ caller \in [Callers ->
         [pc : {"idle", "lock", "prelogin", "login", "sync", "backoff", "decrypt",
                "find"},
          ref : Ref \cup {NoRef}, floor : Nat, seen : Nat, attempt : 0..MaxRetries,
          reply : Nat, replyKey : Nat, age : 0..Transfer]]
    /\ result \in [Callers ->
         [kind : Kinds, ref : Ref \cup {NoRef}, ver : Nat,
          fields : [Names -> Names \cup {Empty}], floor : Nat, seen : Nat]]
    /\ past \in [0..Window -> Nat]
    /\ served \in Nat
    /\ shutdown \in BOOLEAN
    /\ edits \in 0..MaxEdits /\ faults \in 0..MaxFaults

\* The call returned something it read in the cache.
FromCache(c) == result[c].ver # 0

(* Bounded staleness: whatever fails, expires or is replaced meanwhile, a   *)
(* call returns nothing older than the revision that was current one cache  *)
(* lifetime, plus one download, before the call looked at the cache.        *)
FreshEnough == \A c \in Callers : FromCache(c) => result[c].ver >= result[c].floor

(* Monotonic reads: a call that begins after another call has returned does *)
(* not return from an older revision, whichever callers refreshed the cache *)
(* in between.                                                              *)
NeverBackwards == \A c \in Callers : FromCache(c) => result[c].ver >= result[c].seen

(* Every call returns: no error path of FetchSecret keeps the mutex, and no *)
(* caller waits for it for ever.                                            *)
FetchReturns == \A c \in Callers : caller[c].pc = "lock" ~> caller[c].pc = "idle"

\* Nothing outside the program stands in the way of a login and a sync.
Healthy == ~shutdown /\ kdf = "pbkdf2" /\ ~vault[Len(vault)].foreign

(* After any mix of failed, half-finished logins, key and KDF changes the   *)
(* provider recovers by itself: callers do not fail to authenticate for     *)
(* ever, although every field of the client outlives a failed attempt.      *)
Recovers == <>[](Healthy => \A c \in Callers : result[c].kind # "auth")

(* wrapError "provides actionable error messages": a missing folder is      *)
(* reported only when the folder is missing.                                *)
MissingFolderIsMissing ==
    \A c \in Callers : result[c].kind = "folder" =>
        FoldersNamed(vault[result[c].ver], result[c].ref.folder) = {}
=============================================================================
