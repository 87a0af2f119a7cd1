--------------------------- MODULE DirectProviders ---------------------------
(***************************************************************************)
(* FetchSecret of the providers that keep nothing between two calls:        *)
(* 1Password (onepassword.go, onepassword_ref.go), which needs up to three  *)
(* requests for one answer while the account changes between them, and AWS  *)
(* Secrets Manager (aws.go), one request whose JSON document is turned into *)
(* strings.  The controller has one worker, so one call runs at a time.     *)
(***************************************************************************)
EXTENDS Integers, Sequences, FiniteSets, FiniteSetsExt

CONSTANTS
    VaultIds, ItemIds,
    Pieces,       \* texts without a slash
    Titles,       \* names, each the sequence of its slash-separated pieces
    VaultTitles, ItemTitles,     \* those that vaults and items are given
    WordsIn,      \* Titles -> the words of an error text that a title contains
    BadEscape,    \* a path component that PathUnescape refuses
    Texts,        \* the 1Password paths of annotations: [scheme, parts]
    Contents,     \* the field lists of 1Password items
    Keys, Documents,        \* the AWS secrets
    Refusals,     \* words of an SDK error about something that is not there
    Failures,     \* words of an SDK error about the request itself
    Gone, NoRef, Absent,
    MaxEdits      \* bound: changes of the account during one call

Empty == <<>>
Field == [section : Titles \cup {Empty}, title : Titles \cup {Empty},
          value : Titles \cup {Empty}]
Item == [vault : VaultIds, title : ItemTitles, fields : Contents]
Ref == [vault : Titles, item : Titles, section : Titles \cup {Empty},
        field : Titles \cup {Empty}]

\* A JSON value: its text in the document, and for a number the shortest text of
\* the same float64 (1.1 for 1.10, 5432 for 5432.0) and the decimal exponent.
JsonValue == [type : {"string", "number", "bool", "null", "nested"},
              literal : Pieces, shortest : Pieces, exponent : Int]
Document == [kind : {"binary", "malformed", "object"},
             values : [Keys -> JsonValue \cup {Absent}]]

ASSUME NameAssumption ==
    /\ Titles \subseteq Seq(Pieces) \ {Empty}
    /\ VaultTitles \cup ItemTitles \subseteq Titles
    /\ BadEscape \notin Titles \cup {Empty} /\ Gone \notin Titles \cup Item \cup Document
    /\ Absent \notin JsonValue /\ NoRef \notin Ref
    /\ WordsIn \in [Titles -> SUBSET STRING]
ASSUME DataAssumption ==
    /\ Texts \subseteq [scheme : BOOLEAN, parts : Seq(Titles \cup {Empty, BadEscape})]
    /\ Contents \subseteq Seq(Field) /\ Documents \subseteq Document
    /\ Refusals \subseteq SUBSET STRING /\ Failures \subseteq SUBSET STRING
ASSUME BoundAssumption == MaxEdits \in Nat

VARIABLES
    vaults,   \* 1Password: vault -> its title, or Gone
    items,    \* 1Password: item -> vault, title and fields, or Gone
    call,     \* the FetchSecret in progress
    result,   \* what the last call returned
    window    \* history: the states of the account since the call began

account == <<vaults, items>>
vars == <<account, call, result, window>>

Idle == [pc |-> "idle", ref |-> NoRef, vault |-> Gone, item |-> Gone]
NoResult == [kind |-> "none", reason |-> "none", data |-> Empty, ref |-> NoRef]

-----------------------------------------------------------------------------
(* ParseSecretReference and Validate: op://vault/item, optionally followed   *)
(* by a field or by a section and a field; empty components do not count.    *)
ParseSecretReference(text) ==
    LET parts == text.parts
        filled == {i \in DOMAIN parts : parts[i] # Empty}
        later == filled \ {Min(filled)}
        n == Cardinality(filled) IN
    IF ~text.scheme \/ n \notin 2..4 \/ \E i \in filled : parts[i] = BadEscape
    THEN NoRef
    ELSE [vault |-> parts[Min(filled)], item |-> parts[Min(later)],
          section |-> IF n = 4 THEN parts[Min(later \ {Min(later)})] ELSE Empty,
          field |-> IF n = 2 THEN Empty ELSE parts[Max(filled)]]

HasField(ref) == ref.field # Empty

\* String: the decoded components joined by slashes, as the pieces that the
\* reader of the text finds between them.
String(ref) == ref.vault \o ref.item \o ref.section \o ref.field

\* The fields that have a title and a value; the others are skipped.
Usable(fields) ==
    {i \in DOMAIN fields : fields[i].title # Empty /\ fields[i].value # Empty}

FieldMapKeepsFirst(fields) ==
    [t \in {fields[i].title : i \in Usable(fields)} |->
        fields[Min({i \in Usable(fields) : fields[i].title = t})].value]

\* The map of an item's fields: a later one of the same title replaces an
\* earlier one.
FieldMap(fields) ==
    [t \in {fields[i].title : i \in Usable(fields)} |->
        fields[Max({i \in Usable(fields) : fields[i].title = t})].value]

VaultsListed(title) == {v \in VaultIds : vaults[v] # Gone}

\* The vaults that lookupVaultID, and the items that lookupItemID may settle on.
VaultsTitled(title) == {v \in VaultIds : vaults[v] = title}
ItemsTitled(v, title) ==
    {i \in ItemIds : items[i] # Gone /\ items[i].vault = v /\ items[i].title = title}

\* Words of the texts that lookupVaultID, lookupItemID and fetchAllFields make.
VaultError(ref) == {"vault", "not found"} \cup WordsIn[ref.vault]
ItemError(ref) == {"item", "not found", "vault"} \cup WordsIn[ref.item]
NoFieldsError(ref) == {"field", "item"} \cup WordsIn[ref.item]

IsRateLimited(words) == words \cap {"rate limit", "429", "too many requests"} # {}

WrapErrorByPlace(words) ==
    CASE "vault" \in words -> "vault"
      [] "vault" \notin words /\ "item" \in words -> "item"
      [] words \cap {"vault", "item"} = {} /\ "field" \in words -> "field"
      [] OTHER -> "other"

WrapError(words) ==
    IF {"vault", "not found"} \subseteq words THEN "vault"
    ELSE IF {"item", "not found"} \subseteq words THEN "item"
    ELSE IF {"field", "not found"} \subseteq words THEN "field"
    ELSE IF words \cap {"unauthorized", "authentication"} # {} THEN "authentication"
    ELSE IF words \cap {"network", "connection"} # {} THEN "network"
    ELSE "other"

(* The text a JSON value becomes: a float64 is printed with %v, in as few    *)
(* digits as it takes, and in scientific notation below 10^-4 and from 10^6  *)
(* on.                                                                       *)
Convert(value) ==
    CASE value.type = "null" -> Empty
      [] value.type = "number" /\ value.exponent \in -4..5 -> <<value.shortest>>
      [] value.type = "number" /\ value.exponent \notin -4..5 ->
           <<"scientific", value.shortest>>
      [] OTHER -> <<value.literal>>

-----------------------------------------------------------------------------
Now == [vaults |-> vaults, items |-> items]

Init ==
    /\ vaults \in [VaultIds -> VaultTitles \cup {Gone}]
    /\ items \in [ItemIds -> Item \cup {Gone}]
    /\ call = Idle
    /\ result = NoResult
    /\ window = <<>>

(* The owners of the account, while a call runs: a vault is renamed, shared  *)
(* or withdrawn, an item is stored, moved, renamed or deleted.  What they do *)
(* between two calls leads to another initial state.                         *)
Edit ==
    /\ call.pc # "idle"
    /\ Len(window) <= MaxEdits
    /\ window' = Append(window, Now')
    /\ UNCHANGED <<call, result>>

SetVault(v, title) ==
    /\ vaults[v] # title
    /\ vaults' = [vaults EXCEPT ![v] = title]
    /\ UNCHANGED items
    /\ Edit

SetItem(i, item) ==
    /\ items[i] # item
    /\ items' = [items EXCEPT ![i] = item]
    /\ UNCHANGED vaults
    /\ Edit

-----------------------------------------------------------------------------
Return(kind, reason, data) ==
    /\ result' = [kind |-> kind, reason |-> reason, data |-> data, ref |-> call.ref]
    /\ call' = Idle

\* FetchSecret's error path: a rate limit is recognised first.
Fail(words) ==
    Return("error", IF IsRateLimited(words) THEN "ratelimited" ELSE WrapError(words),
           Empty)

\* FetchSecret of the 1Password provider, up to its first request.
Fetch(text) ==
    LET ref == ParseSecretReference(text) IN
    /\ call.pc = "idle"
    /\ \/ /\ ref = NoRef
          /\ Return("error", "invalid", Empty)
          /\ window' = <<>>
       \/ /\ ref # NoRef
          /\ call' = [Idle EXCEPT !.pc = IF HasField(ref) THEN "resolve" ELSE "vaults",
                                  !.ref = ref]
          /\ result' = NoResult
          /\ window' = <<Now>>
    /\ UNCHANGED account

ListVaultsSkipsItems ==
    /\ call.pc = "vaults"
    /\ \/ /\ VaultsTitled(call.ref.vault) = {}
          /\ Fail(VaultError(call.ref))
       \/ \E v \in VaultsTitled(call.ref.vault) :
            /\ call' = [call EXCEPT !.pc = "get", !.vault = v]
            /\ UNCHANGED result
    /\ UNCHANGED <<account, window>>

\* lookupVaultID: the first vault of that title, in the server's order.
ListVaults ==
    /\ call.pc = "vaults"
    /\ \/ /\ VaultsTitled(call.ref.vault) = {}
          /\ Fail(VaultError(call.ref))
       \/ \E v \in VaultsTitled(call.ref.vault) :
            /\ call' = [call EXCEPT !.pc = "items", !.vault = v]
            /\ UNCHANGED result
    /\ UNCHANGED <<account, window>>

\* lookupItemID: the first item of that title in the vault found before.
ListItems ==
    LET found == ItemsTitled(call.vault, call.ref.item) IN
    /\ call.pc = "items"
    /\ \/ /\ vaults[call.vault] = Gone
          /\ \E words \in Refusals : Fail(words \cup {"item"})
       \/ /\ vaults[call.vault] # Gone /\ found = {}
          /\ Fail(ItemError(call.ref))
       \/ /\ vaults[call.vault] # Gone
          /\ \E i \in found : call' = [call EXCEPT !.pc = "get", !.item = i]
          /\ UNCHANGED result
    /\ UNCHANGED <<account, window>>

\* fetchAllFields, Items().Get and the map of the fields.
GetItem ==
    LET item == items[call.item] IN
    /\ call.pc = "get"
    /\ \/ /\ \/ vaults[call.vault] = Gone
             \/ item = Gone
             \/ item # Gone /\ item.vault # call.vault
          /\ \E words \in Refusals : Fail(words)
       \/ /\ vaults[call.vault] # Gone /\ item # Gone /\ item.vault = call.vault
          /\ IF FieldMap(item.fields) = Empty
             THEN Fail(NoFieldsError(call.ref))
             ELSE Return("data", "none", FieldMap(item.fields))
    /\ UNCHANGED <<account, window>>

(* What the SDK finds under a reference, whose text it splits at the slashes. *)
ValuesAt(at, vault, item, section, field) ==
    {f.value : f \in UNION {{at.items[i].fields[j] : j \in DOMAIN at.items[i].fields} :
                              i \in {i \in ItemIds : /\ at.items[i] # Gone
                                                     /\ at.items[i].title = item
                                                     /\ at.vaults[at.items[i].vault] = vault}}
                 \cap [section : IF section = Empty THEN Titles \cup {Empty} ELSE {section},
                       title : {field}, value : Titles \cup {Empty}]}

Resolvable(pieces) ==
    CASE Len(pieces) = 3 ->
           ValuesAt(Now, <<pieces[1]>>, <<pieces[2]>>, Empty, <<pieces[3]>>)
      [] Len(pieces) = 4 ->
           ValuesAt(Now, <<pieces[1]>>, <<pieces[2]>>, <<pieces[3]>>, <<pieces[4]>>)
      [] OTHER -> {}

\* resolveSecret: one request, answered under the name of the field.
Resolve ==
    LET found == Resolvable(String(call.ref)) IN
    /\ call.pc = "resolve"
    /\ \/ /\ found = {}
          /\ \E words \in Refusals : Fail(words)
       \/ \E value \in found : Return("data", "none", [t \in {call.ref.field} |-> value])
    /\ UNCHANGED <<account, window>>

\* Any request to 1Password may fail; listing adds what was being listed.
RequestFails ==
    /\ call.pc \in {"vaults", "items", "get", "resolve"}
    /\ \E words \in Failures :
         Fail(words \cup CASE call.pc = "vaults" -> {"vault"}
                           [] call.pc = "items" -> {"item"}
                           [] OTHER -> {})
    /\ UNCHANGED <<account, window>>

(* FetchSecret of the AWS provider: one request, answered with the document  *)
(* AWS holds at that moment or with an error.                                *)
FetchAws(document) ==
    /\ call.pc = "idle"
    /\ \/ /\ document = Gone
          /\ Return("error", "GetSecretValue", Empty)
       \/ /\ document # Gone /\ document.kind # "object"
          /\ Return("error", document.kind, Empty)
       \/ /\ document # Gone /\ document.kind = "object"
          /\ Return("data", "aws", [k \in {k \in Keys : document.values[k] # Absent} |->
                                      Convert(document.values[k])])
    /\ window' = <<>>
    /\ UNCHANGED account

-----------------------------------------------------------------------------
Owners ==
    \/ \E v \in VaultIds, title \in VaultTitles \cup {Gone} : SetVault(v, title)
    \/ \E i \in ItemIds, item \in Item \cup {Gone} : SetItem(i, item)

OnePassword ==
    \/ \E text \in Texts : Fetch(text)
    \/ ListVaults \/ ListItems \/ GetItem \/ Resolve \/ RequestFails

Aws == \E document \in Documents \cup {Gone} : FetchAws(document)

Next == Owners \/ OnePassword \/ Aws
Spec == Init /\ [][Next]_vars

-----------------------------------------------------------------------------
(* Every variable has its type.                                             *)
TypeOK ==
    /\ vaults \in [VaultIds -> VaultTitles \cup {Gone}]
    /\ items \in [ItemIds -> Item \cup {Gone}]
    /\ call \in [pc : {"idle", "vaults", "items", "get", "resolve"},
                 ref : Ref \cup {NoRef}, vault : VaultIds \cup {Gone},
                 item : ItemIds \cup {Gone}]
    /\ call.pc # "idle" => call.ref \in Ref
    /\ call.pc \in {"items", "get"} => call.vault \in VaultIds
    /\ call.pc = "get" => call.item \in ItemIds
    /\ Len(window) <= MaxEdits + 1

\* data has every usable field of a list, each with the value of the last one
\* of its title.
IsMapOf(data, fields) ==
    /\ DOMAIN data = {fields[i].title : i \in Usable(fields)}
    /\ \A i \in Usable(fields) :
         \/ data[fields[i].title] = fields[i].value
         \/ \E j \in Usable(fields) : j > i /\ fields[j].title = fields[i].title

\* Item i has the title that ref names and lies in vault v.
Holds(at, v, i, ref) ==
    at.items[i] # Gone /\ at.items[i].vault = v /\ at.items[i].title = ref.item

\* data is what the path of a 1Password call names at one instant.
Named(at, ref, data) ==
    IF HasField(ref)
    THEN /\ DOMAIN data = {ref.field}
         /\ data[ref.field] \in ValuesAt(at, ref.vault, ref.item, ref.section, ref.field)
    ELSE \E v \in VaultIds, i \in ItemIds :
            /\ at.vaults[v] = ref.vault
            /\ Holds(at, v, i, ref)
            /\ IsMapOf(data, at.items[i].fields)

Answered == result.kind = "data" /\ result.ref # NoRef
Plain(ref) == \A part \in {ref.vault, ref.item, ref.section, ref.field} : Len(part) <= 1

\* One save gave an item both another title and other fields.
Repurposed ==
    \E t \in 2..Len(window), i \in ItemIds :
        LET old == window[t - 1].items[i]
            new == window[t].items[i] IN
        old # Gone /\ new # Gone /\ old.title # new.title /\ old.fields # new.fields

(* No torn read: although vault, item and fields come from three requests,  *)
(* an answer given while the account changed at most once is what the path  *)
(* named at one instant of the call.  (An item that is retitled and refilled *)
(* in one save is answered with its new fields under its old title.)        *)
OneEditIsAtomic ==
    Answered /\ Plain(result.ref) /\ Len(window) <= 2 /\ ~Repurposed
        => \E t \in DOMAIN window : Named(window[t], result.ref, result.data)

(* However often the account changes during the call, the fields are those  *)
(* of one item at one instant, the item had the wanted title in its vault   *)
(* no later than that and the vault had the wanted title no later than that *)
(* again, all since the call began: nothing is remembered from before.      *)
OrderedRead ==
    Answered /\ ~HasField(result.ref)
        => \E t0, t1, t2 \in DOMAIN window, v \in VaultIds, i \in ItemIds :
             /\ t0 <= t1 /\ t1 <= t2
             /\ window[t0].vaults[v] = result.ref.vault
             /\ Holds(window[t1], v, i, result.ref)
             /\ window[t2].items[i] # Gone /\ window[t2].items[i].vault = v
             /\ IsMapOf(result.data, window[t2].items[i].fields)

\* At most one vault and one item has the wanted title.
Unambiguous(at, ref) ==
    \A v, w \in VaultIds, i, j \in ItemIds :
        /\ at.vaults[v] = ref.vault /\ at.vaults[w] = ref.vault => v = w
        /\ at.vaults[v] = ref.vault /\ Holds(at, v, i, ref) /\ Holds(at, v, j, ref)
             => i = j

(* A failed request is never reported as a missing vault, item or field:    *)
(* "not found" is said only of a path that named nothing at some instant of *)
(* the call, when the account changed at most once and without twins.       *)
AbsenceIsReal ==
    /\ result.reason \in {"vault", "item", "field"}
    /\ Plain(result.ref)
    /\ Len(window) <= 2 /\ \A t \in DOMAIN window : Unambiguous(window[t], result.ref)
    => \E t \in DOMAIN window :
         IF HasField(result.ref)
         THEN ValuesAt(window[t], result.ref.vault, result.ref.item,
                       result.ref.section, result.ref.field) = {}
         ELSE \A v \in VaultIds, i \in ItemIds :
                ~(window[t].vaults[v] = result.ref.vault
                    /\ Holds(window[t], v, i, result.ref))

(* README, "`op://vault/item/field` - Fetches a single field", with names   *)
(* that the parser decodes ("Split by / and decode URL-encoded characters"): *)
(* the value is that of the field, item and vault the path names.           *)
FetchesNamedField ==
    Answered /\ HasField(result.ref)
        => \E t \in DOMAIN window : Named(window[t], result.ref, result.data)

(* The test case "Numeric port values": a number of the JSON document       *)
(* reaches the secret in plain digits.                                      *)
NumbersKeepTheirDigits ==
    result.kind = "data" /\ result.reason = "aws" =>
        \A k \in DOMAIN result.data : Len(result.data[k]) <= 1
=============================================================================
