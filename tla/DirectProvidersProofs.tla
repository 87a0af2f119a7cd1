------------------------ MODULE DirectProvidersProofs ------------------------
(* Proofs that one 1Password call, made of up to three requests, reads the   *)
(* account in the order of the requests and never tears on a single edit.    *)
EXTENDS DirectProviders, TLAPS, SequenceTheorems, FiniteSetTheorems, WellFoundedInduction

-----------------------------------------------------------------------------
(* Min and Max of the positions in a sequence.                               *)

(* Every nonempty set of naturals has a least member.                        *)
LEMMA Least ==
    ASSUME NEW S \in SUBSET Nat, S # {}
    PROVE  \E x \in S : \A y \in S : x =< y
<1>1. \A x, y \in Nat : y < x => <<y, x>> \in OpToRel(<, Nat)
  BY Zenon DEF OpToRel
<1>2. PICK x \in S : \A y \in S : ~(<<y, x>> \in OpToRel(<, Nat))
  BY WFMin, NatLessThanWellFounded, Zenon
<1>3. \A y \in S : ~(y < x)
  BY <1>1, <1>2, Zenon
<1> QED
  BY <1>3

(* Min picks a member of a nonempty set of naturals.                         *)
LEMMA MinOf ==
    ASSUME NEW S \in SUBSET Nat, S # {}
    PROVE  Min(S) \in S
BY Least DEF Min

(* Max picks an upper bound in a nonempty, bounded set of naturals.          *)
LEMMA MaxOf ==
    ASSUME NEW S \in SUBSET Nat, S # {}, NEW n \in Nat, \A y \in S : y <= n
    PROVE  Max(S) \in S /\ \A y \in S : y <= Max(S)
<1> DEFINE down == {m \in Nat : n - m \in S}
<1>1. \A y \in S : n - y \in down
  OBVIOUS
<1>2. down # {} /\ down \in SUBSET Nat
  BY <1>1
<1>3. PICK x \in down : \A m \in down : x =< m
  <2> HIDE DEF down
  <2> QED
    BY <1>2, Least
<1>4. n - x \in S
  BY <1>3
<1>5. ASSUME NEW y \in S PROVE n - x >= y
  <2>1. x =< n - y
    BY <1>1, <1>3
  <2> QED
    BY <2>1, <1>2, <1>3
<1> HIDE DEF down
<1>6. \E w \in S : \A y \in S : w >= y
  BY <1>4, <1>5
<1>7. Max(S) \in S /\ \A y \in S : Max(S) >= y
  BY <1>6 DEF Max
<1> QED
  BY <1>7

-----------------------------------------------------------------------------
(* The operators of the model.                                               *)

(* The parser returns a reference made of decoded titles, or refuses.        *)
LEMMA ParseType ==
    ASSUME NEW text \in Texts
    PROVE  ParseSecretReference(text) \in Ref \cup {NoRef}
<1> DEFINE parts == text.parts
           filled == {i \in DOMAIN parts : parts[i] # Empty}
           later == filled \ {Min(filled)}
           last == later \ {Min(later)}
           n == Cardinality(filled)
<1>1. parts \in Seq(Titles \cup {Empty, BadEscape})
  BY DataAssumption
<1> SUFFICES ASSUME text.scheme, n \in 2..4, \A i \in filled : parts[i] # BadEscape
             PROVE  ParseSecretReference(text) \in Ref
  BY DEF ParseSecretReference
<1>2. filled \subseteq 1..Len(parts) /\ Len(parts) \in Nat
  BY <1>1
<1>3. filled \in SUBSET Nat /\ IsFiniteSet(filled)
  <2>1. IsFiniteSet(1..Len(parts))
    BY <1>2, FS_Interval
  <2>2. filled \in SUBSET (1..Len(parts)) /\ filled \in SUBSET Nat
    BY <1>2
  <2> HIDE DEF filled
  <2> QED
    BY <2>1, <2>2, FS_Subset
<1>4. \A i \in filled : parts[i] \in Titles
  BY <1>1, <1>2
<1> HIDE DEF parts, filled
<1>5. filled # {}
  BY <1>3, FS_EmptySet
<1>6. Min(filled) \in filled
  BY <1>3, <1>5, MinOf
<1>7. IsFiniteSet(later) /\ Cardinality(later) = n - 1
  <2>1. /\ IsFiniteSet(later)
        /\ Cardinality(later) = IF Min(filled) \in filled THEN n - 1 ELSE n
    BY <1>3, FS_RemoveElement, Zenon
  <2> QED
    BY <1>6, <2>1
<1>8. n \in Nat /\ n >= 2
  OBVIOUS
<1>9. later # {} /\ later \subseteq filled
  BY <1>7, <1>8, FS_EmptySet
<1>10. Min(later) \in later
  BY <1>3, <1>9, MinOf
<1>11. IsFiniteSet(last) /\ Cardinality(last) = n - 2
  <2>1. /\ IsFiniteSet(last)
        /\ Cardinality(last) = IF Min(later) \in later THEN Cardinality(later) - 1
                                                      ELSE Cardinality(later)
    BY <1>7, FS_RemoveElement, Zenon
  <2> QED
    BY <1>7, <1>8, <1>10, <2>1
<1>12. n = 4 => Min(last) \in last
  <2>1. SUFFICES ASSUME n = 4 PROVE last # {}
    BY <1>3, <1>9, MinOf
  <2> QED
    BY <2>1, <1>11, FS_EmptySet
<1>13. Max(filled) \in filled
  <2>1. \A y \in filled : y <= Len(parts)
    BY <1>2
  <2> QED
    BY <1>2, <1>3, <1>5, <2>1, MaxOf
<1>14. /\ parts[Min(filled)] \in Titles
       /\ parts[Min(later)] \in Titles
       /\ n = 4 => parts[Min(last)] \in Titles
       /\ parts[Max(filled)] \in Titles
  BY <1>4, <1>6, <1>9, <1>10, <1>12, <1>13
<1>15. [vault |-> parts[Min(filled)], item |-> parts[Min(later)],
        section |-> IF n = 4 THEN parts[Min(last)] ELSE Empty,
        field |-> IF n = 2 THEN Empty ELSE parts[Max(filled)]] \in Ref
  BY <1>14 DEF Ref
<1> QED
  BY <1>15 DEF ParseSecretReference, parts, filled

(* The map built from a field list has every usable field, each with the     *)
(* value of the last one of its title.                                       *)
LEMMA FieldMapIsMap ==
    ASSUME NEW fields \in Seq(Field)
    PROVE  IsMapOf(FieldMap(fields), fields)
<1> DEFINE twins(t) == {i \in Usable(fields) : fields[i].title = t}
<1>1. Usable(fields) \subseteq 1..Len(fields) /\ Len(fields) \in Nat
  BY DEF Usable
<1>2. ASSUME NEW i \in Usable(fields)
      PROVE  \/ FieldMap(fields)[fields[i].title] = fields[i].value
             \/ \E j \in Usable(fields) : j > i /\ fields[j].title = fields[i].title
  <2> DEFINE m == Max(twins(fields[i].title))
  <2>1. twins(fields[i].title) \in SUBSET Nat /\ i \in twins(fields[i].title)
    BY <1>1, <1>2
  <2>2. \A y \in twins(fields[i].title) : y <= Len(fields)
    BY <1>1
  <2>3. m \in twins(fields[i].title) /\ i <= m
    <3> HIDE DEF twins
    <3> QED
      BY <2>1, <2>2, <1>1, MaxOf
  <2>4. FieldMap(fields)[fields[i].title] = fields[m].value
    BY <1>2 DEF FieldMap
  <2>5. CASE m = i
    BY <2>4, <2>5
  <2>6. CASE m # i
    <3>1. m \in Usable(fields) /\ fields[m].title = fields[i].title
      BY <2>3
    <3>2. m > i
      BY <2>3, <2>6, <3>1, <1>1, <1>2
    <3> QED
      BY <3>1, <3>2
  <2> QED
    BY <2>5, <2>6
<1>3. DOMAIN FieldMap(fields) = {fields[i].title : i \in Usable(fields)}
  BY DEF FieldMap
<1> QED
  BY <1>2, <1>3 DEF IsMapOf

(* A text of at most one piece is empty or that piece.                       *)
LEMMA OnePiece ==
    ASSUME NEW s \in Seq(Pieces), Len(s) <= 1
    PROVE  s = <<>> \/ \E p \in Pieces : s = <<p>>
<1>1. CASE Len(s) = 0
  BY <1>1, EmptySeq
<1>2. CASE Len(s) = 1
  <2>1. s[1] \in Pieces /\ s = <<s[1]>>
    BY <1>2
  <2> QED
    BY <2>1
<1>3. Len(s) = 0 \/ Len(s) = 1
  <2> DEFINE n == Len(s)
  <2>1. n \in Nat /\ n <= 1
    OBVIOUS
  <2> HIDE DEF n
  <2>2. n = 0 \/ n = 1
    BY <2>1
  <2> QED
    BY <2>2 DEF n
<1> QED
  BY <1>1, <1>2, <1>3, Zenon

(* Texts of one piece each, joined.                                          *)
LEMMA JoinedPieces ==
    ASSUME NEW a \in Pieces, NEW b \in Pieces, NEW c \in Pieces, NEW d \in Pieces
    PROVE  /\ <<a>> \o <<b>> = <<a, b>>
           /\ <<a, b>> \o <<c>> = <<a, b, c>>
           /\ <<a, b, c>> \o <<d>> = <<a, b, c, d>>
           /\ <<a, b>> \o <<>> = <<a, b>>
<1>1. <<a>> \in Seq(Pieces) /\ <<a, b>> \in Seq(Pieces) /\ <<a, b, c>> \in Seq(Pieces)
  OBVIOUS
<1>2. /\ Append(<<a>>, b) = <<a, b>>
      /\ Append(<<a, b>>, c) = <<a, b, c>>
      /\ Append(<<a, b, c>>, d) = <<a, b, c, d>>
  <2>1. <<a, b, c, d>> \in Seq(Pieces)
    OBVIOUS
  <2>2. /\ Append(<<a>>, b) \in Seq(Pieces) /\ Len(Append(<<a>>, b)) = 2
        /\ Append(<<a, b>>, c) \in Seq(Pieces) /\ Len(Append(<<a, b>>, c)) = 3
        /\ Append(<<a, b, c>>, d) \in Seq(Pieces) /\ Len(Append(<<a, b, c>>, d)) = 4
    BY <1>1, AppendProperties
  <2>3. /\ \A i \in 1..2 : Append(<<a>>, b)[i] = <<a, b>>[i]
        /\ \A i \in 1..3 : Append(<<a, b>>, c)[i] = <<a, b, c>>[i]
        /\ \A i \in 1..4 : Append(<<a, b, c>>, d)[i] = <<a, b, c, d>>[i]
    BY <1>1, AppendProperties
  <2>4. Append(<<a>>, b) = <<a, b>>
    BY <1>1, <2>2, <2>3, SeqEqual
  <2>5. Append(<<a, b>>, c) = <<a, b, c>>
    BY <1>1, <2>2, <2>3, SeqEqual
  <2>6. Append(<<a, b, c>>, d) = <<a, b, c, d>>
    BY <2>1, <2>2, <2>3, SeqEqual
  <2> QED
    BY <2>4, <2>5, <2>6
<1>3. /\ Append(<<a>>, b) = <<a>> \o <<b>>
      /\ Append(<<a, b>>, c) = <<a, b>> \o <<c>>
      /\ Append(<<a, b, c>>, d) = <<a, b, c>> \o <<d>>
  BY <1>1, AppendIsConcat, Zenon
<1>4. <<a, b>> \o <<>> = <<a, b>>
  BY <1>1, ConcatEmptySeq, Zenon
<1> QED
  BY <1>2, <1>3, <1>4, Zenon

(* A reference whose components hold no slash is split by the SDK where the  *)
(* provider joined it.                                                       *)
LEMMA PlainResolves ==
    ASSUME NEW ref \in Ref, Plain(ref), HasField(ref)
    PROVE  Resolvable(String(ref)) =
             ValuesAt(Now, ref.vault, ref.item, ref.section, ref.field)
<1>1. /\ ref.vault \in Seq(Pieces) /\ ref.item \in Seq(Pieces)
      /\ ref.section \in Seq(Pieces) /\ ref.field \in Seq(Pieces)
      /\ ref.vault # <<>> /\ ref.item # <<>> /\ ref.field # <<>>
  <2>1. \A t \in Titles : t \in Seq(Pieces) /\ t # <<>>
    BY NameAssumption DEF Empty
  <2>2. /\ ref.vault \in Titles /\ ref.item \in Titles
        /\ ref.section \in Titles \cup {<<>>} /\ ref.field \in Titles \cup {<<>>}
    BY DEF Ref, Empty
  <2>3. <<>> \in Seq(Pieces)
    BY EmptySeq
  <2>4. ref.field # <<>>
    BY DEF HasField, Empty
  <2> QED
    BY <2>1, <2>2, <2>3, <2>4, Zenon
<1>2. Len(ref.vault) <= 1 /\ Len(ref.item) <= 1 /\ Len(ref.section) <= 1 /\ Len(ref.field) <= 1
  BY DEF Plain
<1>3. /\ \E p \in Pieces : ref.vault = <<p>>
      /\ \E p \in Pieces : ref.item = <<p>>
      /\ \E p \in Pieces : ref.field = <<p>>
      /\ ref.section = Empty \/ \E p \in Pieces : ref.section = <<p>>
  BY <1>1, <1>2, OnePiece DEF Empty
<1>4. PICK v \in Pieces, i \in Pieces, f \in Pieces :
        ref.vault = <<v>> /\ ref.item = <<i>> /\ ref.field = <<f>>
  BY <1>3
<1>5. CASE ref.section = Empty
  <2>1. String(ref) = <<v, i, f>>
    <3>1. String(ref) = <<v>> \o <<i>> \o <<>> \o <<f>>
      BY <1>4, <1>5 DEF String, Empty
    <3>2. /\ <<v>> \o <<i>> = <<v, i>>
          /\ <<v, i>> \o <<>> = <<v, i>> /\ <<v, i>> \o <<f>> = <<v, i, f>>
      BY JoinedPieces, Zenon
    <3> QED
      BY <3>1, <3>2, Zenon
  <2>2. Resolvable(<<v, i, f>>) = ValuesAt(Now, <<v>>, <<i>>, Empty, <<f>>)
    BY DEF Resolvable
  <2> QED
    BY <2>1, <2>2, <1>4, <1>5
<1>6. CASE \E p \in Pieces : ref.section = <<p>>
  <2>1. PICK p \in Pieces : ref.section = <<p>>
    BY <1>6
  <2>2. String(ref) = <<v, i, p, f>>
    <3>1. String(ref) = <<v>> \o <<i>> \o <<p>> \o <<f>>
      BY <1>4, <2>1 DEF String
    <3>2. /\ <<v>> \o <<i>> = <<v, i>> /\ <<v, i>> \o <<p>> = <<v, i, p>>
          /\ <<v, i, p>> \o <<f>> = <<v, i, p, f>>
      BY <1>4, <2>1, JoinedPieces, ZenonT(30)
    <3> QED
      BY <3>1, <3>2, Zenon
  <2>3. Resolvable(<<v, i, p, f>>) = ValuesAt(Now, <<v>>, <<i>>, <<p>>, <<f>>)
    BY DEF Resolvable
  <2> QED
    BY <2>1, <2>2, <2>3, <1>4
<1> QED
  BY <1>3, <1>5, <1>6

-----------------------------------------------------------------------------
(* The inductive invariant: what the call knows was true of the account at   *)
(* instants of the window, in the order of its requests.                     *)

Account == [vaults : [VaultIds -> VaultTitles \cup {Gone}],
            items : [ItemIds -> Item \cup {Gone}]]

\* One vault or one item changed.
OneEdit(old, new) ==
    \/ /\ new.items = old.items
       /\ \E v \in VaultIds : \A w \in VaultIds : w # v => new.vaults[w] = old.vaults[w]
    \/ /\ new.vaults = old.vaults
       /\ \E i \in ItemIds : \A j \in ItemIds : j # i => new.items[j] = old.items[j]

WindowInv ==
    /\ window \in Seq(Account)
    /\ \A t \in 2..Len(window) : OneEdit(window[t - 1], window[t])

\* The vault found had the wanted title at some instant of the call.
VaultSeen(v) == \E t \in DOMAIN window : window[t].vaults[v] = call.ref.vault

\* And the item found had the wanted title in that vault, no earlier.
ItemSeen(v, i) ==
    \E t0, t1 \in DOMAIN window :
        /\ t0 <= t1
        /\ window[t0].vaults[v] = call.ref.vault
        /\ Holds(window[t1], v, i, call.ref)

CallInv ==
    /\ call.pc = "idle" => call = Idle
    /\ call.pc # "idle" => /\ Len(window) > 0 /\ window[Len(window)] = Now
                           /\ result = NoResult
    /\ call.pc \in {"vaults", "items", "get"} => ~HasField(call.ref)
    /\ call.pc = "resolve" => HasField(call.ref)
    /\ call.pc = "items" => VaultSeen(call.vault)
    /\ call.pc = "get" => ItemSeen(call.vault, call.item)

StateInv == TypeOK /\ WindowInv /\ CallInv

\* A single field is the one the path names at an instant of the call.
FieldRead ==
    Answered /\ HasField(result.ref) /\ Plain(result.ref)
        => \E t \in DOMAIN window : Named(window[t], result.ref, result.data)

ReadInv == StateInv /\ OrderedRead /\ FieldRead

(* The initial states.                                                       *)
LEMMA InitRead == Init => ReadInv
<1> SUFFICES ASSUME Init PROVE ReadInv
  OBVIOUS
<1>1. WindowInv
  BY DEF Init, WindowInv
<1>2. CallInv
  BY DEF Init, CallInv, Idle
<1>3. TypeOK
  BY BoundAssumption DEF Init, TypeOK, Idle
<1>4. OrderedRead /\ FieldRead
  BY DEF Init, OrderedRead, FieldRead, Answered, NoResult
<1> QED
  BY <1>1, <1>2, <1>3, <1>4 DEF ReadInv, StateInv

(* Now is a state of an account.                                             *)
LEMMA NowType ==
    TypeOK => Now \in Account
BY DEF TypeOK, Now, Account

(* While a call is running its result is not there yet.                      *)
LEMMA NoResultYet ==
    ASSUME CallInv, call.pc # "idle"
    PROVE  OrderedRead /\ FieldRead /\ AbsenceIsReal
BY DEF CallInv, OrderedRead, FieldRead, AbsenceIsReal, Answered, NoResult

(* An owner's edit.                                                          *)
LEMMA EditState ==
    ASSUME StateInv, Edit, Now' \in Account, OneEdit(Now, Now'),
           vaults' \in [VaultIds -> VaultTitles \cup {Gone}],
           items' \in [ItemIds -> Item \cup {Gone}]
    PROVE  StateInv' /\ call'.pc # "idle"
<1> USE DEF StateInv
<1>1. /\ window \in Seq(Account) /\ Len(window) > 0 /\ window[Len(window)] = Now
      /\ call' = call /\ result' = result /\ result = NoResult /\ call.pc # "idle"
      /\ window' = Append(window, Now') /\ Len(window) <= MaxEdits
  BY DEF Edit, WindowInv, CallInv
<1>2. /\ window' \in Seq(Account) /\ Len(window') = Len(window) + 1
      /\ \A t \in 1..Len(window) : window'[t] = window[t]
      /\ window'[Len(window) + 1] = Now'
  BY <1>1, AppendProperties
<1>3. Len(window) \in Nat
  BY <1>1
<1>4. DOMAIN window = 1..Len(window) /\ DOMAIN window' = 1..(Len(window) + 1)
  BY <1>1, <1>2
<1> DEFINE n == Len(window)
<1> HIDE DEF n
<1>5. /\ n \in Nat /\ n > 0 /\ window[n] = Now /\ Len(window) = n /\ Len(window') = n + 1
      /\ DOMAIN window = 1..n /\ DOMAIN window' = 1..(n + 1)
      /\ \A t \in 1..n : window'[t] = window[t]
      /\ window'[n + 1] = Now'
  BY <1>1, <1>2, <1>3, <1>4 DEF n
<1>6. TypeOK'
  <2>1. Len(window') <= MaxEdits + 1
    BY <1>1, <1>5, BoundAssumption
  <2> QED
    BY <1>1, <2>1 DEF TypeOK
<1>7. WindowInv'
  <2>1. ASSUME NEW t \in 2..(n + 1) PROVE OneEdit(window'[t - 1], window'[t])
    <3>1. CASE t \in 2..n
      <4>1. t - 1 \in 1..n /\ t \in 1..n
        BY <3>1, <1>5
      <4>2. OneEdit(window[t - 1], window[t])
        BY <3>1, <1>5 DEF WindowInv
      <4> QED
        BY <4>1, <4>2, <1>5
    <3>2. CASE t = n + 1
      <4>1. t - 1 = n /\ n \in 1..n
        BY <3>2, <1>5
      <4> QED
        BY <4>1, <3>2, <1>5
    <3> QED
      BY <3>1, <3>2, <1>5
  <2> QED
    BY <2>1, <1>2, <1>5 DEF WindowInv, OneEdit
<1>8. CallInv'
  <2>1. VaultSeen(call.vault) => VaultSeen(call.vault)'
    BY <1>1, <1>5 DEF VaultSeen
  <2>2. ItemSeen(call.vault, call.item) => ItemSeen(call.vault, call.item)'
    BY <1>1, <1>5 DEF ItemSeen, Holds
  <2> QED
    BY <1>1, <1>5, <2>1, <2>2 DEF CallInv, HasField
<1> QED
  BY <1>1, <1>6, <1>7, <1>8

(* The owners' steps.                                                        *)
LEMMA OwnersState ==
    ASSUME StateInv, Owners
    PROVE  StateInv' /\ call'.pc # "idle"
<1>1. ASSUME NEW v \in VaultIds, NEW title \in VaultTitles \cup {Gone}, SetVault(v, title)
      PROVE  StateInv' /\ call'.pc # "idle"
  <2>1. /\ vaults' \in [VaultIds -> VaultTitles \cup {Gone}] /\ items' = items
        /\ \A w \in VaultIds : w # v => vaults'[w] = vaults[w]
        /\ items' \in [ItemIds -> Item \cup {Gone}] /\ Edit
    BY <1>1 DEF SetVault, StateInv, TypeOK
  <2>2. Now' \in Account /\ OneEdit(Now, Now')
    BY <2>1 DEF Now, Account, OneEdit
  <2> QED
    BY <2>1, <2>2, EditState
<1>2. ASSUME NEW i \in ItemIds, NEW item \in Item \cup {Gone}, SetItem(i, item)
      PROVE  StateInv' /\ call'.pc # "idle"
  <2>1. /\ items' \in [ItemIds -> Item \cup {Gone}] /\ vaults' = vaults
        /\ \A j \in ItemIds : j # i => items'[j] = items[j]
        /\ vaults' \in [VaultIds -> VaultTitles \cup {Gone}] /\ Edit
    BY <1>2 DEF SetItem, StateInv, TypeOK
  <2>2. Now' \in Account /\ OneEdit(Now, Now')
    BY <2>1 DEF Now, Account, OneEdit
  <2> QED
    BY <2>1, <2>2, EditState
<1> QED
  BY <1>1, <1>2 DEF Owners

(* Every return leaves the provider idle.                                    *)
LEMMA ReturnState ==
    ASSUME StateInv, NEW kind, NEW reason, NEW data, Return(kind, reason, data),
           UNCHANGED account, window' = window \/ window' = <<>>
    PROVE  StateInv'
<1>1. TypeOK'
  BY BoundAssumption DEF StateInv, TypeOK, Return, Idle, account
<1>2. WindowInv'
  <2>1. CASE window' = window
    BY <2>1 DEF StateInv, WindowInv, OneEdit
  <2>2. CASE window' = <<>>
    BY <2>2 DEF WindowInv
  <2> QED
    BY <2>1, <2>2
<1>3. CallInv'
  BY DEF Return, CallInv, Idle
<1> QED
  BY <1>1, <1>2, <1>3 DEF StateInv

(* A failed call answers nothing.                                            *)
LEMMA FailRead ==
    ASSUME StateInv, NEW words, Fail(words), UNCHANGED <<account, window>>
    PROVE  ReadInv'
<1>1. StateInv'
  BY ReturnState DEF Fail
<1>2. (OrderedRead /\ FieldRead)'
  BY DEF Fail, Return, OrderedRead, FieldRead, Answered
<1> QED
  BY <1>1, <1>2 DEF ReadInv

(* A call starts with a reference that the parser accepted.                  *)
LEMMA FetchRead ==
    ASSUME StateInv, NEW text \in Texts, Fetch(text)
    PROVE  ReadInv'
<1> DEFINE ref == ParseSecretReference(text)
<1>1. CASE ref = NoRef
  <2>1. Return("error", "invalid", Empty) /\ window' = <<>> /\ UNCHANGED account
    BY <1>1 DEF Fetch
  <2>2. StateInv'
    BY <2>1, ReturnState
  <2>3. (OrderedRead /\ FieldRead)'
    BY <2>1 DEF Return, OrderedRead, FieldRead, Answered
  <2> QED
    BY <2>2, <2>3 DEF ReadInv
<1>2. CASE ref # NoRef
  <2> DEFINE pc == IF HasField(ref) THEN "resolve" ELSE "vaults"
  <2>1. /\ ref \in Ref /\ UNCHANGED account /\ result' = NoResult /\ window' = <<Now>>
        /\ call' = [Idle EXCEPT !.pc = pc, !.ref = ref]
    BY <1>2, ParseType DEF Fetch
  <2> HIDE DEF ref
  <2>2. call' = [pc |-> pc, ref |-> ref, vault |-> Gone, item |-> Gone]
    BY <2>1 DEF Idle
  <2>3. TypeOK'
    <3>1. Len(window') <= MaxEdits + 1
      BY <2>1, BoundAssumption
    <3>2. pc \in {"vaults", "resolve"}
      OBVIOUS
    <3> HIDE DEF pc
    <3>3. /\ call' \in [pc : {"idle", "vaults", "items", "get", "resolve"},
                         ref : Ref \cup {NoRef}, vault : VaultIds \cup {Gone},
                         item : ItemIds \cup {Gone}]
          /\ call'.ref \in Ref /\ call'.pc \in {"vaults", "resolve"}
      BY <2>1, <2>2, <3>2
    <3> QED
      BY <2>1, <3>1, <3>3 DEF StateInv, TypeOK, account
  <2>4. WindowInv'
    <3>1. Now \in Account
      BY NowType DEF StateInv
    <3>2. window' \in Seq(Account) /\ Len(window') = 1
      BY <2>1, <3>1
    <3> QED
      BY <3>2 DEF WindowInv
  <2>5. CallInv'
    <3>1. Now' = Now
      BY <2>1 DEF Now, account
    <3> QED
      BY <2>1, <2>2, <3>1 DEF CallInv, HasField
  <2>6. call'.pc # "idle"
    BY <2>2
  <2>7. (OrderedRead /\ FieldRead)'
    BY <2>1 DEF OrderedRead, FieldRead, Answered, NoResult
  <2> QED
    BY <2>3, <2>4, <2>5, <2>7 DEF ReadInv, StateInv
<1> QED
  BY <1>1, <1>2

(* The first request finds a vault that has the title now.                   *)
LEMMA ListVaultsRead ==
    ASSUME StateInv, ListVaults
    PROVE  ReadInv'
<1>1. CASE Fail(VaultError(call.ref))
  BY <1>1, FailRead DEF ListVaults
<1>2. ASSUME NEW v \in VaultsTitled(call.ref.vault),
             call' = [call EXCEPT !.pc = "items", !.vault = v], UNCHANGED result
      PROVE  ReadInv'
  <2>1. /\ v \in VaultIds /\ vaults[v] = call.ref.vault /\ call.pc = "vaults"
        /\ UNCHANGED <<account, window, result>>
    BY <1>2 DEF ListVaults, VaultsTitled
  <2>2. /\ call' \in [pc : {"items"}, ref : {call.ref}, vault : {v}, item : {call.item}]
        /\ call'.pc = "items" /\ call'.ref = call.ref /\ call'.vault = v
        /\ call'.item = call.item
    BY <1>2 DEF StateInv, TypeOK
  <2>3. TypeOK'
    BY <2>1, <2>2 DEF StateInv, TypeOK, account
  <2>4. WindowInv'
    BY <2>1 DEF StateInv, WindowInv, OneEdit
  <2>5. Len(window) \in DOMAIN window
    BY <2>1 DEF StateInv, WindowInv, CallInv
  <2>6. CallInv'
    BY <2>1, <2>2, <2>5 DEF StateInv, CallInv, VaultSeen, Now, account, HasField
  <2>7. (OrderedRead /\ FieldRead)'
    BY <2>2, <2>6 DEF CallInv, OrderedRead, FieldRead, Answered, NoResult
  <2> QED
    BY <2>3, <2>4, <2>6, <2>7 DEF ReadInv, StateInv
<1> QED
  BY <1>1, <1>2 DEF ListVaults

(* The second request finds an item that lies in that vault now.             *)
LEMMA ListItemsRead ==
    ASSUME StateInv, ListItems
    PROVE  ReadInv'
<1>1. ASSUME NEW words, Fail(words) PROVE ReadInv'
  BY <1>1, FailRead DEF ListItems
<1>2. ASSUME NEW i \in ItemsTitled(call.vault, call.ref.item),
             call' = [call EXCEPT !.pc = "get", !.item = i], UNCHANGED result
      PROVE  ReadInv'
  <2>1. /\ i \in ItemIds /\ items[i] # Gone /\ items[i].vault = call.vault
        /\ items[i].title = call.ref.item /\ call.pc = "items"
        /\ UNCHANGED <<account, window, result>>
    BY <1>2 DEF ListItems, ItemsTitled
  <2>2. /\ call' \in [pc : {"get"}, ref : {call.ref}, vault : {call.vault}, item : {i}]
        /\ call'.pc = "get" /\ call'.ref = call.ref /\ call'.vault = call.vault
        /\ call'.item = i
    BY <1>2 DEF StateInv, TypeOK
  <2>3. TypeOK'
    BY <2>1, <2>2 DEF StateInv, TypeOK, account
  <2>4. WindowInv'
    BY <2>1 DEF StateInv, WindowInv, OneEdit
  <2>5. /\ Len(window) \in DOMAIN window
        /\ \A t \in DOMAIN window : t <= Len(window)
    BY <2>1 DEF StateInv, WindowInv, CallInv
  <2>6. Holds(window[Len(window)], call.vault, i, call.ref)
    BY <2>1 DEF StateInv, CallInv, Holds, Now
  <2>7. ItemSeen(call.vault, i)'
    BY <2>1, <2>2, <2>5, <2>6 DEF StateInv, CallInv, VaultSeen, ItemSeen, Holds
  <2>8. CallInv'
    BY <2>1, <2>2, <2>7 DEF StateInv, CallInv, ItemSeen, Holds, Now, account, HasField
  <2>9. (OrderedRead /\ FieldRead)'
    BY <2>2, <2>8 DEF CallInv, OrderedRead, FieldRead, Answered, NoResult
  <2> QED
    BY <2>3, <2>4, <2>8, <2>9 DEF ReadInv, StateInv
<1> QED
  BY <1>1, <1>2 DEF ListItems

(* The third request reads the item that was found, where it is now.         *)
LEMMA GetItemRead ==
    ASSUME StateInv, GetItem
    PROVE  ReadInv'
<1> DEFINE fields == items[call.item].fields
<1>1. ASSUME NEW words, Fail(words) PROVE ReadInv'
  BY <1>1, FailRead DEF GetItem
<1>2. CASE /\ items[call.item] # Gone /\ items[call.item].vault = call.vault
           /\ Return("data", "none", FieldMap(fields))
  <2>1. UNCHANGED <<account, window>> /\ call.pc = "get"
    BY DEF GetItem
  <2>2. StateInv'
    BY <1>2, <2>1, ReturnState
  <2>3. /\ call.vault \in VaultIds /\ call.item \in ItemIds /\ ~HasField(call.ref)
        /\ items[call.item] \in Item
    BY <1>2, <2>1 DEF StateInv, TypeOK, CallInv
  <2>4. IsMapOf(FieldMap(fields), fields)
    <3>1. fields \in Seq(Field)
      BY <2>3, DataAssumption DEF Item
    <3> QED
      BY <3>1, FieldMapIsMap
  <2> HIDE DEF fields
  <2>5. /\ Len(window) \in DOMAIN window
        /\ \A t \in DOMAIN window : t <= Len(window)
        /\ window[Len(window)] = Now
    BY <2>1 DEF StateInv, WindowInv, CallInv
  <2>6. PICK t0 \in DOMAIN window, t1 \in DOMAIN window :
          /\ t0 <= t1
          /\ window[t0].vaults[call.vault] = call.ref.vault
          /\ Holds(window[t1], call.vault, call.item, call.ref)
    BY <2>1 DEF StateInv, CallInv, ItemSeen
  <2>7. result'.data = FieldMap(fields) /\ result'.ref = call.ref
    BY <1>2 DEF Return
  <2>8. /\ window[Len(window)].items[call.item] # Gone
        /\ window[Len(window)].items[call.item].vault = call.vault
        /\ window[Len(window)].items[call.item].fields = fields
    BY <1>2, <2>5 DEF Now, fields
  <2>9. OrderedRead'
    <3>1. window' = window
      BY <2>1
    <3>2. /\ t1 <= Len(window) /\ t0 \in DOMAIN window' /\ t1 \in DOMAIN window'
          /\ Len(window) \in DOMAIN window'
      BY <2>5, <2>6, <3>1
    <3>3. \E s0, s1, s2 \in DOMAIN window', v \in VaultIds, i \in ItemIds :
            /\ s0 <= s1 /\ s1 <= s2
            /\ window'[s0].vaults[v] = result'.ref.vault
            /\ Holds(window'[s1], v, i, result'.ref)
            /\ window'[s2].items[i] # Gone /\ window'[s2].items[i].vault = v
            /\ IsMapOf(result'.data, window'[s2].items[i].fields)
      <4> USE <2>3, <3>2
      <4> WITNESS t0 \in DOMAIN window', t1 \in DOMAIN window',
                  Len(window) \in DOMAIN window'
      <4> WITNESS call.vault \in VaultIds, call.item \in ItemIds
      <4> QED
        BY <2>4, <2>6, <2>7, <2>8, <3>1, <3>2, Zenon
    <3> QED
      BY <3>3, Zenon DEF OrderedRead
  <2>10. FieldRead'
    BY <2>3, <2>7 DEF FieldRead, HasField
  <2> QED
    BY <2>2, <2>9, <2>10 DEF ReadInv
<1> QED
  BY <1>1, <1>2 DEF GetItem

(* The SDK's own lookup of a single field is one request.                    *)
LEMMA ResolveRead ==
    ASSUME StateInv, Resolve
    PROVE  ReadInv'
<1>1. ASSUME NEW words, Fail(words) PROVE ReadInv'
  BY <1>1, FailRead DEF Resolve
<1>2. ASSUME NEW value \in Resolvable(String(call.ref)),
             Return("data", "none", [t \in {call.ref.field} |-> value])
      PROVE  ReadInv'
  <2>1. UNCHANGED <<account, window>> /\ call.pc = "resolve"
    BY DEF Resolve
  <2>2. StateInv'
    BY <1>2, <2>1, ReturnState
  <2>3. HasField(call.ref) /\ call.ref \in Ref
    BY <2>1 DEF StateInv, CallInv, TypeOK
  <2>4. /\ result'.data = [t \in {call.ref.field} |-> value]
        /\ result'.ref = call.ref
    BY <1>2 DEF Return
  <2>5. Len(window) \in DOMAIN window /\ window[Len(window)] = Now
    BY <2>1 DEF StateInv, WindowInv, CallInv
  <2>6. OrderedRead'
    BY <2>3, <2>4 DEF OrderedRead, HasField
  <2>7. FieldRead'
    <3>1. SUFFICES ASSUME Plain(call.ref)
                   PROVE  Named(window[Len(window)], call.ref, result'.data)
      BY <2>1, <2>4, <2>5 DEF FieldRead, Plain, HasField, Named, ValuesAt, Holds, IsMapOf
    <3>2. value \in ValuesAt(Now, call.ref.vault, call.ref.item,
                             call.ref.section, call.ref.field)
      BY <1>2, <2>3, <3>1, PlainResolves
    <3> QED
      BY <2>3, <2>4, <2>5, <3>2 DEF Named
  <2> QED
    BY <2>2, <2>6, <2>7 DEF ReadInv
<1> QED
  BY <1>1, <1>2 DEF Resolve

(* A request that fails ends the call.                                       *)
LEMMA RequestFailsRead ==
    ASSUME StateInv, RequestFails
    PROVE  ReadInv'
<1>1. PICK words : Fail(words)
  BY Zenon DEF RequestFails
<1>2. UNCHANGED <<account, window>>
  BY Zenon DEF RequestFails
<1> QED
  BY <1>1, <1>2, FailRead

(* An answer of AWS has no 1Password reference.                              *)
LEMMA FetchAwsRead ==
    ASSUME StateInv, NEW document, FetchAws(document)
    PROVE  ReadInv'
<1>1. PICK kind, reason, data : Return(kind, reason, data)
  BY DEF FetchAws
<1>2. call.pc = "idle" /\ window' = <<>> /\ UNCHANGED account
  BY DEF FetchAws
<1>3. StateInv'
  BY <1>1, <1>2, ReturnState
<1>4. result'.ref = NoRef
  BY <1>1, <1>2 DEF Return, StateInv, CallInv, Idle
<1>5. (OrderedRead /\ FieldRead)'
  BY <1>4 DEF OrderedRead, FieldRead, Answered
<1> QED
  BY <1>3, <1>5 DEF ReadInv

(* Every step of the owners and of the providers.                            *)
LEMMA NextRead ==
    ASSUME ReadInv, [Next]_vars
    PROVE  ReadInv'
<1>1. StateInv
  BY DEF ReadInv
<1>2. CASE Owners
  <2>1. StateInv' /\ call'.pc # "idle"
    BY <1>1, <1>2, OwnersState
  <2>2. (OrderedRead /\ FieldRead)'
    BY <2>1 DEF StateInv, CallInv, OrderedRead, FieldRead, Answered, NoResult
  <2> QED
    BY <2>1, <2>2 DEF ReadInv
<1>3. CASE OnePassword
  BY <1>1, <1>3, FetchRead, ListVaultsRead, ListItemsRead, GetItemRead, ResolveRead,
     RequestFailsRead DEF OnePassword
<1>4. CASE Aws
  BY <1>1, <1>4, FetchAwsRead DEF Aws
<1>5. CASE UNCHANGED vars
  <2>1. /\ vaults' = vaults /\ items' = items /\ call' = call /\ result' = result
        /\ window' = window
    BY <1>5 DEF vars, account
  <2>2. (TypeOK /\ WindowInv)'
    BY <1>1, <2>1 DEF StateInv, TypeOK, WindowInv, OneEdit
  <2>3. CallInv'
    BY <1>1, <2>1 DEF StateInv, CallInv, VaultSeen, ItemSeen, Holds, Now, HasField
  <2>4. OrderedRead'
    BY <2>1 DEF ReadInv, OrderedRead, Answered, Holds, HasField, IsMapOf, Usable
  <2>5. FieldRead'
    BY <2>1 DEF ReadInv, FieldRead, Answered, HasField, Plain, Named, ValuesAt, Holds,
                IsMapOf, Usable
  <2> QED
    BY <2>2, <2>3, <2>4, <2>5 DEF ReadInv, StateInv
<1> QED
  BY <1>2, <1>3, <1>4, <1>5 DEF Next

(* The inductive invariant holds in every state.                             *)
LEMMA SpecRead == Spec => []ReadInv
<1>1. Init => ReadInv
  BY InitRead
<1>2. ReadInv /\ [Next]_vars => ReadInv'
  BY NextRead
<1> QED
  BY <1>1, <1>2, PTL DEF Spec

(* Every variable has its type, whatever the account holds and whichever     *)
(* path an annotation gives to FetchSecret.                                  *)
THEOREM TypeCorrect == Spec => []TypeOK
<1>1. ReadInv => TypeOK
  BY DEF ReadInv, StateInv
<1> QED
  BY <1>1, SpecRead, PTL

(* lookupVaultID, lookupItemID and Items().Get read the account in this      *)
(* order, all after FetchSecret began, however often the account changes.    *)
THEOREM ReadsAreOrdered == Spec => []OrderedRead
<1>1. ReadInv => OrderedRead
  BY DEF ReadInv
<1> QED
  BY <1>1, SpecRead, PTL

(* Two states of a window of at most two are equal or one edit apart.        *)
LEMMA ShortWindow ==
    ASSUME WindowInv, Len(window) <= 2
    PROVE  /\ DOMAIN window \subseteq 1..2
           /\ \A t \in DOMAIN window : window[t] \in Account
           /\ 2 \in DOMAIN window => OneEdit(window[1], window[2])
           /\ \A t, u \in DOMAIN window : t < u => t = 1 /\ u = 2
           /\ \A t \in 2..Len(window) : t = 2
           /\ 2 \in DOMAIN window => 2 \in 2..Len(window)
<1> DEFINE n == Len(window)
<1>1. /\ n \in Nat /\ n <= 2 /\ DOMAIN window = 1..n
      /\ \A t \in 1..n : window[t] \in Account
  BY DEF WindowInv
<1>2. \A t \in 2..n : OneEdit(window[t - 1], window[t])
  BY DEF WindowInv
<1> HIDE DEF n
<1>3. /\ 1..n \subseteq 1..2
      /\ \A t \in 2..n : t = 2
      /\ \A t, u \in 1..n : t < u => t = 1 /\ u = 2
      /\ 2 \in 1..n => 2 \in 2..n
      /\ 2 - 1 = 1
  BY <1>1
<1> QED
  BY <1>1, <1>2, <1>3 DEF n

(* An ordered read across at most one edit is what the path named before or  *)
(* after that edit, unless the edit retitled and refilled the item.          *)
LEMMA OrderedReadIsAtomic ==
    ASSUME WindowInv, OrderedRead, FieldRead
    PROVE  OneEditIsAtomic
<1> SUFFICES ASSUME Answered, Plain(result.ref), Len(window) <= 2, ~Repurposed
             PROVE  \E t \in DOMAIN window : Named(window[t], result.ref, result.data)
  BY DEF OneEditIsAtomic
<1>1. CASE HasField(result.ref)
  BY <1>1 DEF FieldRead
<1>2. CASE ~HasField(result.ref)
  <2>1. PICK t0 \in DOMAIN window, t1 \in DOMAIN window, t2 \in DOMAIN window,
             v \in VaultIds, i \in ItemIds :
             /\ t0 <= t1 /\ t1 <= t2
             /\ window[t0].vaults[v] = result.ref.vault
             /\ Holds(window[t1], v, i, result.ref)
             /\ window[t2].items[i] # Gone /\ window[t2].items[i].vault = v
             /\ IsMapOf(result.data, window[t2].items[i].fields)
    BY <1>2 DEF OrderedRead
  <2>2. SUFFICES \E t \in DOMAIN window :
                   /\ window[t].vaults[v] = result.ref.vault
                   /\ Holds(window[t], v, i, result.ref)
                   /\ IsMapOf(result.data, window[t].items[i].fields)
    BY <1>2, <2>1 DEF Named
  <2>3. CASE t0 = t2
    <3>1. t0 = t1
      BY <2>1, <2>3, ShortWindow
    <3> QED
      BY <2>1, <2>3, <3>1
  <2>4. CASE t0 # t2
    <3>1. t0 = 1 /\ t2 = 2 /\ (t1 = 1 \/ t1 = 2)
      BY <2>1, <2>4, ShortWindow
    <3>2. OneEdit(window[1], window[2])
      BY <3>1, <2>1, ShortWindow
    <3>3. CASE window[2].items = window[1].items
      BY <3>3, <3>1, <2>1 DEF Holds
    <3>4. CASE window[2].vaults = window[1].vaults
      <4>1. CASE t1 = 2
        BY <4>1, <3>4, <3>1, <2>1
      <4>2. CASE t1 = 1
        <5>1. window[1].items[i] # Gone /\ window[2].items[i] # Gone
          BY <4>2, <3>1, <2>1 DEF Holds
        <5>2. \/ window[1].items[i].title = window[2].items[i].title
              \/ window[1].items[i].fields = window[2].items[i].fields
          <6>1. 2 \in 2..Len(window) /\ 2 - 1 = 1
            BY <3>1, <2>1, ShortWindow
          <6> QED
            BY <5>1, <6>1, <2>1 DEF Repurposed
        <5>3. CASE window[1].items[i].title = window[2].items[i].title
          BY <5>3, <5>1, <4>2, <3>4, <3>1, <2>1 DEF Holds
        <5>4. CASE window[1].items[i].fields = window[2].items[i].fields
          BY <5>4, <4>2, <3>1, <2>1
        <5> QED
          BY <5>2, <5>3, <5>4
      <4> QED
        BY <3>1, <4>1, <4>2
    <3> QED
      BY <3>2, <3>3, <3>4 DEF OneEdit
  <2> QED
    BY <2>3, <2>4
<1> QED
  BY <1>1, <1>2

(* The three requests of fetchAllFields, and the one of resolveSecret, give  *)
(* an answer that the path named at one instant when at most one edit of the *)
(* account falls into the call.                                              *)
THEOREM NoTornRead == Spec => []OneEditIsAtomic
<1>1. ReadInv => OneEditIsAtomic
  BY OrderedReadIsAtomic DEF ReadInv, StateInv
<1> QED
  BY <1>1, SpecRead, PTL

-----------------------------------------------------------------------------
(* "not found" is said of a path that named nothing.                         *)

(* The provider classifies an error by the words of its text: the result     *)
(* needs that "not found" appears only in texts about something missing,     *)
(* neither in a failure of the request nor in an item's own title.           *)
NotFoundIsTelling ==
    /\ \A words \in Failures : "not found" \notin words
    /\ \A t \in Titles : "not found" \notin WordsIn[t]

NamesNothing(at, ref) ==
    IF HasField(ref)
    THEN ValuesAt(at, ref.vault, ref.item, ref.section, ref.field) = {}
    ELSE \A v \in VaultIds, i \in ItemIds :
           ~(at.vaults[v] = ref.vault /\ Holds(at, v, i, ref))

\* The case AbsenceIsReal speaks of.
Calm(ref) ==
    /\ Plain(ref) /\ Len(window) <= 2
    /\ \A t \in DOMAIN window : Unambiguous(window[t], ref)

(* An error whose text does not say "not found" is not reported as absence.  *)
LEMMA OtherErrors ==
    ASSUME NEW words, "not found" \notin words
    PROVE  WrapError(words) \notin {"vault", "item", "field"}
BY DEF WrapError

(* The last state of the window of a running call is the present one.        *)
LEMMA LastIsNow ==
    ASSUME StateInv, call.pc # "idle"
    PROVE  Len(window) \in DOMAIN window /\ window[Len(window)] = Now
BY DEF StateInv, WindowInv, CallInv

(* A call that fails says "not found" only if its path names nothing now.    *)
LEMMA FailAbsence ==
    ASSUME StateInv, call.pc # "idle", NEW words, Fail(words), window' = window,
           "not found" \in words /\ Calm(call.ref) => NamesNothing(Now, call.ref)
    PROVE  AbsenceIsReal'
<1>1. /\ result'.ref = call.ref
      /\ result'.reason \in {"vault", "item", "field"} => "not found" \in words
  <2>1. result'.reason = IF IsRateLimited(words) THEN "ratelimited" ELSE WrapError(words)
    BY DEF Fail, Return
  <2>2. result'.ref = call.ref
    BY DEF Fail, Return
  <2> QED
    BY <2>1, <2>2, OtherErrors
<1>2. Len(window) \in DOMAIN window /\ window[Len(window)] = Now
  BY LastIsNow
<1>3. ASSUME result'.reason \in {"vault", "item", "field"}, Calm(call.ref)
      PROVE  \E t \in DOMAIN window : NamesNothing(window[t], call.ref)
  BY <1>1, <1>2, <1>3
<1> DEFINE reported == result.reason \in {"vault", "item", "field"} /\ Calm(result.ref)
           missing == \E t \in DOMAIN window : NamesNothing(window[t], result.ref)
<1>4. (reported => missing)' => AbsenceIsReal'
  BY Zenon DEF AbsenceIsReal, Calm, NamesNothing
<1>5. Calm(result.ref)' => Calm(call.ref)
  BY <1>1, Zenon DEF Calm
<1>6. (\E t \in DOMAIN window : NamesNothing(window[t], call.ref)) => missing'
  BY <1>1, Zenon
<1> QED
  BY <1>3, <1>4, <1>5, <1>6, Zenon

(* In a calm call no vault but the one that was found has the title now.     *)
LEMMA VaultStays ==
    ASSUME StateInv, call.pc # "idle", Calm(call.ref), NEW i \in ItemIds,
           NEW v \in VaultIds, VaultSeen(v), NEW w \in VaultIds, vaults[w] = call.ref.vault
    PROVE  w = v
<1>1. Len(window) \in DOMAIN window /\ window[Len(window)].vaults[w] = call.ref.vault
  BY DEF StateInv, WindowInv, CallInv, Now
<1>2. PICK t \in DOMAIN window : window[t].vaults[v] = call.ref.vault
  BY DEF VaultSeen
<1>3. \A u \in DOMAIN window :
        window[u].vaults[v] = call.ref.vault /\ window[u].vaults[w] = call.ref.vault
          => v = w
  BY DEF Calm, Unambiguous
<1>4. CASE t = Len(window)
  BY <1>1, <1>2, <1>3, <1>4
<1>5. CASE t # Len(window)
  <2>1. t < Len(window)
    BY <1>1, <1>2, <1>5 DEF StateInv, WindowInv
  <2>2. t = 1 /\ Len(window) = 2 /\ OneEdit(window[1], window[2])
    BY <1>1, <1>2, <2>1, ShortWindow DEF Calm, StateInv
  <2>3. PICK x \in VaultIds : \A y \in VaultIds : y # x => window[2].vaults[y] = window[1].vaults[y]
    BY <2>2 DEF OneEdit
  <2> QED
    BY <1>1, <1>2, <1>3, <2>2, <2>3
<1> QED
  BY <1>4, <1>5

(* In a calm call no item but the one that was found is in the vault now.    *)
LEMMA ItemStays ==
    ASSUME StateInv, call.pc # "idle", Calm(call.ref), NEW v \in VaultIds,
           NEW i \in ItemIds, ItemSeen(v, i), NEW j \in ItemIds,
           vaults[v] = call.ref.vault, Holds(Now, v, j, call.ref)
    PROVE  j = i
<1>1. /\ Len(window) \in DOMAIN window /\ window[Len(window)].vaults[v] = call.ref.vault
      /\ Holds(window[Len(window)], v, j, call.ref)
  BY DEF StateInv, WindowInv, CallInv, Now
<1>2. PICK t0 \in DOMAIN window, t1 \in DOMAIN window :
        /\ t0 <= t1 /\ window[t0].vaults[v] = call.ref.vault
        /\ Holds(window[t1], v, i, call.ref)
  BY DEF ItemSeen
<1>3. \A u \in DOMAIN window :
        /\ window[u].vaults[v] = call.ref.vault
        /\ Holds(window[u], v, i, call.ref) /\ Holds(window[u], v, j, call.ref)
        => i = j
  BY DEF Calm, Unambiguous
<1>4. CASE t1 = Len(window)
  BY <1>1, <1>2, <1>3, <1>4
<1>5. CASE t1 # Len(window)
  <2>1. t1 < Len(window)
    BY <1>1, <1>2, <1>5 DEF StateInv, WindowInv
  <2>2. t1 = 1 /\ Len(window) = 2 /\ OneEdit(window[1], window[2])
    BY <1>1, <1>2, <2>1, ShortWindow DEF Calm, StateInv
  <2>3. t0 = 1
    BY <1>2, <2>2, ShortWindow DEF Calm, StateInv
  <2>4. PICK x \in ItemIds : \A y \in ItemIds : y # x => window[2].items[y] = window[1].items[y]
    BY <2>2 DEF OneEdit
  <2> QED
    BY <1>1, <1>2, <1>3, <2>2, <2>3, <2>4 DEF Holds
<1> QED
  BY <1>4, <1>5

(* A vault is missing when the listing has none of that title.               *)
LEMMA ListVaultsAbsence ==
    ASSUME StateInv, ListVaults, StateInv'
    PROVE  AbsenceIsReal'
<1>1. call.pc = "vaults" /\ window' = window /\ ~HasField(call.ref)
  BY DEF ListVaults, StateInv, CallInv
<1>2. CASE VaultsTitled(call.ref.vault) = {} /\ Fail(VaultError(call.ref))
  <2>1. NamesNothing(Now, call.ref)
    BY <1>1, <1>2 DEF NamesNothing, VaultsTitled, Now
  <2> QED
    BY <1>1, <1>2, <2>1, FailAbsence
<1>3. CASE \E v \in VaultsTitled(call.ref.vault) :
              call' = [call EXCEPT !.pc = "items", !.vault = v] /\ UNCHANGED result
  BY <1>1, <1>3 DEF StateInv, CallInv, AbsenceIsReal, NoResult
<1> QED
  BY <1>2, <1>3 DEF ListVaults

(* An item is missing when the vault found before does not list it, or is    *)
(* gone itself.                                                              *)
LEMMA ListItemsAbsence ==
    ASSUME StateInv, ListItems
    PROVE  AbsenceIsReal'
<1>1. /\ call.pc = "items" /\ window' = window /\ ~HasField(call.ref)
      /\ call.vault \in VaultIds /\ VaultSeen(call.vault) /\ call.ref.vault # Gone
  BY NameAssumption DEF ListItems, StateInv, CallInv, TypeOK, Ref
<1>2. ASSUME NEW words, Fail(words), Calm(call.ref),
             \/ vaults[call.vault] = Gone
             \/ ItemsTitled(call.vault, call.ref.item) = {}
      PROVE  NamesNothing(Now, call.ref)
  <2>1. SUFFICES ASSUME NEW w \in VaultIds, NEW i \in ItemIds,
                        vaults[w] = call.ref.vault, Holds(Now, w, i, call.ref)
                 PROVE  FALSE
    BY <1>1 DEF NamesNothing, Now
  <2>2. w = call.vault
    BY <1>1, <1>2, <2>1, VaultStays
  <2>3. i \in ItemsTitled(call.vault, call.ref.item)
    BY <2>1, <2>2 DEF ItemsTitled, Holds, Now
  <2> QED
    BY <1>1, <1>2, <2>1, <2>2, <2>3
<1>3. ASSUME NEW words, Fail(words),
             \/ vaults[call.vault] = Gone
             \/ ItemsTitled(call.vault, call.ref.item) = {}
      PROVE  AbsenceIsReal'
  BY <1>1, <1>2, <1>3, FailAbsence
<1>4. CASE result' = result
  BY <1>1, <1>4 DEF StateInv, CallInv, AbsenceIsReal, NoResult
<1> QED
  BY <1>3, <1>4 DEF ListItems

(* A found item is missing when it or its vault is gone, or it was moved.    *)
LEMMA GetItemAbsence ==
    ASSUME StateInv, GetItem, NotFoundIsTelling
    PROVE  AbsenceIsReal'
<1>1. /\ call.pc = "get" /\ window' = window /\ ~HasField(call.ref)
      /\ call.vault \in VaultIds /\ call.item \in ItemIds
      /\ ItemSeen(call.vault, call.item) /\ VaultSeen(call.vault)
      /\ call.ref.vault # Gone /\ call.ref.item \in Titles
  BY NameAssumption DEF GetItem, StateInv, CallInv, TypeOK, Ref, ItemSeen, VaultSeen
<1>2. ASSUME NEW words, Fail(words),
             \/ vaults[call.vault] = Gone
             \/ items[call.item] = Gone
             \/ items[call.item] # Gone /\ items[call.item].vault # call.vault
      PROVE  AbsenceIsReal'
  <2>1. ASSUME Calm(call.ref) PROVE NamesNothing(Now, call.ref)
    <3>1. SUFFICES ASSUME NEW w \in VaultIds, NEW j \in ItemIds,
                          vaults[w] = call.ref.vault, Holds(Now, w, j, call.ref)
                   PROVE  FALSE
      BY <1>1 DEF NamesNothing, Now
    <3>2. w = call.vault
      BY <1>1, <2>1, <3>1, VaultStays
    <3>3. j = call.item
      BY <1>1, <2>1, <3>1, <3>2, ItemStays
    <3> QED
      BY <1>1, <1>2, <3>1, <3>2, <3>3 DEF Holds, Now
  <2> QED
    BY <1>1, <1>2, <2>1, FailAbsence
<1>3. CASE Fail(NoFieldsError(call.ref))
  <2>1. "not found" \notin NoFieldsError(call.ref)
    BY <1>1 DEF NotFoundIsTelling, NoFieldsError
  <2> QED
    BY <1>1, <1>3, <2>1, FailAbsence
<1>4. CASE \E data : Return("data", "none", data)
  BY <1>4 DEF Return, AbsenceIsReal
<1> QED
  BY <1>2, <1>3, <1>4 DEF GetItem

(* A field is missing when the SDK resolves the path to nothing.             *)
LEMMA ResolveAbsence ==
    ASSUME StateInv, Resolve
    PROVE  AbsenceIsReal'
<1>1. /\ call.pc = "resolve" /\ window' = window /\ HasField(call.ref) /\ call.ref \in Ref
  BY DEF Resolve, StateInv, CallInv, TypeOK
<1>2. ASSUME NEW words, Fail(words), Resolvable(String(call.ref)) = {}
      PROVE  AbsenceIsReal'
  <2>1. ASSUME Calm(call.ref) PROVE NamesNothing(Now, call.ref)
    BY <1>1, <1>2, <2>1, PlainResolves DEF NamesNothing, Calm
  <2> QED
    BY <1>1, <1>2, <2>1, FailAbsence
<1>3. CASE \E data : Return("data", "none", data)
  BY <1>3 DEF Return, AbsenceIsReal
<1> QED
  BY <1>2, <1>3 DEF Resolve

(* A failure of the request itself is not reported as absence.               *)
LEMMA RequestFailsAbsence ==
    ASSUME StateInv, RequestFails, NotFoundIsTelling
    PROVE  AbsenceIsReal'
<1> DEFINE listed == CASE call.pc = "vaults" -> {"vault"}
                       [] call.pc = "items" -> {"item"}
                       [] OTHER -> {}
<1>1. PICK words \in Failures : Fail(words \cup listed)
  BY Zenon DEF RequestFails
<1>2. call.pc \in {"vaults", "items", "get", "resolve"} /\ window' = window
  BY Zenon DEF RequestFails
<1>3. listed \in {{"vault"}, {"item"}, {}}
  BY <1>2
<1> HIDE DEF listed
<1>4. "not found" \notin words \cup listed
  BY <1>1, <1>3 DEF NotFoundIsTelling
<1> QED
  BY <1>1, <1>2, <1>4, FailAbsence

(* Every step keeps reported absences real.                                  *)
LEMMA NextAbsence ==
    ASSUME ReadInv, AbsenceIsReal, [Next]_vars, NotFoundIsTelling
    PROVE  AbsenceIsReal'
<1>1. StateInv /\ StateInv'
  BY NextRead DEF ReadInv
<1>2. CASE Owners
  BY <1>1, <1>2, OwnersState DEF StateInv, CallInv, AbsenceIsReal, NoResult
<1>3. ASSUME NEW text \in Texts, Fetch(text) PROVE AbsenceIsReal'
  BY <1>3 DEF Fetch, Return, AbsenceIsReal, NoResult
<1>4. CASE ListVaults \/ ListItems \/ GetItem \/ Resolve \/ RequestFails
  BY <1>1, <1>4, ListVaultsAbsence, ListItemsAbsence, GetItemAbsence, ResolveAbsence,
     RequestFailsAbsence
<1>5. ASSUME NEW document \in Documents \cup {Gone}, FetchAws(document)
      PROVE  AbsenceIsReal'
  <2>1. /\ result'.reason \in {"GetSecretValue", "aws"} \cup {document.kind}
        /\ document # Gone => document.kind \in {"binary", "malformed", "object"}
        /\ document = Gone => result'.reason = "GetSecretValue"
    BY <1>5, DataAssumption DEF FetchAws, Return, Document
  <2> QED
    BY <2>1 DEF AbsenceIsReal
<1>6. CASE UNCHANGED vars
  BY <1>6, Zenon DEF vars, AbsenceIsReal
<1> QED
  BY <1>2, <1>3, <1>4, <1>5, <1>6 DEF Next, OnePassword, Aws

(* wrapError says "not found" only when, at an instant of a call with at     *)
(* most one edit and no twins, the path named nothing; a request that failed *)
(* is never reported that way.                                               *)
THEOREM AbsencesAreReal ==
    ASSUME NotFoundIsTelling
    PROVE  Spec => []AbsenceIsReal
<1>1. Init => AbsenceIsReal
  BY DEF Init, AbsenceIsReal, NoResult
<1>2. ReadInv /\ AbsenceIsReal /\ [Next]_vars => AbsenceIsReal'
  BY NextAbsence
<1> QED
  BY <1>1, <1>2, SpecRead, PTL DEF Spec
=============================================================================
