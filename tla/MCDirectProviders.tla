-------------------------- MODULE MCDirectProviders --------------------------
(* Small instances of DirectProviders for TLC.                              *)
EXTENDS DirectProviders, TLC

CONSTANTS v1, v2, i1, i2, k1

AllPieces == {"prod", "db", "user", "pass", "1234", "1234.0", "1234567", "null"}
Prod == <<"prod">>
Db == <<"db">>
User == <<"user">>
Pass == <<"pass">>
Slashed == <<"db", "user">>     \* the title db/user
TwoTitles == {Prod, Db}
SomeTitles == {Prod, Db, User, Pass, Slashed}
NoWords == [t \in Titles |-> {}]

Text(scheme, parts) == [scheme |-> scheme, parts |-> parts]
ItemPath == Text(TRUE, <<Prod, Db, Empty>>)
FieldPath == Text(TRUE, <<Prod, Db, User>>)
SectionPath == Text(TRUE, <<Prod, Db, User, Pass>>)
SlashedPath == Text(TRUE, <<Prod, Slashed, Pass>>)
FieldTexts == {SectionPath, SlashedPath}
AllTexts == {ItemPath, FieldPath, SectionPath,
             Text(FALSE, <<Prod, Db>>), Text(TRUE, <<Prod>>),
             Text(TRUE, <<Prod, BadEscape>>), Text(TRUE, <<Prod, Db, Db, Db, Db>>)}

FieldOf(section, title, value) == [section |-> section, title |-> title, value |-> value]
Twice == <<FieldOf(Empty, User, Db), FieldOf(User, Pass, Db), FieldOf(Db, User, Pass),
           FieldOf(Empty, Empty, Pass)>>
Blank == <<FieldOf(Empty, User, Empty)>>
AllContents == {Twice, Blank}

Json(type, literal, shortest, exponent) ==
    [type |-> type, literal |-> literal, shortest |-> shortest, exponent |-> exponent]
Doc(kind, v) == [kind |-> kind, values |-> [k \in Keys |-> v]]
Small == Doc("object", Json("number", "1234.0", "1234", 3))
AllDocuments == {Doc("binary", Absent), Doc("malformed", Absent), Small,
                 Doc("object", Json("null", "null", "null", 0))}
BigNumber == {Doc("object", Json("number", "1234567", "1234567", 6))}

SdkRefusals == {{"not found"}, {"vault", "not found"}}
SdkFailures == {{"rate limit"}, {"network"}}

Twins == Permutations(VaultIds) \cup Permutations(ItemIds)
=============================================================================
