------------------------- MODULE MCBitwardenProvider -------------------------
(* Small instances of BitwardenProvider for TLC.                            *)
EXTENDS BitwardenProvider

CONSTANTS c1, c2, id1, id2

AllNames == {"apps", "db", "user", "u1", "zone 429"}
ErrorWords == [n \in AllNames |-> IF n = "zone 429" THEN {"429"} ELSE {}]

Text(scheme, parts) == [scheme |-> scheme, parts |-> parts]
ItemPath == Text(TRUE, <<"apps", "db">>)
FieldPath == Text(TRUE, <<"apps", "db", "user", Empty>>)

OnePath == {ItemPath}
AllPaths ==
    {ItemPath, FieldPath,
     Text(FALSE, <<"apps", "db">>), Text(TRUE, <<"apps", Empty>>),
     Text(TRUE, <<"apps", BadEscape>>), Text(TRUE, <<"apps", "db", "user", "u1">>),
     Text(TRUE, <<"zone 429", "db">>), Text(TRUE, <<"apps", "db", "u1">>)}

Entry(n, v) == [name |-> n, value |-> v]
DbItem(id, entries) == [name |-> "db", entries |-> entries, folder |-> id]
Vault(second, items, foreign) ==
    [items |-> items, foreign |-> foreign,
     folders |-> [i \in FolderIds |-> IF i = id1 THEN "apps" ELSE second]]

Stored == Vault(Empty, <<DbItem(id1, <<Entry("user", "u1")>>)>>, FALSE)
Overridden == Vault("user", <<DbItem(id2, <<>>), DbItem(id1, <<Entry("user", "u1"), Entry("user", "db"), Entry("u1", Empty)>>)>>, FALSE)
NoItem == Vault("user", <<DbItem(id2, <<Entry("user", "u1")>>)>>, FALSE)
Blank == Vault(Empty, <<DbItem(id1, <<Entry("user", Empty)>>), DbItem(Empty, <<>>)>>, FALSE)
Unreadable == [Stored EXCEPT !.foreign = TRUE]
TwoFolders == Vault("apps", <<DbItem(id2, <<Entry("user", "u1")>>)>>, FALSE)

WithUnreadable == {Stored, Unreadable}
AllContents == {Stored, Overridden, NoItem, Blank, Unreadable, TwoFolders}
=============================================================================
