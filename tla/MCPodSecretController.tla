----------------------- MODULE MCPodSecretController -----------------------
(* Small instances of PodSecretController for TLC.                          *)
EXTENDS PodSecretController

CONSTANTS p1, p2, p3, team, other, db, x, y, k1, k2, r1, r2

\* All pods use the same secret name; p2 lives in a namespace of its own, and p1
\* and p3, which are interchangeable, share a secret.
MCNamespaceOf == [p \in Pods |-> IF p = p2 THEN other ELSE team]
Twins == {[p \in Pods |-> p],
          [p \in Pods |-> IF p = p1 THEN p3 ELSE IF p = p3 THEN p1 ELSE p]}
MCNamespaceOfOne == [p \in Pods |-> team]

Note(text, provider, path, keys) ==
    [text |-> text, provider |-> provider, path |-> path, keys |-> keys,
     secretName |-> db]
NoKeys == [k \in Keys |-> Absent]
Renamed == [NoKeys EXCEPT ![k1] = k2]
OnlyFirst == [NoKeys EXCEPT ![k1] = k1]
OnlySecond == [NoKeys EXCEPT ![k2] = k2]

\* Two paths, with and without a mapping, that meet in the key k2.
TwoPaths == {Note("yaml", "aws", x, NoKeys), Note("yaml", "aws", y, Renamed)}

OnePath == {Note("yaml", "aws", x, NoKeys)}
TwoMappings == {Note("yaml", "aws", x, OnlyFirst), Note("yaml", "aws", x, OnlySecond)}
=============================================================================
