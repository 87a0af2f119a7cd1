---------------------------- MODULE MCJasmSystem ----------------------------
(* Small instances of JasmSystem for TLC.                                   *)
EXTENDS JasmSystem

CONSTANTS p1, team, db, x, y, k1, r1

MCNamespaceOf == [p \in Pods |-> team]

Note(text, provider, path) ==
    [text |-> text, provider |-> provider, path |-> path,
     keys |-> [k \in Keys |-> Absent], secretName |-> db]

\* A cached and a direct provider, one that is not configured, and a text that
\* is not YAML.
ThreeProviders ==
    {Note("yaml", "bitwarden", x), Note("yaml", "aws-secretsmanager", y),
     Note("yaml", "vault", x), Note("malformed", "", Absent)}
=============================================================================
