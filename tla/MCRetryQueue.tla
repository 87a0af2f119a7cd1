---------------------------- MODULE MCRetryQueue ----------------------------
(* Small instances of RetryQueue for TLC.                                   *)
EXTENDS RetryQueue

CONSTANTS x1, x2, c1, c2
=============================================================================
