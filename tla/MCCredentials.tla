--------------------------- MODULE MCCredentials ---------------------------
(* Small instances of Credentials.                                         *)
EXTENDS Credentials, TLC

CONSTANTS u, v, w, c1, c2

Symmetry == Permutations({u, v, w}) \cup Permutations({c1, c2})
=============================================================================
