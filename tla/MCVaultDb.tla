------------------------------ MODULE MCVaultDb ------------------------------
(* Small instances of VaultDb.                                             *)
EXTENDS VaultDb, TLC

\* Hashes that tell everything apart.
MCPwHash   == [a \in Descs \X Users |-> a]
MCTotpHash == [n \in TotpNames |-> <<"totp", n>>]
MCGuids    == (Descs \X Users) \cup {<<"totp", n>> : n \in TotpNames}

CONSTANTS site, www
\* www is the site with its "www."
OneSite == [d \in Descs |-> site]

DataSymmetry == Permutations(Users) \cup Permutations(Passwords)
=============================================================================
