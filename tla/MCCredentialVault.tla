------------------------- MODULE MCCredentialVault -------------------------
(* Instances of CredentialVault for TLC. *)
EXTENDS CredentialVault, TLC

CONSTANTS c1, w1, w2, creds, session

OneCli     == {c1}
TwoWriters == {w1, w2}
TwoSecrets == {creds, session}

\* The calls of the channel container are interchangeable.
SymmetricWriters == Permutations(TwoWriters)
=============================================================================
