------------------------------- MODULE MCTpm -------------------------------
(***************************************************************************)
(* Small instances of Tpm for TLC.                                         *)
(***************************************************************************)
EXTENDS Tpm, TLC

\* PCR 7 alone, which is the default, and with PCR 1.
TwoSelections == {{7}, {1, 7}}

Pcr7 == {7}

\* Measurements and passphrase hashes are only compared.
Symm == Permutations(Measurements) \cup Permutations(Auths)

=============================================================================
