--------------------------- MODULE MCCredentials ---------------------------
(***************************************************************************)
(* Small instances of Credentials for TLC.  Credential ids and RP ids are  *)
(* ordered, so only users and user informations are interchangeable.       *)
(***************************************************************************)
EXTENDS Credentials, TLC

Symm == Permutations(Uids) \cup Permutations(UserInfos)

=============================================================================
