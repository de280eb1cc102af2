---------------------------- MODULE MCManagement ---------------------------
(* Management for TLC: two clients. *)
EXTENDS Management, TLC

Symm == Permutations(Clients) \cup Permutations(Passphrases)

====
