---------------------------- MODULE MCClientPin ----------------------------
(***************************************************************************)
(* Small instances of ClientPin for TLC.                                   *)
(***************************************************************************)
EXTENDS ClientPin, TLC

\* PINs and RP ids are interchangeable: no definition singles one out.
Symm == Permutations(Pins) \cup Permutations(RpIds)

=============================================================================
