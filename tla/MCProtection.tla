---------------------------- MODULE MCProtection ----------------------------
(* Small instances of Protection for TLC. *)
EXTENDS Protection, TLC

MCSymmetry == Permutations(Lists)

=============================================================================
