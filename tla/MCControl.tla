----------------------------- MODULE MCControl ------------------------------
(* Small instances of Control for TLC; no symmetry, for the sake of liveness. *)
EXTENDS Control

=============================================================================
