-------------------------- MODULE MCValidationTool --------------------------
(* Small instances of ValidationTool for TLC; no symmetry: ResumeCloses is a *)
(* liveness property.                                                        *)
EXTENDS ValidationTool

=============================================================================
