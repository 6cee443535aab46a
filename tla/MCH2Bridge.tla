----------------------------- MODULE MCH2Bridge -----------------------------
(* Instances of H2Bridge for model checking.                                *)
EXTENDS H2Bridge

=============================================================================
