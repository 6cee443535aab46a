------------------------------ MODULE MCH2Pool ------------------------------
(* H2Pool for model checking: its .cfg gives every constant its value.      *)
EXTENDS H2Pool

=============================================================================
