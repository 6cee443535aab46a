------------------------------ MODULE MCWarmPool ------------------------------
(* Instances of WarmPool for model checking.                                *)
EXTENDS WarmPool

=============================================================================
