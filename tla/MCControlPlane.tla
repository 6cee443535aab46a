--------------------------- MODULE MCControlPlane ---------------------------
(* Instances of ControlPlane for model checking.                            *)
EXTENDS ControlPlane

CONSTANTS p1, p2, p3

AllFields == {"port", "password", "secret", "host", "redirects"}

\* Each POST has a field of its own: the port, the password, the secret.  The
\* operator edits the listening address.
Ownership ==
  [w \in Writers |->
     CASE w = p1 -> "port" [] w = p2 -> "password" [] w = p3 -> "secret"
       [] w = Operator -> "host"]

=============================================================================
