--------------------------- MODULE MCSessionStore ---------------------------
(* SessionStore for TLC: its constants are model values.                   *)
EXTENDS SessionStore
=============================================================================
