--------------------------- MODULE MCSessionStore ---------------------------
(* Small instances of SessionStore for TLC.                                *)
EXTENDS SessionStore
=============================================================================
