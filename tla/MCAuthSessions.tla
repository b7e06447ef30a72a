--------------------------- MODULE MCAuthSessions ---------------------------
(***************************************************************************)
(* AuthSessions on a small instance.                                       *)
(***************************************************************************)
EXTENDS AuthSessions
=============================================================================
