----------------------------- MODULE MCSession -----------------------------
(* Session with the login cap scaled down from 60. *)
EXTENDS Session
=============================================================================
