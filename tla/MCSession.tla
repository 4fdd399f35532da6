------------------------------ MODULE MCSession ------------------------------
(* Session with every queue at the smallest size that can fill. *)
EXTENDS Session
=============================================================================
