------------------------------ MODULE MCSession ------------------------------
(***************************************************************************)
(* An administrator who has an account and a newcomer who may register.    *)
(***************************************************************************)
EXTENDS Session
=============================================================================
