----------------------------- MODULE MCNetLink ------------------------------
(***************************************************************************)
(* Instances of NetLink: its constants are given in the configurations.     *)
(***************************************************************************)
EXTENDS NetLink
=============================================================================
