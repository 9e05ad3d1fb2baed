---------------------------- MODULE MCLinkPower ----------------------------
(* Small instances of LinkPower. *)
EXTENDS LinkPower

OneBlock == <<1>>
=============================================================================
