---- MODULE MCGateway ----
(* Gateway as TLC runs it; its constants are given in the .cfg. *)
EXTENDS Gateway
====
