------------------------------ MODULE MCServer ------------------------------
(* Two processes over one file, two requests, and a migration of two statements. *)
EXTENDS Server
=============================================================================
