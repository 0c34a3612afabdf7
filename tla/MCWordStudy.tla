------------------------------ MODULE MCWordStudy ------------------------------
(* WordStudy for TLC. *)
EXTENDS WordStudy
================================================================================
