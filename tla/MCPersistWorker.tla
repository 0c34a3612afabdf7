---------------------------- MODULE MCPersistWorker ----------------------------
(* PersistWorker for TLC: the kinds are model values. *)
EXTENDS PersistWorker

CONSTANTS word, note
================================================================================
