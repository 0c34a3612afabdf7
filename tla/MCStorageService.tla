--------------------------- MODULE MCStorageService ---------------------------
(* StorageService for TLC: callers are model values. *)
EXTENDS StorageService

CONSTANTS f1, f2, b1
================================================================================
