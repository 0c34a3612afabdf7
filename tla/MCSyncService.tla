----------------------------- MODULE MCSyncService -----------------------------
(* SyncService for TLC: a journal with numbered records before one without. *)
EXTENDS SyncService

UploadOrder == <<"word", "problem">>
================================================================================
