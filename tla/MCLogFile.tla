----------------------------- MODULE MCLogFile -----------------------------
(* The log file checked on a few lines; the bounds are in the configuration. *)
EXTENDS LogFile
=============================================================================
