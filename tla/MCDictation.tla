---------------------------- MODULE MCDictation ----------------------------
(* Dictation checked on a few sessions; the bounds are in the configuration. *)
EXTENDS Dictation
=============================================================================
