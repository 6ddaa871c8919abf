---------------------------- MODULE MCMessageLoop ----------------------------
(* The user's thread and the extract thread post up to three messages.       *)
EXTENDS MessageLoop
=============================================================================
