------------------------------ MODULE MCPlayer ------------------------------
(* The player with queues of one packet and one frame, so that every queue   *)
(* is full and empty all the time.  The configurations differ in the media   *)
(* the file has packets of, in what the user does and in what can fail.      *)
EXTENDS PlayerProperties
=============================================================================
