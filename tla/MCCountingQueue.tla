--------------------------- MODULE MCCountingQueue ---------------------------
(* Three threads share a queue of two values: both sides can have more than  *)
(* one sleeper, which is what one shared condition variable is sensitive to. *)
EXTENDS CountingQueue
=============================================================================
