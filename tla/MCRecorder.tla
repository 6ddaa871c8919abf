----------------------------- MODULE MCRecorder -----------------------------
(* The recorder with queues of one; an audio frame lasts half as long as a    *)
(* picture.                                                                  *)
EXTENDS RecorderProperties

Periods == [video |-> 2, audio |-> 1]
AudioLate == [video |-> 0, audio |-> 1]
NoneLate == [video |-> 0, audio |-> 0]
VideoAhead == [video |-> 3, audio |-> 2]
FewFrames == [video |-> 1, audio |-> 2]
=============================================================================
