---------------------------- MODULE MCRtspClient ----------------------------
(* Every kind of stream alone, pairs, and no stream at all.  The description  *)
(* of one stream takes 12 lines with its headers, of two streams 16.          *)
(* The parameter sets leave one, two and no byte to the last group of base64. *)
EXTENDS RtspClient

Aac == [mime |-> "AAC", clock |-> 44100, profile |-> "digits", sets |-> "none"]
Latm == [mime |-> "LATM", clock |-> 44100, profile |-> "digits", sets |-> "none"]
Hevc == [mime |-> "HEVC", clock |-> 90000, profile |-> "digits",
         sets |-> [vps |-> <<64, 1>>, sps |-> <<66, 1, 255>>, pps |-> <<68, 1, 7, 128>>]]
Avc(profile) == [mime |-> "H264", clock |-> 90000, profile |-> profile,
                 sets |-> [sps |-> <<103, 100, 0>>, pps |-> <<104, 238>>]]
Unnamed == [mime |-> "", clock |-> 8000, profile |-> "digits", sets |-> "none"]

ProgramsOfEach ==
    {<<>>, <<Aac>>, <<Latm>>, <<Hevc>>, <<Avc("digits")>>, <<Avc("letters")>>, <<Unnamed>>,
     <<Hevc, Aac>>, <<Avc("digits"), Aac>>, <<Unnamed, Hevc>>}
==============================================================================
