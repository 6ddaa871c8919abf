---------------------------- MODULE MCRtspServer ----------------------------
(* Two clients of one short file, queues of one.                             *)
EXTENDS RtspServer

ShortFiles == {<<"video", "audio", "video">>}
=============================================================================
