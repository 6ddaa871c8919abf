----------------------------- MODULE MCRtpStream -----------------------------
(* The sizes of the code.  NAL units are small or at a boundary, here given  *)
(* for H.264: the largest that fits into a packet with its length (1457),    *)
(* the smallest that does not (1458), the smallest big one (1461), two full  *)
(* fragments (2917) and three (2918); 1456 just misses its place behind the  *)
(* last fragment of 1461.  Of AAC, <<100>> is an access unit as an encoder   *)
(* makes them, <<1457>> overruns the server's buffer and <<2917>> the        *)
(* client's as well.                                                         *)
EXTENDS RtpStream

Units == {<<100>>, <<1457>>, <<2917>>,
          <<1461, 1456>>, <<1458, 100>>, <<2918, 100>>, <<100, 2918>>, <<1461, 1461>>,
          <<100, 100, 1458>>, <<1461, 100, 100>>}
=============================================================================
