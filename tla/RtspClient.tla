------------------------------ MODULE RtspClient ------------------------------
(***************************************************************************)
(* RtspClientHelper: init() connects and goes through OPTIONS, DESCRIBE,   *)
(* SETUP of every stream and PLAY, one request and one recv() after the    *)
(* other.  The server is the repository's own or another's, TCP and both   *)
(* sockets' time limits are external.                                      *)
(*                                                                         *)
(* TCP delivers a stream of bytes: a recv() may return a part of an        *)
(* answer, here some of its lines, and the rest is what the next request   *)
(* will read.  Session id, sequence numbers and the options of the answer  *)
(* are left out: nothing depends on them.                                  *)
(***************************************************************************)
EXTENDS Sdp

CONSTANTS Programs,   \* what the server may have: sequences of streams
          Styles,     \* who it is: "own", or another that writes "spaced", "reversed"
          SendRooms,  \* how many lines may fit into the own server's 1024 bytes, which
                      \* depends on the length of the parameter sets
          MaxInits

ASSUME ClientAssumption == /\ \A streams \in Programs : streams \in Seq(Range(streams))
                           /\ Styles \subseteq {"own", "spaced", "reversed"}
                           /\ SendRooms \subseteq Nat \ {0}
                           /\ MaxInits \in Nat

VARIABLES program,    \* the server's streams
          style,      \* the server
          request,    \* at the server, not yet answered
          served,     \* the requests it answered with 200 on this connection
          wire,       \* the lines on their way to the client
          cut,        \* an answer came in pieces or not to its end
          pc,         \* of init(): "idle", "send", "recv", "streams", "crashed"
          msg,        \* the request at hand
          sdpStreams, \* mRtspSession.sdpStreams
          result,     \* of the init() before: "none", "true", "false"
          inits

serverVars == <<program, style>>
connectionVars == <<request, served, wire, cut>>
vars == <<serverVars, connectionVars, pc, msg, sdpStreams, result, inits>>

Init == /\ program \in Programs
        /\ style \in {s \in Styles :
               s = "own" => \A i \in DOMAIN program : program[i].mime \in ServerMimes}
        /\ request = "none" /\ served = {} /\ wire = <<>> /\ cut = FALSE
        /\ pc = "idle" /\ msg = "none" /\ sdpStreams = <<>>
        /\ result = "none" /\ inits = 0

Return(value) == pc' = "idle" /\ result' = value
Go(message) == pc' = "send" /\ msg' = message

-----------------------------------------------------------------------------
\* init() with a URL that is none, or that nobody answers to.
InitFails == /\ pc = "idle" /\ inits < MaxInits
             /\ Return("false")
             /\ inits' = inits + 1
             /\ UNCHANGED <<serverVars, connectionVars, msg, sdpStreams>>

\* init() connects; the socket of the init() before is left open.
Connect == /\ pc = "idle" /\ inits < MaxInits
           /\ inits' = inits + 1
           /\ request' = "none" /\ served' = {} /\ wire' = <<>> /\ cut' = FALSE
           /\ Go("OPTIONS") /\ result' = "none"
           /\ UNCHANGED <<serverVars, sdpStreams>>

\* sendMessage() as far as send().
Send == /\ pc = "send"
        /\ \/ /\ request' = msg
              /\ pc' = "recv"
              /\ UNCHANGED result
           \/ Return("false") /\ UNCHANGED request
        /\ UNCHANGED <<serverVars, served, wire, cut, msg, sdpStreams, inits>>

-----------------------------------------------------------------------------
\* The server.  A header is one the client knows; those whose value it uses have
\* a kind of their own.
Status(code) == <<[kind |-> "status", code |-> code], [kind |-> "header"]>>
Unknown == [kind |-> "unknown"]
Blank == [kind |-> "blank"]

Description == IF style = "own" THEN OwnDescription(program)
               ELSE OtherDescription(program, style = "reversed")

Answers(code) ==
    LET headers == {Status(code)} \cup IF style = "own" THEN {} ELSE {Append(Status(code), Unknown)}
        body == IF request = "DESCRIBE" /\ code = 200 THEN Description ELSE <<>>
        entity == IF body = <<>> THEN <<>>
                  ELSE <<[kind |-> "type"], [kind |-> "length", lines |-> Len(body)]>>
    IN {h \o entity \o <<Blank>> \o body : h \in headers}

\* The server's clientHandler().  It does not answer a PLAY without the session's
\* id, which the client learns from SETUP alone, and its answer ends with the
\* buffer.
OwnAnswer == /\ style = "own" /\ request \in {"OPTIONS", "DESCRIBE"}
             /\ \E code \in IF request = "DESCRIBE" THEN {200, 404} ELSE {200} :
                \E answer \in Answers(code), room \in SendRooms :
                    /\ served' = IF code = 200 THEN served \cup {request} ELSE served
                    /\ wire' = IF Len(answer) > room THEN wire \o SubSeq(answer, 1, room)
                               ELSE wire \o answer
                    /\ cut' = (cut \/ Len(answer) > room)
             /\ request' = "none"
             /\ UNCHANGED <<serverVars, pc, msg, sdpStreams, result, inits>>

OtherAnswer == /\ style # "own" /\ request # "none"
               /\ \E code \in {200, 404} : \E answer \in Answers(code) :
                    /\ served' = IF code = 200 THEN served \cup {request} ELSE served
                    /\ wire' = wire \o answer
               /\ request' = "none"
               /\ UNCHANGED <<serverVars, cut, pc, msg, sdpStreams, result, inits>>

-----------------------------------------------------------------------------
\* sendMessage() from recv() on.

\* The lines up to the first blank one, which the client parses, and what follows.
HeaderLines(lines) == LET blanks == Having(lines, "blank")
                      IN IF blanks = {} THEN lines ELSE SubSeq(lines, 1, Min(blanks) - 1)
BodyLines(lines) == SubSeq(lines, Len(HeaderLines(lines)) + 2, Len(lines))

\* parseLine().  Lines of a description are none that it knows.
Parses(line) == line.kind \in {"status", "header", "type", "length"}

\* statusCode is never initialized: without a status line it may be 200.
Codes(header) == LET lines == Having(header, "status")
                 IN IF lines = {} THEN {0, 200} ELSE {header[Max(lines)].code}

\* Mutant: any status but none is taken for success.
AcceptsAny(code) == code # 0

Accepts(code) == code = 200

\* The description is the last contentLength bytes received.  If fewer of it have
\* come, or the number was never set, it begins somewhere in the header or in
\* front of the buffer: with a line that does not parse, one that looks like an
\* attribute, one that is ignored, or with its end.
Texts(header, body) ==
    LET lengths == Having(header, "length")
    IN IF lengths # {} /\ header[Max(lengths)].lines = Len(body) THEN {body}
       ELSE {<<>>, body, <<[kind |-> "bad"]>> \o body,
             <<[kind |-> "attribute", name |-> "other"]>> \o body}

\* The answer to DESCRIBE.  A parameter set that was looked for behind its buffer
\* may end the program as well.
Described(text) ==
    LET parsed == ParseSdp(text)
        overrun == \E i \in DOMAIN parsed.streams :
                      parsed.streams[i].codec = "H264" /\ parsed.streams[i].sets.pps = Overrun
    IN \/ /\ parsed.outcome = "refused"
          /\ Return("false") /\ UNCHANGED sdpStreams
       \/ /\ parsed.outcome = "crash" \/ overrun
          /\ pc' = "crashed" /\ UNCHANGED <<sdpStreams, result>>
       \/ /\ parsed.outcome = "ok"
          /\ sdpStreams' = sdpStreams \o parsed.streams
          /\ pc' = "streams" /\ UNCHANGED result

Accepted(header, body) ==
    \/ /\ msg = "OPTIONS"
       /\ Go("DESCRIBE") /\ UNCHANGED <<sdpStreams, result>>
    \/ /\ msg = "DESCRIBE" /\ UNCHANGED msg
       /\ IF Having(header, "type") = {}
          THEN pc' = "streams" /\ UNCHANGED <<sdpStreams, result>>
          ELSE \E text \in Texts(header, body) : Described(text)
    \/ /\ msg = "PLAY"
       /\ Return("true") /\ UNCHANGED <<msg, sdpStreams>>

\* recv() returns n lines.
Receive(n) ==
    LET lines == SubSeq(wire, 1, n)
        header == HeaderLines(lines)
    IN /\ pc = "recv" /\ n <= Len(wire)
       /\ wire' = SubSeq(wire, n + 1, Len(wire))
       /\ cut' = (cut \/ n < Len(wire))
       /\ \/ /\ \A k \in DOMAIN header : Parses(header[k])
             /\ \E code \in Codes(header) : Accepts(code)
             /\ Accepted(header, BodyLines(lines))
          \/ /\ \/ \E k \in DOMAIN header : ~Parses(header[k])
                \/ \E code \in Codes(header) : ~Accepts(code)
             /\ Return("false") /\ UNCHANGED <<msg, sdpStreams>>
       /\ UNCHANGED <<serverVars, request, served, inits>>

\* Mutant: without a time limit recv() fails only when the connection does, which
\* it may as long as the server has not dealt with the request.
RecvWaits == /\ pc = "recv" /\ wire = <<>> /\ style # "own"
             /\ Return("false")
             /\ UNCHANGED <<serverVars, connectionVars, msg, sdpStreams, inits>>

\* recv() fails: one second is over, or the connection is.
RecvFails == /\ pc = "recv"
             /\ Return("false")
             /\ UNCHANGED <<serverVars, connectionVars, msg, sdpStreams, inits>>

-----------------------------------------------------------------------------
\* Mutant: the loop leaves the last stream out.
SetupAllButLast == /\ pc = "streams"
                   /\ IF Len(sdpStreams) < 2 THEN Go("PLAY")
                      ELSE pc' = "crashed" /\ UNCHANGED msg
                   /\ UNCHANGED <<serverVars, connectionVars, sdpStreams, result, inits>>

\* The loop of connectRtspServer() ends at its first stream, if there is one: that
\* is a null pointer if its codec is not known; if it is, SETUP looks the RTP
\* stream just made up in mRtpStreams, which nothing ever puts it into.
Setup == /\ pc = "streams"
         /\ IF sdpStreams = <<>> THEN Go("PLAY")
            ELSE pc' = "crashed" /\ UNCHANGED msg
         /\ UNCHANGED <<serverVars, connectionVars, sdpStreams, result, inits>>

Client == Send \/ RecvFails \/ Setup \/ \E n \in 1 .. Len(wire) : Receive(n)

Next == InitFails \/ Connect \/ Client \/ OwnAnswer \/ OtherAnswer

Spec == Init /\ [][Next]_vars

\* The client's thread runs, and its socket has a time limit (SO_RCVTIMEO); the
\* server need not answer.
FairSpec == Spec /\ WF_vars(Client)

-----------------------------------------------------------------------------
\* init() never comes back with a stream: a description with one is the end of
\* the program.
ReturnsWithoutStreams == result # "none" => sdpStreams = <<>>

\* The own server never gets a client to say true, as it answers no PLAY without
\* a session.
TrueFromOthers == result = "true" /\ ~cut => style # "own"

\* How init() ends.  It comes back only from a description without streams, and
\* with true only from another server: one stream, of whatever codec, is the end
\* of the program, and without one the own server does not answer PLAY.  As long
\* as every answer is read in one piece nothing else ends the program.
InitEndsKnown ==
    /\ ReturnsWithoutStreams
    /\ TrueFromOthers
    /\ result = "true" /\ ~cut => program = <<>>
    /\ pc = "crashed" /\ ~cut => program # <<>>

\* init() says true only when the server has said 200 to each request, as long as
\* every answer is read in one piece: nothing matches an answer to its request.
TrueMeansServed ==
    result = "true" /\ ~cut => served = {"OPTIONS", "DESCRIBE", "PLAY"}

\* What of a stream the client knows after it read the description.  From another
\* server: all of an MPEG-4 stream and an HEVC one, in whatever order they are
\* written, of an H.264 stream not the parameter sets, of a LATM stream not the
\* rate.  From the own server, which writes all parameters without a space: the
\* rate of a video stream; and a stream of no codec passes for MPEG-4 audio.
Agrees(i) ==
    LET stream == program[i]
        found == sdpStreams[i]
        own == style = "own"
        codec == IF stream.mime \in {"H264", "HEVC", "LATM"} THEN stream.mime
                 ELSE IF stream.mime = "AAC" \/ own THEN "MPEG4" ELSE NoCodec
    IN /\ found.codec = codec
       /\ codec # NoCodec =>
             /\ found.payloadType = PayloadType(i)
             /\ found.clock = CASE codec = "LATM" -> 0
                                [] codec = "MPEG4" -> IF own THEN 0 ELSE stream.clock
                                [] OTHER -> 90000
             /\ codec = "MPEG4" => found.sizeLength = IF own THEN 0 ELSE 13
             /\ codec = "HEVC" => (found.sets = stream.sets <=> ~own)
             /\ codec = "H264" => found.sets # stream.sets

DescriptionsAgree ==
    sdpStreams # <<>> /\ ~cut =>
        /\ Len(sdpStreams) = Len(program)
        /\ \A i \in DOMAIN sdpStreams : Agrees(i)

\* init() returns, or the program has ended, whatever the server does.
InitReturns == pc \in {"send", "recv", "streams"} ~> pc \in {"idle", "crashed"}
=============================================================================
