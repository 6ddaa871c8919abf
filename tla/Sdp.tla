---------------------------------- MODULE Sdp ----------------------------------
(***************************************************************************)
(* Session descriptions: what the server writes of a program               *)
(* (SdpServerHelper), and what the client makes of a description, the      *)
(* server's own or another's (SdpClientHelper).                            *)
(*                                                                         *)
(* A description is a sequence of lines.  What matters of its text is kept *)
(* as the code sees it: an encoding name is found when it is a part of the *)
(* MIME string of a class, the empty one therefore in the first class; a   *)
(* format line (a=fmtp) is a sequence of words, each a sequence of         *)
(* parameters joined by ';', and the client looks at how a word begins.    *)
(***************************************************************************)
EXTENDS Base64

\* What the client may have for a parameter set besides one of the stream's; both
\* hold what no byte is.
Garbage == <<256>>    \* 256 bytes of its stack: decodeBase64() failed
Overrun == <<257>>    \* what was found behind the end of its buffer

-----------------------------------------------------------------------------
(* The server.  A stream of a program is a record of its mime ("" when the   *)
(* codec is none of the three, RtspProgram.cpp 42-54), its sampling rate,    *)
(* its parameter sets, and of how its profile prints in hexadecimal: with     *)
(* "letters" in front of its last digit, or without.                         *)
ServerMimes == {"AAC", "H264", "HEVC", ""}

\* addStream(): the first class whose MIME has the mime in it.
EncodingName(mime) == CASE mime \in {"AAC", ""} -> "mpeg4-generic"
                        [] mime = "H264" -> "H264"
                        [] mime = "HEVC" -> "H265"

\* getTimescale() once parseCsd() is done: parseCsdMPEG4() has put the sampling
\* rate into the variable of its index and left mFrequency at 0.
Timescale(mime) == IF EncodingName(mime) = "mpeg4-generic" THEN 0 ELSE 90000

\* The parameters of the three kinds of format lines.
Parameters(stream) ==
    CASE EncodingName(stream.mime) = "mpeg4-generic" ->
           <<<<"config", "">>, <<"profile-level-id", "digits">>, <<"streamtype", 5>>,
             <<"mode", "AAC-hbr">>, <<"sizelength", 13>>, <<"indexlength", 3>>,
             <<"indexdeltalength", 3>>>>
      [] EncodingName(stream.mime) = "H264" ->
           <<<<"packetization-mode", 1>>, <<"profile-level-id", stream.profile>>,
             <<"sprop-parameter-sets", EncodeBase64(stream.sets.sps) \o <<Other>>
                                       \o EncodeBase64(stream.sets.pps)>>>>
      [] EncodingName(stream.mime) = "H265" ->
           <<<<"sprop-vps", EncodeBase64(stream.sets.vps)>>,
             <<"sprop-sps", EncodeBase64(stream.sets.sps)>>,
             <<"sprop-pps", EncodeBase64(stream.sets.pps)>>>>

\* The session's lines, "v=", "o=", "s=", "c=", "t=": the client keeps nothing
\* of them that anything depends on.
SessionLines == <<[kind |-> "session"], [kind |-> "session"]>>

Lines(payloadType, name, clock, words) ==
    <<[kind |-> "media", payloadType |-> payloadType],
      [kind |-> "attribute", name |-> "control"],
      [kind |-> "attribute", name |-> "rtpmap", payloadType |-> payloadType,
       encoding |-> name, clock |-> clock, channels |-> name = "mpeg4-generic"],
      [kind |-> "attribute", name |-> "fmtp", words |-> words]>>

\* The lines of several streams, one stream's after the other's.
InTurn(lines) == [n \in 1 .. 4 * Len(lines) |-> lines[1 + (n - 1) \div 4][1 + ((n - 1) % 4)]]

\* RtspProgram::init() counts the payload types from 96.
PayloadType(i) == 95 + i

\* toString(): all parameters of a stream are one word.
OwnDescription(program) ==
    SessionLines
    \o InTurn([i \in DOMAIN program |->
          LET stream == program[i]
          IN Lines(PayloadType(i), EncodingName(stream.mime), Timescale(stream.mime),
                   <<Parameters(stream)>>)])
    \o <<[kind |-> "blank"]>>

\* Other servers (external) put a space behind each ';', give the sampling
\* rate, have codecs the client does not know, and choose their order.
OtherDescription(program, backwards) ==
    SessionLines \o InTurn([i \in DOMAIN program |->
        LET stream == program[i]
            words == IF stream.mime \notin {"AAC", "H264", "HEVC"} THEN <<>>
                     ELSE [k \in DOMAIN Parameters(stream) |-> <<Parameters(stream)[k]>>]
            name == IF words # <<>> THEN EncodingName(stream.mime)
                    ELSE IF stream.mime = "LATM" THEN "MP4A-LATM" ELSE "PCMU"
        IN Lines(PayloadType(i), name, stream.clock,
                 IF backwards THEN Reverse(words) ELSE words)])

-----------------------------------------------------------------------------
(* The client.                                                               *)

\* The class a stream gets, or none: init() asks for the first rtpmap line.
NoCodec == "none"
CodecOf(attributes) ==
    LET rtpmaps == SelectSeq(attributes, LAMBDA a : a.name = "rtpmap")
    IN IF rtpmaps = <<>> THEN NoCodec
       ELSE CASE rtpmaps[1].encoding = "mpeg4-generic" -> "MPEG4"
              [] rtpmaps[1].encoding = "MP4A-LATM" -> "LATM"
              [] rtpmaps[1].encoding = "H264" -> "H264"
              [] rtpmaps[1].encoding = "H265" -> "HEVC"
              [] OTHER -> NoCodec

\* parseRtpmap(): MPEG-4 wants the number of channels too, LATM nothing.
ParseRtpmap(stream, a) ==
    IF \/ stream.codec = "LATM" \/ a.payloadType # stream.payloadType
       \/ stream.codec = "MPEG4" /\ ~a.channels
    THEN stream
    ELSE [stream EXCEPT !.clock = a.clock]

First(word) == word[1][1]
Value(word) == word[1][2]
Joined(word) == Len(word) > 1

\* What a parameter set becomes: the buffer has 256 bytes.
Decoded(text) == IF Decodes(text, 256) THEN DecodeBase64(text) ELSE Garbage

ParseMpeg4(stream, words) ==
    LET sizes == SelectSeq(words, LAMBDA w : First(w) = "sizelength")
    IN IF sizes = <<>> THEN stream ELSE [stream EXCEPT !.sizeLength = Value(Last(sizes))]

\* The profile is read as decimal numbers: a letter in it ends the reading of
\* the line.  The sets are looked for in front of a ';' and behind it, though a
\* ',' stands between them.  A ';' ends the word when other words follow; where
\* there is none the search goes on behind the end of the buffer.
ParseH264(stream, words) ==
    LET letters == {k \in DOMAIN words : First(words[k]) = "profile-level-id"
                                         /\ Value(words[k]) = "letters"}
        read == {k \in DOMAIN words : \A l \in letters : k < l}
        sprop == {k \in read : First(words[k]) = "sprop-parameter-sets"}
        ends(k) == Joined(words[k]) \/ k < Len(words)
        sps(k) == IF ends(k) THEN Decoded(Value(words[k])) ELSE Overrun
        pps(k) == IF Joined(words[k]) THEN Decoded(<<Other>>)
                  ELSE IF ends(k) THEN Decoded(<<>>) ELSE Overrun
    IN IF sprop = {} THEN stream
       ELSE LET k == CHOOSE n \in sprop : TRUE
            IN [stream EXCEPT !.sets = [sps |-> sps(k), pps |-> pps(k)]]

\* Mutant: the ';' that ends a word is left on it.
HevcSetWithSeparator(words, name) ==
    LET at == {k \in DOMAIN words : First(words[k]) = name}
        text(k) == IF Joined(words[k]) \/ k < Len(words) THEN Value(words[k]) \o <<Other>>
                   ELSE Value(words[k])
    IN IF at = {} THEN <<>> ELSE Decoded(text(CHOOSE n \in at : TRUE))

\* A ';' that ends the word is taken off; those in a word of several parameters
\* are not.
HevcSet(words, name) ==
    LET at == {k \in DOMAIN words : First(words[k]) = name}
        text(k) == IF Joined(words[k]) THEN Value(words[k]) \o <<Other>> ELSE Value(words[k])
    IN IF at = {} THEN <<>> ELSE Decoded(text(CHOOSE n \in at : TRUE))

ParseHevc(stream, words) ==
    [stream EXCEPT !.sets = [vps |-> HevcSet(words, "sprop-vps"),
                             sps |-> HevcSet(words, "sprop-sps"),
                             pps |-> HevcSet(words, "sprop-pps")]]

ParseFmtp(stream, a) == CASE stream.codec = "MPEG4" -> ParseMpeg4(stream, a.words)
                          [] stream.codec = "H264" -> ParseH264(stream, a.words)
                          [] stream.codec = "HEVC" -> ParseHevc(stream, a.words)
                          [] stream.codec = "LATM" -> stream

ParseAttribute(stream, a) == CASE a.name = "rtpmap" -> ParseRtpmap(stream, a)
                               [] a.name = "fmtp" -> ParseFmtp(stream, a)
                               [] OTHER -> stream

NoSets == [sps |-> <<>>, pps |-> <<>>]

\* SdpClientBaseStream::init(): mStream, which stays null without a codec.
InitStream(media) ==
    LET codec == CodecOf(media.attributes)
        stream == [codec |-> codec, payloadType |-> media.payloadType, clock |-> 0,
                   sizeLength |-> 0, sets |-> NoSets]
    IN IF codec = NoCodec THEN [codec |-> NoCodec]
       ELSE FoldLeft(ParseAttribute, stream, media.attributes)

\* Which of the lines are of a kind.
Having(lines, kind) == {i \in DOMAIN lines : lines[i].kind = kind}

\* addAttribute(): the stream of an "m=" line has the attributes up to the next one.
MediaAt(lines, at) ==
    LET next == {i \in Having(lines, "media") : i > at} \cup {Len(lines) + 1}
    IN [payloadType |-> lines[at].payloadType,
        attributes |-> SelectSeq(SubSeq(lines, at + 1, Min(next) - 1),
                                 LAMBDA line : line.kind = "attribute")]

\* What ends the loop of parseSdp() early: "refused" at a line that does not parse,
\* the end of the program at an attribute in front of the first "m=".
Outcome(lines) ==
    LET orphans == {i \in Having(lines, "attribute") :
                       \A at \in Having(lines, "media") : i < at}
        stops == orphans \cup Having(lines, "bad")
    IN IF stops = {} THEN "ok" ELSE IF Min(stops) \in orphans THEN "crash" ELSE "refused"

\* parseSdp() and copySdpStreams(): the streams are made up behind the loop.
ParseSdp(lines) ==
    LET media == Having(lines, "media")
        nth(i) == CHOOSE at \in media : Cardinality({m \in media : m <= at}) = i
    IN [outcome |-> Outcome(lines),
        streams |-> IF Outcome(lines) # "ok" THEN <<>>
                    ELSE [i \in 1 .. Cardinality(media) |-> InitStream(MediaAt(lines, nth(i)))]]
=============================================================================
