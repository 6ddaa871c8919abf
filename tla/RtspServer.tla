----------------------------- MODULE RtspServer -----------------------------
(***************************************************************************)
(* RtspServerHelper with one program of type FILE, which its clients       *)
(* share: a handler and a send thread for each client, a sender for each   *)
(* stream the client set up, and the readers RtspProgram::start() makes.   *)
(* RTP and the text of requests and answers are left out; OPTIONS,         *)
(* GET_PARAMETER and requests without effect are stuttering.  A client may *)
(* ask whatever it likes at any time, DESCRIBE, SETUP and PLAY after PLAY  *)
(* included.                                                               *)
(*                                                                         *)
(* The program is there from the beginning: how it would be registered is  *)
(* left out, as addProgramFile() returns unless a program of the same name *)
(* is there already (line 483) and never adds the first.                   *)
(***************************************************************************)
EXTENDS Naturals, Sequences, FiniteSets

CONSTANTS Clients,      \* whoever connects
          Leaving,      \* those that may leave
          NoClient,
          Files,        \* what the file may hold: sequences of media
          QueueMax      \* places in a queue of packets: 10 in the code

Media == {"video", "audio"}

ASSUME RtspAssumption == /\ NoClient \notin Clients
                         /\ Leaving \subseteq Clients
                         /\ \A f \in Files : f \in Seq(Media)
                         /\ QueueMax \in Nat \ {0}

VARIABLES
    handler,      \* of the client: "recv", or "closing" and joining
    session,      \* rtspSession: "none" (or rtspProgram is null), "new", or "played"
    streams,      \* the media set up in it, or since PLAY in the session played
    send,         \* where the client's send thread is
    sender,       \* per medium: "none", "pop", "done"
    queue,        \* videoBufferQueue, audioBufferQueue; 0 is the null at the end
    sent,         \* the packets given to the RTP stream
    callback,     \* per medium, whose send thread's the callback of the program is
    mIsStarted,
    reader,       \* where the reader is that the client's start() made
    hand,         \* what it holds: <<medium, packet>>
    target,       \* whose queue it pushes to
    file,
    position,     \* packets read from mpFormatCtx
    refused,      \* those for whom start() returned early
    crashed       \* "no", or what ended the program

clientVars == <<handler, session, streams>>
sendVars == <<send, callback, mIsStarted, refused>>
senderVars == <<sender, sent>>
readerVars == <<reader, hand, target, position>>
vars == <<clientVars, sendVars, senderVars, readerVars, queue, file, crashed>>

Init == /\ handler = [c \in Clients |-> "recv"]
        /\ session = [c \in Clients |-> "none"]
        /\ streams = [c \in Clients |-> {}]
        /\ send = [c \in Clients |-> "none"]
        /\ sender = [c \in Clients |-> [m \in Media |-> "none"]]
        /\ queue = [c \in Clients |-> [m \in Media |-> <<>>]]
        /\ sent = [c \in Clients |-> [m \in Media |-> <<>>]]
        /\ callback = [m \in Media |-> NoClient]
        /\ mIsStarted = FALSE
        /\ reader = [c \in Clients |-> "none"]
        /\ hand = [c \in Clients |-> <<"video", 0>>]
        /\ target = [c \in Clients |-> NoClient]
        /\ file \in Files
        /\ position = 0
        /\ refused = {}
        /\ crashed = "no"

Players == {c \in Clients : send[c] # "none"}

-----------------------------------------------------------------------------
\* clientHandler(): one request.

\* DESCRIBE begins a new session, or answers 404: without a program the session
\* before is of no use either.  A send thread keeps the session it was given.
Describe(c, known) ==
    /\ handler[c] = "recv"
    /\ session' = [session EXCEPT ![c] = IF known THEN "new" ELSE "none"]
    /\ streams' = [streams EXCEPT ![c] = IF send[c] = "none" THEN {} ELSE @]
    /\ UNCHANGED <<handler, sendVars, senderVars, readerVars, queue, file, crashed>>

\* SETUP of a stream the program has.  It is served after PLAY as well: as long
\* as the send thread has not been through the streams of the session, the vector
\* may grow under its loop.  What is set up later, or in a session begun since,
\* is never used: a second PLAY ends the program.
Setup(c, m) ==
    /\ handler[c] = "recv" /\ session[c] # "none"
    /\ m \in {file[i] : i \in DOMAIN file}
    /\ \/ send[c] = "none" /\ UNCHANGED crashed
       \/ /\ send[c] = "streams" /\ session[c] = "played"
          /\ crashed' \in {"no", "streams in use"}
    /\ streams' = [streams EXCEPT ![c] = @ \cup {m}]
    /\ UNCHANGED <<handler, session, sendVars, senderVars, readerVars, queue, file>>

\* PLAY makes the send thread.  The second PLAY of a client destroys a thread
\* that was not joined, which ends the program.
Play(c) == /\ handler[c] = "recv" /\ session[c] # "none"
           /\ \/ /\ send[c] = "none"
                 /\ send' = [send EXCEPT ![c] = "streams"]
                 /\ session' = [session EXCEPT ![c] = "played"]
                 /\ UNCHANGED crashed
              \/ /\ send[c] # "none"
                 /\ crashed' = "PLAY twice"
                 /\ UNCHANGED <<send, session>>
           /\ UNCHANGED <<handler, streams, callback, mIsStarted, refused, senderVars, readerVars,
                          queue, file>>

\* TEARDOWN, the end of the connection, or a request that cannot be parsed.
Leave(c) == /\ c \in Leaving
            /\ handler[c] = "recv"
            /\ handler' = [handler EXCEPT ![c] = "closing"]
            /\ UNCHANGED <<session, streams, sendVars, senderVars, readerVars, queue, file, crashed>>

\* The handler returns when it has joined the send thread.
HasReturned(c) == handler[c] = "closing" /\ send[c] \in {"none", "done"}

-----------------------------------------------------------------------------
\* sendThread(): queues and senders of its own, the program's callbacks, its
\* start(), and the senders' end.

SendGoes(c, from, to) == /\ send[c] = from
                         /\ send' = [send EXCEPT ![c] = to]

\* A queue and a sender for each medium set up, whatever the session has by now.
TakeStreams(c) ==
    /\ SendGoes(c, "streams", "video")
    /\ sender' = [sender EXCEPT ![c] =
                     [m \in Media |-> IF m \in streams[c] THEN "pop" ELSE "none"]]
    /\ UNCHANGED <<clientVars, callback, mIsStarted, refused, sent, readerVars, queue, file,
                   crashed>>

\* Nothing keeps a reader from calling the callback that is being replaced.
SetCallback(c, m) ==
    /\ SendGoes(c, m, IF m = "video" THEN "audio" ELSE "start")
    /\ callback' = [callback EXCEPT ![m] = c]
    /\ crashed' \in IF \E r \in Clients : reader[r] = "call" /\ hand[r][1] = m
                    THEN {"no", "callback in use"} ELSE {"no"}
    /\ UNCHANGED <<clientVars, mIsStarted, refused, senderVars, readerVars, queue, file>>

\* start() looks at mIsStarted, makes the reader, and then sets mIsStarted.
StartReturns(c) == /\ SendGoes(c, "start", "join")
                   /\ mIsStarted
                   /\ refused' = refused \cup {c}
                   /\ UNCHANGED <<clientVars, callback, mIsStarted, senderVars, readerVars, queue,
                                  file, crashed>>

MakeReader(c) == /\ SendGoes(c, "start", "mark")
                 /\ ~mIsStarted
                 /\ reader' = [reader EXCEPT ![c] = "read"]
                 /\ UNCHANGED <<clientVars, callback, mIsStarted, refused, senderVars, hand, target,
                                position, queue, file, crashed>>

MarkStarted(c) == /\ SendGoes(c, "mark", "join")
                  /\ mIsStarted' = TRUE
                  /\ UNCHANGED <<clientVars, callback, refused, senderVars, readerVars, queue, file,
                                 crashed>>

\* Mutant: the audio sender is left to itself.
JoinVideoSender(c) == /\ SendGoes(c, "join", "done")
                      /\ sender[c]["video"] # "pop"
                      /\ UNCHANGED <<clientVars, callback, mIsStarted, refused, senderVars,
                                     readerVars, queue, file, crashed>>

JoinSenders(c) == /\ SendGoes(c, "join", "done")
                  /\ \A m \in Media : sender[c][m] # "pop"
                  /\ UNCHANGED <<clientVars, callback, mIsStarted, refused, senderVars, readerVars,
                                 queue, file, crashed>>

\* Mutant: the null at the end is passed over like a packet.
SendPacketOrNull(c, m) ==
    /\ sender[c][m] = "pop"
    /\ queue[c][m] # <<>>
    /\ queue' = [queue EXCEPT ![c][m] = Tail(@)]
    /\ IF Head(queue[c][m]) = 0 THEN UNCHANGED sent
       ELSE sent' = [sent EXCEPT ![c][m] = Append(@, Head(queue[c][m]))]
    /\ UNCHANGED <<clientVars, sendVars, sender, readerVars, file, crashed>>

\* A sender: the null at the end makes it leave.
SendPacket(c, m) ==
    /\ sender[c][m] = "pop"
    /\ queue[c][m] # <<>>
    /\ queue' = [queue EXCEPT ![c][m] = Tail(@)]
    /\ IF Head(queue[c][m]) = 0
       THEN sender' = [sender EXCEPT ![c][m] = "done"] /\ UNCHANGED sent
       ELSE sent' = [sent EXCEPT ![c][m] = Append(@, Head(queue[c][m]))] /\ UNCHANGED sender
    /\ UNCHANGED <<clientVars, sendVars, readerVars, file, crashed>>

-----------------------------------------------------------------------------
\* readfile.  The format context is shared by all readers and never rewound.

\* Mutant: the loop ends with the last packet instead of after it.
ReadFrameButLast(r) ==
    /\ reader[r] = "read"
    /\ reader' = [reader EXCEPT ![r] = "call"]
    /\ IF position + 1 < Len(file)
       THEN /\ position' = position + 1
            /\ hand' = [hand EXCEPT ![r] = <<file[position + 1], position + 1>>]
       ELSE /\ hand' = [hand EXCEPT ![r] = <<"video", 0>>]
            /\ UNCHANGED position
    /\ UNCHANGED <<clientVars, sendVars, senderVars, target, queue, file, crashed>>

ReadFrame(r) ==
    /\ reader[r] = "read"
    /\ reader' = [reader EXCEPT ![r] = "call"]
    /\ IF position < Len(file)
       THEN /\ position' = position + 1
            /\ hand' = [hand EXCEPT ![r] = <<file[position + 1], position + 1>>]
       ELSE /\ hand' = [hand EXCEPT ![r] = <<"video", 0>>]
            /\ UNCHANGED position
    /\ crashed' \in IF \E s \in Clients \ {r} : reader[s] = "read"
                    THEN {"no", "two readers"} ELSE {"no"}
    /\ UNCHANGED <<clientVars, sendVars, senderVars, target, queue, file>>

\* Where the reader goes from the callback: after a packet to the next one,
\* after the video's end to the audio's, and then out of the loop.
AfterCall(r) ==
    /\ reader' = [reader EXCEPT ![r] = IF hand[r][2] # 0 THEN "read"
                                       ELSE IF hand[r][1] = "video" THEN "call" ELSE "clear"]
    /\ hand' = [hand EXCEPT ![r] = IF @ = <<"video", 0>> THEN <<"audio", 0>> ELSE <<"video", 0>>]
    /\ target' = [target EXCEPT ![r] = NoClient]

\* The callback refers to variables of the send thread that set it, gone when
\* that has ended, and to a queue that is null without such a stream.
Call(r) ==
    /\ reader[r] = "call"
    /\ LET m == hand[r][1]
           c == callback[m]
       IN  \/ /\ c = NoClient
              /\ AfterCall(r)
              /\ UNCHANGED crashed
           \/ /\ c # NoClient /\ (send[c] = "done" \/ m \notin streams[c])
              /\ crashed' = "no such queue"
              /\ UNCHANGED <<reader, hand, target>>
           \/ /\ c # NoClient /\ send[c] # "done" /\ m \in streams[c]
              /\ reader' = [reader EXCEPT ![r] = "push"]
              /\ target' = [target EXCEPT ![r] = c]
              /\ UNCHANGED <<hand, crashed>>
    /\ UNCHANGED <<clientVars, sendVars, senderVars, position, queue, file>>

\* Mutant: the size of the queue is not looked at.
PushAnyway(r) ==
    /\ reader[r] = "push"
    /\ LET m == hand[r][1]
           c == target[r]
       IN  queue' = [queue EXCEPT ![c][m] = Append(@, hand[r][2])]
    /\ AfterCall(r)
    /\ UNCHANGED <<clientVars, sendVars, senderVars, position, file, crashed>>

Push(r) ==
    /\ reader[r] = "push"
    /\ LET m == hand[r][1]
           c == target[r]
       IN  \/ /\ send[c] # "done"
              /\ Len(queue[c][m]) < QueueMax
              /\ queue' = [queue EXCEPT ![c][m] = Append(@, hand[r][2])]
              /\ AfterCall(r)
              /\ UNCHANGED crashed
           \/ /\ send[c] = "done"
              /\ crashed' = "no such queue"
              /\ UNCHANGED <<queue, reader, hand, target>>
    /\ UNCHANGED <<clientVars, sendVars, senderVars, position, file>>

ClearStarted(r) == /\ reader[r] = "clear"
                   /\ reader' = [reader EXCEPT ![r] = "done"]
                   /\ mIsStarted' = FALSE
                   /\ UNCHANGED <<clientVars, send, callback, refused, senderVars, hand, target,
                                  position, queue, file, crashed>>

-----------------------------------------------------------------------------
Request(c) == \/ \E known \in BOOLEAN : Describe(c, known)
              \/ \E m \in Media : Setup(c, m)
              \/ Play(c) \/ Leave(c)

SendThread(c) == \/ TakeStreams(c)
                 \/ \E m \in Media : SetCallback(c, m)
                 \/ StartReturns(c) \/ MakeReader(c) \/ MarkStarted(c)
                 \/ JoinSenders(c)

Reader(r) == ReadFrame(r) \/ Call(r) \/ Push(r) \/ ClearStarted(r)

\* A thread of the server moves.
ServerStep == \E c \in Clients : \/ SendThread(c) \/ Reader(c)
                                  \/ \E m \in Media : SendPacket(c, m)

Next == /\ crashed = "no"
        /\ ServerStep \/ \E c \in Clients : Request(c)

Spec == Init /\ [][Next]_vars

-----------------------------------------------------------------------------
ServerTypeOK ==
    /\ handler \in [Clients -> {"recv", "closing"}]
    /\ session \in [Clients -> {"none", "new", "played"}]
    /\ streams \in [Clients -> SUBSET Media]
    /\ send \in [Clients -> {"none", "streams", "video", "audio", "start", "mark", "join",
                         "done"}]
    /\ sender \in [Clients -> [Media -> {"none", "pop", "done"}]]
    /\ queue \in [Clients -> [Media -> Seq(0 .. Len(file))]]
    /\ \A c \in Clients, m \in Media : Len(queue[c][m]) <= QueueMax
    /\ sent \in [Clients -> [Media -> Seq(1 .. Len(file))]]
    /\ callback \in [Media -> Clients \cup {NoClient}]
    /\ mIsStarted \in BOOLEAN
    /\ reader \in [Clients -> {"none", "read", "call", "push", "clear", "done"}]
    /\ hand \in [Clients -> Media \X (0 .. Len(file))]
    /\ target \in [Clients -> Clients \cup {NoClient}]
    /\ position \in 0 .. Len(file)
    /\ refused \subseteq Clients
    /\ crashed \in {"no", "PLAY twice", "streams in use", "callback in use", "two readers",
                   "no such queue"}

\* The readers made so far.
Readers == {r \in Clients : reader[r] # "none"}

\* What takes the server down.  A client alone can, by a second PLAY and by a
\* SETUP after PLAY.  A callback is replaced under a reader's hands only by a
\* second player, two readers use the format context only if two were made; and
\* no callback outlives the send thread whose queues it refers to, however many
\* clients play, as long as one reader was made and everybody set up both media.
CrashesKnown ==
    /\ crashed = "callback in use" => Cardinality(Players) > 1
    /\ crashed = "two readers" => Cardinality(Readers) > 1
    /\ crashed = "no such queue" => \/ Cardinality(Readers) > 1
                                    \/ \E c \in Players : streams[c] # Media

\* The packets of a medium, by their places in the file.
Packets(m) == {i \in DOMAIN file : file[i] = m}

Ascending(s) == \A i \in 1 .. Len(s) - 1 : s[i] < s[i + 1]

\* No packet goes to two clients or twice to one, and each gets its packets in
\* the order of the file, as long as there was one reader at a time; the one
\* that is alone gets all of them.
PacketsSentOnce ==
    Cardinality(Readers) <= 1 =>
        \A c \in Clients, m \in Media :
            /\ Ascending(sent[c][m])
            /\ \A d \in Clients \ {c} : \A i \in DOMAIN sent[c][m], j \in DOMAIN sent[d][m] :
                   sent[c][m][i] # sent[d][m][j]
            /\ Players = {c} /\ sender[c][m] = "done" =>
                   {sent[c][m][i] : i \in DOMAIN sent[c][m]} = Packets(m)

\* Another client took the callbacks, or start() found mIsStarted set: by a reader
\* that goes on, that is about to leave, or that left before the flag was set.
Overtaken(c) == \/ c \in refused
                \/ send[c] \in {"start", "mark", "join"} /\ \E m \in streams[c] : callback[m] # c

\* When a client has left, its handler ends: until it has joined its send thread
\* (RtspServerHelper.cpp 291-293) some thread of the server can move, and each step
\* brings a packet, a sender or a thread nearer to its end.  Only a client whose
\* session was overtaken keeps a handler, a send thread and senders for ever, with
\* nothing left that moves.
SessionsEnd == \A c \in Clients :
    handler[c] = "closing" /\ crashed = "no" =>
        HasReturned(c) \/ Overtaken(c) \/ ENABLED ServerStep
=============================================================================
