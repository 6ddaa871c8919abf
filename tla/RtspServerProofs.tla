-------------------------- MODULE RtspServerProofs --------------------------
(***************************************************************************)
(* Proofs about RtspServer, for any clients, files and size of the queues: *)
(* its types; which clients can take the program down; and that, while     *)
(* start() made one reader, no packet is lost, sent twice or sent to two.  *)
(*                                                                         *)
(* The argument follows a client's line: what was sent to it and what is   *)
(* queued for it, a sequence that only the reader extends and that a       *)
(* sender leaves as it is when it sends.                                   *)
(***************************************************************************)
EXTENDS RtspServer, SequenceTheorems, FiniteSetTheorems, TLAPS

-----------------------------------------------------------------------------
(* The invariant *)

\* Where a send thread can be, and what can end the program.
SendPlaces == {"none", "streams", "video", "audio", "start", "mark", "join", "done"}
Ends == {"no", "PLAY twice", "streams in use", "callback in use", "two readers", "no such queue"}

\* Those whose send thread has been through the streams of the session.
Takers == {c \in Clients : send[c] \notin {"none", "streams"}}

\* The types, and a reader that pushes has whose queue it pushes to.
TypeInv == /\ ServerTypeOK
           /\ file \in Seq(Media)
           /\ \A r \in Clients : reader[r] = "push" => target[r] \in Clients

\* Readers, callbacks and queues belong to clients that play: sendThread() made
\* the reader, set the callback and has a sender for each stream.
PlayersInv ==
    /\ IsFiniteSet(Players)
    /\ \A r \in Clients : reader[r] # "none" => send[r] \in {"mark", "join", "done"}
    /\ \A m \in Media : callback[m] # NoClient => callback[m] \in Takers
    /\ \A r \in Clients : reader[r] = "push" =>
           target[r] \in Takers /\ hand[r][1] \in streams[target[r]]
    /\ \A c \in Clients, m \in Media :
           /\ c \in Takers => (sender[c][m] = "none" <=> m \notin streams[c])
           /\ c \notin Takers => sender[c][m] = "none" /\ queue[c][m] = <<>> /\ sent[c][m] = <<>>
           /\ send[c] = "done" => sender[c][m] # "pop"

\* The send thread of one who is alone has set the callbacks it has come past.
AloneInv == \A c \in Clients : Players = {c} =>
    /\ send[c] \notin {"streams", "video"} => callback["video"] = c
    /\ send[c] \notin {"streams", "video", "audio"} => callback["audio"] = c

\* No two clients had start() make a reader.
OneReader == \A r, s \in Clients : reader[r] # "none" /\ reader[s] # "none" => r = s

\* The reader has a packet, or the null at the end, for a callback.
Reading(r) == reader[r] \in {"call", "push"}

\* What the only reader has in hand is what it read last; it gives the null out
\* when the file is read, and leaves the loop after that.
ReaderInv == OneReader =>
    /\ (\A r \in Clients : reader[r] = "none") => position = 0
    /\ \A r \in Clients :
         /\ Reading(r) /\ hand[r][2] # 0 =>
                position > 0 /\ hand[r] = <<file[position], position>>
         /\ Reading(r) /\ hand[r][2] = 0 => position = Len(file)
         /\ reader[r] \in {"clear", "done"} => position = Len(file)

\* What was queued for the client, the null a sender has taken left out.
Line(c, m) == sent[c][m] \o queue[c][m]

\* The reader has come past the end of the medium: its null was queued, or there was
\* no callback to take it.
Past(r, m) == \/ reader[r] \in {"clear", "done"}
              \/ m = "video" /\ Reading(r) /\ hand[r] = <<"audio", 0>>

\* A null comes last, and what comes before it ascends.
Sorted(s) == \A i, j \in DOMAIN s : i < j => s[i] # 0 /\ (s[j] = 0 \/ s[i] < s[j])

\* A client's line of one medium ascends, was read, and is of the medium; what
\* the reader has in hand is not in it yet.  A null in the queue was pushed by the
\* reader, and the sender that took it left nothing behind.
LineFacts(c, m) ==
    /\ Sorted(Line(c, m))
    /\ \A i \in DOMAIN Line(c, m) :
           /\ Line(c, m)[i] # 0 => Line(c, m)[i] <= position /\ file[Line(c, m)[i]] = m
           /\ \A r \in Clients : Reading(r) /\ hand[r][1] = m /\ hand[r][2] # 0 =>
                  Line(c, m)[i] # hand[r][2]
    /\ (\E i \in DOMAIN queue[c][m] : queue[c][m][i] = 0) \/ sender[c][m] = "done" =>
           \E r \in Clients : Past(r, m)
    /\ sender[c][m] = "done" => queue[c][m] = <<>>

\* So are all lines, while there is one reader.
LineInv == OneReader => \A c \in Clients, m \in Media : LineFacts(c, m)

\* No packet is in the lines of two clients.
ApartInv == OneReader => \A c, d \in Clients, m \in Media : c # d =>
    \A i \in DOMAIN Line(c, m), j \in DOMAIN Line(d, m) :
        Line(c, m)[i] = Line(d, m)[j] => Line(c, m)[i] = 0

\* Whatever was read of a medium that the only player set up is in its line, or
\* on its way there.
WholeInv == \A c \in Clients : Players = {c} =>
    \A m \in streams[c] : \A i \in 1 .. position : file[i] = m =>
        \/ \E j \in DOMAIN Line(c, m) : Line(c, m)[j] = i
        \/ Reading(c) /\ hand[c] = <<m, i>>

-----------------------------------------------------------------------------
(* Types *)

\* The initial state has the types.
LEMMA InitTypes == Init => TypeInv
<1> SUFFICES ASSUME Init PROVE TypeInv
  OBVIOUS
<1>1. file \in Seq(Media)
  BY RtspAssumption DEF Init
<1>2. Len(file) \in Nat
  BY <1>1, LenProperties
<1>3. \A S : <<>> \in Seq(S)
  OBVIOUS
<1>4. queue \in [Clients -> [Media -> Seq(0 .. Len(file))]]
      /\ sent \in [Clients -> [Media -> Seq(1 .. Len(file))]]
      /\ \A c \in Clients, m \in Media : Len(queue[c][m]) <= QueueMax
  BY <1>2, <1>3, RtspAssumption DEF Init
<1>5. hand \in [Clients -> Media \X (0 .. Len(file))] /\ position \in 0 .. Len(file)
  BY <1>2 DEF Init, Media
<1>6. session \in [Clients -> {"none", "new", "played"}] /\ mIsStarted \in BOOLEAN
  BY Zenon DEF Init
<1>7. /\ handler \in [Clients -> {"recv", "closing"}]
      /\ streams \in [Clients -> SUBSET Media]
      /\ send \in [Clients -> SendPlaces]
      /\ sender \in [Clients -> [Media -> {"none", "pop", "done"}]]
      /\ callback \in [Media -> Clients \cup {NoClient}]
      /\ reader \in [Clients -> {"none", "read", "call", "push", "clear", "done"}]
      /\ target \in [Clients -> Clients \cup {NoClient}]
      /\ refused \subseteq Clients
      /\ crashed \in Ends
  BY DEF Init, SendPlaces, Ends
<1>8. \A r \in Clients : reader[r] # "push"
  BY DEF Init
<1> QED BY <1>1, <1>4, <1>5, <1>6, <1>7, <1>8 DEF TypeInv, ServerTypeOK, SendPlaces, Ends

\* The parts of TypeInv that a request can touch.
LEMMA RequestTypes == ASSUME TypeInv, NEW c \in Clients, Request(c) PROVE TypeInv'
<1> USE DEF TypeInv, ServerTypeOK, clientVars, sendVars, senderVars, readerVars
<1>1. ASSUME NEW known \in BOOLEAN, Describe(c, known) PROVE TypeInv'
  <2>1. session' \in [Clients -> {"none", "new", "played"}]
    BY <1>1 DEF Describe
  <2>2. streams' \in [Clients -> SUBSET Media]
    BY <1>1 DEF Describe
  <2> QED BY <1>1, <2>1, <2>2 DEF Describe
<1>2. ASSUME NEW m \in Media, Setup(c, m) PROVE TypeInv'
  <2>1. streams' \in [Clients -> SUBSET Media]
    BY <1>2 DEF Setup
  <2>2. crashed' \in Ends
    BY <1>2 DEF Setup, Ends
  <2> QED BY <1>2, <2>1, <2>2 DEF Setup, Ends
<1>3. CASE Play(c)
  <2>1. send' \in [Clients -> SendPlaces]
    <3>1. UNCHANGED send \/ send' = [send EXCEPT ![c] = "streams"]
      BY <1>3, Zenon DEF Play
    <3>2. send \in [Clients -> SendPlaces] /\ "streams" \in SendPlaces
      BY DEF SendPlaces
    <3> QED BY <3>1, <3>2
  <2>2. session' \in [Clients -> {"none", "new", "played"}]
    <3>1. UNCHANGED session \/ session' = [session EXCEPT ![c] = "played"]
      BY <1>3, Zenon DEF Play
    <3> QED BY <3>1
  <2>3. crashed' \in Ends
    <3>1. crashed' = crashed \/ crashed' = "PLAY twice"
      BY <1>3 DEF Play
    <3> QED BY <3>1 DEF Ends
  <2> QED BY <1>3, <2>1, <2>2, <2>3 DEF Play, SendPlaces, Ends
<1>4. CASE Leave(c)
  <2>1. handler' \in [Clients -> {"recv", "closing"}]
    BY <1>4 DEF Leave
  <2> QED BY <1>4, <2>1 DEF Leave
<1> QED BY <1>1, <1>2, <1>3, <1>4 DEF Request

\* The steps of a send thread keep the types.
LEMMA SendThreadTypes == ASSUME TypeInv, NEW c \in Clients, SendThread(c) PROVE TypeInv'
<1> USE DEF TypeInv, ServerTypeOK, clientVars, sendVars, senderVars, readerVars
<1>0. CASE TakeStreams(c)
  <2>1. send' \in [Clients -> SendPlaces]
    <3>1. send' = [send EXCEPT ![c] = "video"]
      BY <1>0 DEF TakeStreams, SendGoes
    <3>2. send \in [Clients -> SendPlaces] /\ "video" \in SendPlaces
      BY DEF SendPlaces
    <3> QED BY <3>1, <3>2
  <2>2. sender' \in [Clients -> [Media -> {"none", "pop", "done"}]]
    <3>1. [m \in Media |-> IF m \in streams[c] THEN "pop" ELSE "none"] \in [Media -> {"none", "pop", "done"}]
      OBVIOUS
    <3>2. sender' = [sender EXCEPT ![c] = [m \in Media |-> IF m \in streams[c] THEN "pop" ELSE "none"]]
      BY <1>0, Zenon DEF TakeStreams
    <3>3. sender \in [Clients -> [Media -> {"none", "pop", "done"}]]
      OBVIOUS
    <3> QED BY <3>1, <3>2, <3>3
  <2> QED BY <1>0, <2>1, <2>2 DEF TakeStreams, SendPlaces
<1>s. CASE ~TakeStreams(c)
  <2>1. send' \in [Clients -> SendPlaces]
    <3>1. \E to \in SendPlaces : send' = [send EXCEPT ![c] = to]
      BY <1>s DEF SendThread, SetCallback, StartReturns, MakeReader, MarkStarted, JoinSenders,
             SendGoes, SendPlaces
    <3>2. send \in [Clients -> SendPlaces]
      BY DEF SendPlaces
    <3> HIDE DEF TypeInv, ServerTypeOK
    <3> QED BY <3>1, <3>2
  <2>2. callback' \in [Media -> Clients \cup {NoClient}]
    BY <1>s DEF SendThread, SetCallback, StartReturns, MakeReader, MarkStarted, JoinSenders
  <2>3. refused' \subseteq Clients /\ mIsStarted' \in BOOLEAN
    BY <1>s DEF SendThread, SetCallback, StartReturns, MakeReader, MarkStarted, JoinSenders
  <2>4. reader' \in [Clients -> {"none", "read", "call", "push", "clear", "done"}]
        /\ \A r \in Clients : reader'[r] = "push" => reader[r] = "push"
    <3>1. UNCHANGED reader \/ reader' = [reader EXCEPT ![c] = "read"]
      BY <1>s DEF SendThread, SetCallback, StartReturns, MakeReader, MarkStarted, JoinSenders
    <3>2. reader \in [Clients -> {"none", "read", "call", "push", "clear", "done"}]
      OBVIOUS
    <3> HIDE DEF TypeInv, ServerTypeOK
    <3> QED BY <3>1, <3>2
  <2>5. crashed' \in Ends
    BY <1>s DEF SendThread, SetCallback, StartReturns, MakeReader, MarkStarted, JoinSenders, Ends
  <2>6. UNCHANGED <<clientVars, sender, sent, hand, target, position, queue, file>>
    <3>1. (\E m \in Media : SetCallback(c, m)) => UNCHANGED <<clientVars, senderVars, readerVars, queue, file>>
      BY Zenon DEF SetCallback
    <3>2. StartReturns(c) \/ MarkStarted(c) \/ JoinSenders(c)
              => UNCHANGED <<clientVars, senderVars, readerVars, queue, file>>
      BY DEF StartReturns, MarkStarted, JoinSenders
    <3>3. MakeReader(c) => UNCHANGED <<clientVars, senderVars, hand, target, position, queue, file>>
      BY DEF MakeReader
    <3> QED BY <1>s, <3>1, <3>2, <3>3 DEF SendThread
  <2> QED BY <2>1, <2>2, <2>3, <2>4, <2>5, <2>6 DEF SendPlaces, Ends
<1> QED BY <1>0, <1>s

\* A sender takes the head of its queue, and sends it unless it is null.
LEMMA SendPacketTypes ==
    ASSUME TypeInv, NEW c \in Clients, NEW m \in Media, SendPacket(c, m)
    PROVE  TypeInv'
<1>t. /\ queue \in [Clients -> [Media -> Seq(0 .. Len(file))]]
      /\ sent \in [Clients -> [Media -> Seq(1 .. Len(file))]]
      /\ sender \in [Clients -> [Media -> {"none", "pop", "done"}]]
      /\ \A d \in Clients, n \in Media : Len(queue[d][n]) <= QueueMax
      /\ file \in Seq(Media) /\ Len(file) \in Nat /\ QueueMax \in Nat
  BY RtspAssumption, LenProperties DEF TypeInv, ServerTypeOK
<1>0. /\ queue[c][m] \in Seq(0 .. Len(file)) /\ queue[c][m] # <<>>
      /\ sent[c][m] \in Seq(1 .. Len(file))
  BY <1>t DEF SendPacket
<1>1. Head(queue[c][m]) \in 0 .. Len(file) /\ Tail(queue[c][m]) \in Seq(0 .. Len(file))
      /\ Len(Tail(queue[c][m])) = Len(queue[c][m]) - 1 /\ Len(queue[c][m]) \in Nat
  BY <1>0, HeadTailProperties, LenProperties
<1>2. queue' \in [Clients -> [Media -> Seq(0 .. Len(file))]]
  BY <1>1, <1>t DEF SendPacket
<1>3. \A d \in Clients, n \in Media : Len(queue'[d][n]) <= QueueMax
  <2>1. \A d \in Clients, n \in Media :
            queue'[d][n] = IF d = c /\ n = m THEN Tail(queue[c][m]) ELSE queue[d][n]
    BY <1>t DEF SendPacket
  <2>2. Len(Tail(queue[c][m])) <= QueueMax
    BY <1>1, <1>t
  <2> QED BY <1>t, <2>1, <2>2, Zenon
<1>4. sent' \in [Clients -> [Media -> Seq(1 .. Len(file))]]
  <2>1. CASE Head(queue[c][m]) = 0
    BY <2>1, <1>t DEF SendPacket
  <2>2. CASE Head(queue[c][m]) # 0
    <3>1. Head(queue[c][m]) \in 1 .. Len(file)
      BY <1>1, <1>t, <2>2
    <3>2. Append(sent[c][m], Head(queue[c][m])) \in Seq(1 .. Len(file))
      BY <1>0, <3>1, AppendProperties
    <3>3. sent' = [sent EXCEPT ![c][m] = Append(@, Head(queue[c][m]))]
      BY <2>2 DEF SendPacket
    <3> QED BY <3>2, <3>3, <1>t
  <2> QED BY <2>1, <2>2
<1>5. sender' \in [Clients -> [Media -> {"none", "pop", "done"}]]
  <2>1. UNCHANGED sender \/ sender' = [sender EXCEPT ![c] = [sender[c] EXCEPT ![m] = "done"]]
    BY DEF SendPacket
  <2>2. [sender[c] EXCEPT ![m] = "done"] \in [Media -> {"none", "pop", "done"}]
    BY <1>t
  <2>3. sender \in [Clients -> [Media -> {"none", "pop", "done"}]]
    BY <1>t
  <2> QED BY <2>1, <2>2, <2>3
<1>6. UNCHANGED <<clientVars, sendVars, readerVars, file, crashed>>
  BY DEF SendPacket
<1> QED BY <1>2, <1>3, <1>4, <1>5, <1>6 DEF TypeInv, ServerTypeOK, clientVars, sendVars,
           readerVars

\* The places of the file that can be read.
LEMMA PositionTypes ==
    TypeInv => /\ Len(file) \in Nat /\ position \in Nat /\ position <= Len(file)
               /\ (position < Len(file) => file[position + 1] \in Media /\ position + 1 \in 0 .. Len(file))
               /\ \A i \in 1 .. Len(file) : file[i] \in Media
               /\ DOMAIN file = 1 .. Len(file)
<1> SUFFICES ASSUME TypeInv
             PROVE  /\ Len(file) \in Nat /\ position \in Nat /\ position <= Len(file)
                    /\ (position < Len(file) => file[position + 1] \in Media /\ position + 1 \in 0 .. Len(file))
                    /\ \A i \in 1 .. Len(file) : file[i] \in Media
                    /\ DOMAIN file = 1 .. Len(file)
  OBVIOUS
<1>1. file \in Seq(Media) /\ position \in 0 .. Len(file)
  BY DEF TypeInv, ServerTypeOK
<1>2. Len(file) \in Nat /\ DOMAIN file = 1 .. Len(file) /\ \A i \in 1 .. Len(file) : file[i] \in Media
  BY <1>1, LenProperties
<1> QED BY <1>1, <1>2

\* What a reader has in hand, and the queue it pushes to.
LEMMA HandTypes ==
    ASSUME TypeInv, NEW r \in Clients
    PROVE  /\ hand[r][1] \in Media /\ hand[r][2] \in 0 .. Len(file)
           /\ hand[r] = <<hand[r][1], hand[r][2]>>
           /\ hand[r][2] \in Nat
           /\ reader[r] = "push" => target[r] \in Clients
<1>1. hand[r] \in Media \X (0 .. Len(file))
  BY DEF TypeInv, ServerTypeOK
<1>2. Len(file) \in Nat
  BY PositionTypes
<1> QED BY <1>1, <1>2 DEF TypeInv

\* A reader pushes where there is room, and reads while there is a packet.
LEMMA ReaderTypes == ASSUME TypeInv, NEW r \in Clients, Reader(r) PROVE TypeInv'
<1>t. /\ queue \in [Clients -> [Media -> Seq(0 .. Len(file))]]
      /\ reader \in [Clients -> {"none", "read", "call", "push", "clear", "done"}]
      /\ hand \in [Clients -> Media \X (0 .. Len(file))]
      /\ target \in [Clients -> Clients \cup {NoClient}]
      /\ callback \in [Media -> Clients \cup {NoClient}]
      /\ position \in 0 .. Len(file) /\ Len(file) \in Nat
      /\ \A d \in Clients, n \in Media : Len(queue[d][n]) <= QueueMax
      /\ crashed \in Ends
      /\ QueueMax \in Nat /\ {"video", "audio"} \subseteq Media
      /\ \A s \in Clients : reader[s] = "push" => target[s] \in Clients
  BY RtspAssumption, PositionTypes DEF TypeInv, ServerTypeOK, Media, Ends
<1>n. <<"audio", 0>> \in Media \X (0 .. Len(file)) /\ <<"video", 0>> \in Media \X (0 .. Len(file))
  <2>1. 0 \in 0 .. Len(file) /\ "video" \in Media /\ "audio" \in Media
    BY PositionTypes DEF Media
  <2> QED BY <2>1
<1>a. ASSUME AfterCall(r)
      PROVE  /\ reader' \in [Clients -> {"none", "read", "call", "push", "clear", "done"}]
             /\ hand' \in [Clients -> Media \X (0 .. Len(file))]
             /\ target' \in [Clients -> Clients \cup {NoClient}]
             /\ \A s \in Clients : reader'[s] = "push" => target'[s] \in Clients
  <2>1. reader' \in [Clients -> {"none", "read", "call", "push", "clear", "done"}] /\ reader'[r] # "push"
        /\ \A s \in Clients \ {r} : reader'[s] = reader[s]
    BY <1>a, <1>t DEF AfterCall
  <2>2. hand' \in [Clients -> Media \X (0 .. Len(file))]
    <3>1. hand' = [hand EXCEPT ![r] = <<"audio", 0>>] \/ hand' = [hand EXCEPT ![r] = <<"video", 0>>]
      BY <1>a DEF AfterCall
    <3>2. <<"audio", 0>> \in Media \X (0 .. Len(file)) /\ <<"video", 0>> \in Media \X (0 .. Len(file))
      BY <1>n
    <3> QED BY <1>t, <3>1, <3>2
  <2>3. /\ target' \in [Clients -> Clients \cup {NoClient}]
        /\ \A s \in Clients \ {r} : target'[s] = target[s]
    BY <1>a, <1>t DEF AfterCall
  <2> QED BY <2>1, <2>2, <2>3, <1>t
<1>1. CASE ReadFrame(r)
  <2>1. reader' \in [Clients -> {"none", "read", "call", "push", "clear", "done"}]
        /\ \A s \in Clients : reader'[s] = "push" => reader[s] = "push"
    BY <1>1, <1>t DEF ReadFrame
  <2>2. hand' \in [Clients -> Media \X (0 .. Len(file))] /\ position' \in 0 .. Len(file)
    <3>1. CASE position < Len(file)
      <4>1. <<file[position + 1], position + 1>> \in Media \X (0 .. Len(file))
        BY PositionTypes, <3>1
      <4>2. position' = position + 1 /\ hand' = [hand EXCEPT ![r] = <<file[position + 1], position + 1>>]
        BY <1>1, <3>1 DEF ReadFrame
      <4> QED BY <1>t, <3>1, <4>1, <4>2
    <3>2. CASE ~(position < Len(file))
      <4>1. <<"video", 0>> \in Media \X (0 .. Len(file))
        BY <1>n
      <4>2. UNCHANGED position /\ hand' = [hand EXCEPT ![r] = <<"video", 0>>]
        BY <1>1, <3>2 DEF ReadFrame
      <4> QED BY <1>t, <4>1, <4>2
    <3> QED BY <3>1, <3>2
  <2>3. crashed' \in Ends
    BY <1>1 DEF ReadFrame, Ends
  <2> QED BY <1>1, <2>1, <2>2, <2>3, <1>t DEF ReadFrame, TypeInv, ServerTypeOK,
             clientVars, sendVars, senderVars, Ends
<1>2. CASE Call(r)
  <2>0. UNCHANGED <<clientVars, sendVars, senderVars, position, queue, file>>
    BY <1>2 DEF Call
  <2>1. CASE AfterCall(r) /\ UNCHANGED crashed
    BY <2>0, <2>1, <1>a, <1>t DEF TypeInv, ServerTypeOK, clientVars, sendVars, senderVars
  <2>2. CASE crashed' = "no such queue" /\ UNCHANGED <<reader, hand, target>>
    BY <2>0, <2>2, <1>t DEF TypeInv, ServerTypeOK, clientVars, sendVars, senderVars
  <2>3. CASE /\ callback[hand[r][1]] # NoClient
             /\ reader' = [reader EXCEPT ![r] = "push"]
             /\ target' = [target EXCEPT ![r] = callback[hand[r][1]]]
             /\ UNCHANGED <<hand, crashed>>
    <3>1. callback[hand[r][1]] \in Clients
      BY <1>t, <2>3, HandTypes
    <3>2. /\ reader' \in [Clients -> {"none", "read", "call", "push", "clear", "done"}]
          /\ target' \in [Clients -> Clients \cup {NoClient}]
          /\ \A s \in Clients : reader'[s] = "push" => target'[s] \in Clients
      BY <1>t, <2>3, <3>1
    <3> QED BY <2>0, <2>3, <3>2 DEF TypeInv, ServerTypeOK, clientVars, sendVars, senderVars
  <2> QED BY <1>2, <2>1, <2>2, <2>3 DEF Call
<1>3. CASE Push(r)
  <2>0. UNCHANGED <<clientVars, sendVars, senderVars, position, file>>
    BY <1>3 DEF Push
  <2>1. CASE crashed' = "no such queue" /\ UNCHANGED <<queue, reader, hand, target>>
    BY <2>0, <2>1, <1>t DEF TypeInv, ServerTypeOK, clientVars, sendVars, senderVars
  <2>2. CASE /\ Len(queue[target[r]][hand[r][1]]) < QueueMax
             /\ queue' = [queue EXCEPT ![target[r]][hand[r][1]] = Append(@, hand[r][2])]
             /\ AfterCall(r)
             /\ UNCHANGED crashed
    <3> DEFINE c == target[r]
               m == hand[r][1]
               s == Append(queue[c][m], hand[r][2])
    <3>1. c \in Clients /\ m \in Media /\ hand[r][2] \in 0 .. Len(file)
      BY <1>3, HandTypes DEF Push
    <3>2. queue[c][m] \in Seq(0 .. Len(file))
      BY <1>t, <3>1
    <3>3. s \in Seq(0 .. Len(file)) /\ Len(s) = Len(queue[c][m]) + 1 /\ Len(queue[c][m]) \in Nat
      BY <3>1, <3>2, AppendProperties, LenProperties
    <3>4. Len(s) <= QueueMax
      <4>1. Len(queue[c][m]) < QueueMax /\ QueueMax \in Nat
        BY <1>t, <2>2
      <4> HIDE DEF s
      <4> QED BY <3>3, <4>1
    <3>5. \A d \in Clients, n \in Media :
              queue'[d][n] = IF d = c /\ n = m THEN s ELSE queue[d][n]
      BY <1>t, <2>2, <3>1
    <3> HIDE DEF s
    <3>6. queue' \in [Clients -> [Media -> Seq(0 .. Len(file))]]
      BY <1>t, <2>2, <3>1, <3>3 DEF s
    <3>7. \A d \in Clients, n \in Media : Len(queue'[d][n]) <= QueueMax
      BY <1>t, <3>4, <3>5, Zenon
    <3> QED BY <2>0, <2>2, <3>6, <3>7, <1>a DEF TypeInv, ServerTypeOK, clientVars,
               sendVars, senderVars
  <2> QED BY <1>3, <2>1, <2>2 DEF Push
<1>4. CASE ClearStarted(r)
  <2>1. /\ reader' \in [Clients -> {"none", "read", "call", "push", "clear", "done"}]
        /\ \A s \in Clients : reader'[s] = "push" => reader[s] = "push"
    BY <1>4, <1>t DEF ClearStarted
  <2> QED BY <1>4, <2>1, <1>t DEF ClearStarted, TypeInv, ServerTypeOK, clientVars,
             senderVars
<1> QED BY <1>1, <1>2, <1>3, <1>4 DEF Reader

\* One step of some thread, or a request.
Step == \E c \in Clients : \/ Request(c) \/ SendThread(c) \/ Reader(c)
                           \/ \E m \in Media : SendPacket(c, m)

\* Every step keeps the types.
LEMMA StepTypes == TypeInv /\ Step => TypeInv'
  BY RequestTypes, SendThreadTypes, SendPacketTypes, ReaderTypes DEF Step

\* The types hold throughout.
LEMMA TypeInvariant == Spec => []TypeInv
<1>1. TypeInv /\ [Next]_vars => TypeInv'
  <2>1. ASSUME TypeInv, UNCHANGED vars PROVE TypeInv'
    <3>1. UNCHANGED <<handler, session, streams, send, callback, mIsStarted, refused,
    sender, sent,
                      reader, hand, target, position, queue, file, crashed>>
      BY <2>1 DEF vars, clientVars, sendVars, senderVars, readerVars
    <3> QED BY <2>1, <3>1 DEF TypeInv, ServerTypeOK
  <2> QED BY <2>1, StepTypes DEF Next, Step, ServerStep
<1> QED BY <1>1, InitTypes, PTL DEF Spec

-----------------------------------------------------------------------------
(* What the steps change *)

\* A request changes a client's session, or makes its send thread.
LEMMA RequestFrame ==
    ASSUME NEW c \in Clients, Request(c)
    PROVE  UNCHANGED <<callback, sent, reader, hand, target, position, queue, file>>
  BY DEF Request, Describe, Setup, Play, Leave, clientVars, sendVars, senderVars, readerVars

\* A send thread touches no session, queue or packet; it makes its senders once.
LEMMA SendThreadFrame ==
    ASSUME NEW c \in Clients, SendThread(c)
    PROVE  /\ UNCHANGED <<clientVars, sent, hand, target, position, queue, file>>
           /\ TakeStreams(c) \/ UNCHANGED sender
<1>1. (\E m \in Media : SetCallback(c, m)) => UNCHANGED <<clientVars, senderVars, readerVars, queue, file>>
  BY Zenon DEF SetCallback
<1>2. StartReturns(c) \/ MarkStarted(c) \/ JoinSenders(c)
          => UNCHANGED <<clientVars, senderVars, readerVars, queue, file>>
  BY DEF StartReturns, MarkStarted, JoinSenders
<1>3. MakeReader(c) => UNCHANGED <<clientVars, senderVars, hand, target, position, queue, file>>
  BY DEF MakeReader
<1>4. TakeStreams(c) => UNCHANGED <<clientVars, sent, readerVars, queue, file>>
  BY DEF TakeStreams
<1> QED BY <1>1, <1>2, <1>3, <1>4 DEF SendThread, readerVars, senderVars

\* A reader touches no session, no send thread and no sender.
LEMMA ReaderFrame ==
    ASSUME NEW r \in Clients, Reader(r)
    PROVE  UNCHANGED <<clientVars, send, callback, sender, sent, file>>
<1>1. Call(r) \/ Push(r) \/ ReadFrame(r) => UNCHANGED <<clientVars, sendVars, senderVars, file>>
  BY Zenon DEF Call, Push, ReadFrame
<1>2. ClearStarted(r) => UNCHANGED <<clientVars, send, callback, senderVars, file>>
  BY DEF ClearStarted
<1> QED BY <1>1, <1>2 DEF Reader, sendVars, senderVars

\* The types the following lemmas need.
LEMMA SendTypes ==
    TypeInv => /\ send \in [Clients -> SendPlaces]
               /\ reader \in [Clients -> {"none", "read", "call", "push", "clear", "done"}]
               /\ sender \in [Clients -> [Media -> {"none", "pop", "done"}]]
               /\ callback \in [Media -> Clients \cup {NoClient}]
               /\ streams \in [Clients -> SUBSET Media]
               /\ hand \in [Clients -> Media \X (0 .. Len(file))]
               /\ target \in [Clients -> Clients \cup {NoClient}]
               /\ \A c \in Clients : c # NoClient
  BY RtspAssumption DEF TypeInv, ServerTypeOK, SendPlaces

\* A send thread moves on; it is never gone again.
LEMMA SendThreadGoes ==
    ASSUME TypeInv, NEW c \in Clients, SendThread(c)
    PROVE  /\ send[c] \in {"streams", "video", "audio", "start", "mark", "join"}
           /\ send'[c] \notin {"none", "streams"}
           /\ \A d \in Clients \ {c} : send'[d] = send[d]
           /\ \/ /\ send[c] = "streams" /\ send'[c] = "video"
                 /\ sender'[c] = [m \in Media |-> IF m \in streams[c] THEN "pop" ELSE "none"]
                 /\ \A d \in Clients \ {c} : sender'[d] = sender[d]
                 /\ UNCHANGED <<callback, reader>>
              \/ \E m \in Media : /\ send[c] = m /\ callback' = [callback EXCEPT ![m] = c]
                                  /\ send'[c] = (IF m = "video" THEN "audio" ELSE "start")
                                  /\ UNCHANGED reader
              \/ /\ send[c] = "start" /\ send'[c] = "mark" /\ reader' = [reader EXCEPT ![c] = "read"]
                 /\ UNCHANGED callback
              \/ /\ send[c] \in {"start", "mark"} /\ send'[c] = "join"
                 /\ UNCHANGED <<callback, reader>>
              \/ /\ send[c] = "join" /\ send'[c] = "done" /\ \A m \in Media : sender[c][m] # "pop"
                 /\ UNCHANGED <<callback, reader>>
<1>t. send \in [Clients -> SendPlaces] /\ sender \in [Clients -> [Media -> {"none", "pop", "done"}]]
  BY SendTypes
<1>0. TakeStreams(c) =>
          /\ send[c] = "streams" /\ send' = [send EXCEPT ![c] = "video"]
          /\ sender' = [sender EXCEPT ![c] = [m \in Media |-> IF m \in streams[c] THEN "pop" ELSE "none"]]
          /\ UNCHANGED <<callback, reader>>
  BY DEF TakeStreams, SendGoes, readerVars
<1>1. ASSUME NEW m \in Media, SetCallback(c, m)
      PROVE  /\ send[c] = m /\ callback' = [callback EXCEPT ![m] = c]
             /\ send' = [send EXCEPT ![c] = IF m = "video" THEN "audio" ELSE "start"]
             /\ UNCHANGED reader
  BY <1>1 DEF SetCallback, SendGoes, readerVars
<1>2. StartReturns(c) => /\ send[c] = "start" /\ send' = [send EXCEPT ![c] = "join"]
                         /\ UNCHANGED <<callback, reader>>
  BY DEF StartReturns, SendGoes, readerVars
<1>3. MakeReader(c) => /\ send[c] = "start" /\ send' = [send EXCEPT ![c] = "mark"]
                       /\ reader' = [reader EXCEPT ![c] = "read"] /\ UNCHANGED callback
  BY DEF MakeReader, SendGoes
<1>4. MarkStarted(c) => /\ send[c] = "mark" /\ send' = [send EXCEPT ![c] = "join"]
                        /\ UNCHANGED <<callback, reader>>
  BY DEF MarkStarted, SendGoes, readerVars
<1>5. JoinSenders(c) => /\ send[c] = "join" /\ send' = [send EXCEPT ![c] = "done"]
                        /\ \A m \in Media : sender[c][m] # "pop"
                        /\ UNCHANGED <<callback, reader>>
  BY DEF JoinSenders, SendGoes, readerVars
<1> QED BY <1>t, <1>0, <1>1, <1>2, <1>3, <1>4, <1>5 DEF SendThread, Media

\* A request changes streams until the send thread has been through them, and
\* after PLAY it only adds to them.
LEMMA RequestGoes ==
    ASSUME TypeInv, NEW c \in Clients, Request(c)
    PROVE  /\ \A d \in Clients \ {c} : send'[d] = send[d] /\ streams'[d] = streams[d]
           /\ UNCHANGED sender
           /\ \/ streams'[c] = streams[c]
              \/ send[c] = "none"
              \/ send[c] = "streams" /\ streams[c] \subseteq streams'[c]
           /\ send'[c] = send[c] \/ (send[c] = "none" /\ send'[c] = "streams")
<1>1. ASSUME NEW known \in BOOLEAN, Describe(c, known)
      PROVE  /\ UNCHANGED <<send, sender>>
             /\ streams'[c] = streams[c] \/ send[c] = "none"
             /\ \A d \in Clients \ {c} : streams'[d] = streams[d]
  BY <1>1, SendTypes DEF Describe, sendVars, senderVars
<1>2. ASSUME NEW m \in Media, Setup(c, m)
      PROVE  /\ UNCHANGED <<send, sender>>
             /\ send[c] \in {"none", "streams"} /\ streams[c] \subseteq streams'[c]
             /\ \A d \in Clients \ {c} : streams'[d] = streams[d]
  BY <1>2, SendTypes DEF Setup, sendVars, senderVars
<1>3. Leave(c) => UNCHANGED <<send, sender, streams>>
  BY DEF Leave, sendVars, senderVars
<1>4. Play(c) =>
          /\ UNCHANGED <<sender, streams>>
          /\ \/ UNCHANGED send
             \/ send[c] = "none" /\ send' = [send EXCEPT ![c] = "streams"]
  BY DEF Play, senderVars
<1> QED BY <1>1, <1>2, <1>3, <1>4, SendTypes DEF Request

\* A reader that was made stays one.
LEMMA ReaderGoes ==
    ASSUME TypeInv, NEW r \in Clients, Reader(r)
    PROVE  /\ reader[r] \notin {"none", "done"} /\ reader'[r] # "none"
           /\ \A s \in Clients \ {r} : reader'[s] = reader[s] /\ hand'[s] = hand[s] /\ target'[s] = target[s]
<1>t. /\ reader \in [Clients -> {"none", "read", "call", "push", "clear", "done"}]
      /\ hand \in [Clients -> Media \X (0 .. Len(file))]
      /\ target \in [Clients -> Clients \cup {NoClient}]
  BY SendTypes
<1>1. /\ reader[r] \in {"read", "call", "push", "clear"}
      /\ \/ UNCHANGED reader
         \/ \E to \in {"read", "call", "push", "clear", "done"} : reader' = [reader EXCEPT ![r] = to]
  BY DEF Reader, ReadFrame, Call, Push, ClearStarted, AfterCall
<1>2. UNCHANGED hand \/ \E h : hand' = [hand EXCEPT ![r] = h]
  BY DEF Reader, ReadFrame, Call, Push, ClearStarted, AfterCall
<1>3. UNCHANGED target \/ \E h : target' = [target EXCEPT ![r] = h]
  BY DEF Reader, ReadFrame, Call, Push, ClearStarted, AfterCall
<1> QED BY <1>t, <1>1, <1>2, <1>3

\* Who plays: one more with PLAY, the same with any other step.
LEMMA PlayersGrow ==
    ASSUME TypeInv, Step
    PROVE  \/ Players' = Players
           \/ \E c \in Clients : /\ Request(c) /\ send[c] = "none" /\ send'[c] = "streams"
                                 /\ Players' = Players \cup {c}
<1>1. ASSUME NEW c \in Clients, Request(c), send'[c] # send[c]
      PROVE  send[c] = "none" /\ send'[c] = "streams" /\ Players' = Players \cup {c}
  BY <1>1, RequestGoes DEF Players
<1>2. ASSUME NEW c \in Clients, Request(c), send'[c] = send[c] PROVE Players' = Players
  BY <1>2, RequestGoes DEF Players
<1>3. ASSUME NEW c \in Clients, SendThread(c) PROVE Players' = Players
  BY <1>3, SendThreadGoes DEF Players
<1>4. ASSUME NEW c \in Clients, Reader(c) PROVE Players' = Players
  BY <1>4, ReaderFrame DEF Players
<1>5. ASSUME NEW c \in Clients, NEW m \in Media, SendPacket(c, m) PROVE Players' = Players
  BY <1>5 DEF SendPacket, sendVars, Players
<1> QED BY <1>1, <1>2, <1>3, <1>4, <1>5 DEF Step

\* What a sender does.
LEMMA SendPacketGoes ==
    ASSUME TypeInv, NEW c \in Clients, NEW m \in Media, SendPacket(c, m)
    PROVE  /\ UNCHANGED <<clientVars, send, callback, reader, hand, target, position, file>>
           /\ sender[c][m] = "pop" /\ queue[c][m] # <<>>
           /\ \A d \in Clients, n \in Media : d # c \/ n # m =>
                  sender'[d][n] = sender[d][n] /\ queue'[d][n] = queue[d][n] /\ sent'[d][n] = sent[d][n]
           /\ queue'[c][m] = Tail(queue[c][m])
           /\ \/ Head(queue[c][m]) = 0 /\ sender'[c][m] = "done" /\ sent'[c][m] = sent[c][m]
              \/ /\ Head(queue[c][m]) # 0 /\ sender'[c][m] = "pop"
                 /\ sent'[c][m] = Append(sent[c][m], Head(queue[c][m]))
<1>t. /\ queue \in [Clients -> [Media -> Seq(0 .. Len(file))]]
      /\ sent \in [Clients -> [Media -> Seq(1 .. Len(file))]]
      /\ sender \in [Clients -> [Media -> {"none", "pop", "done"}]]
  BY DEF TypeInv, ServerTypeOK
<1>1. UNCHANGED <<clientVars, send, callback, reader, hand, target, position, file>>
  BY DEF SendPacket, sendVars, readerVars
<1>2. sender[c][m] = "pop" /\ queue[c][m] # <<>>
  BY DEF SendPacket
<1>3. queue' = [queue EXCEPT ![c] = [queue[c] EXCEPT ![m] = Tail(queue[c][m])]]
  BY <1>t DEF SendPacket
<1>4. \/ Head(queue[c][m]) = 0 /\ sender' = [sender EXCEPT ![c] = [sender[c] EXCEPT ![m] = "done"]] /\ sent' = sent
      \/ /\ Head(queue[c][m]) # 0 /\ sender' = sender
         /\ sent' = [sent EXCEPT ![c] = [sent[c] EXCEPT ![m] = Append(sent[c][m], Head(queue[c][m]))]]
  BY <1>t DEF SendPacket
<1>5. /\ queue'[c][m] = Tail(queue[c][m])
      /\ \A d \in Clients, n \in Media : d # c \/ n # m => queue'[d][n] = queue[d][n]
  BY <1>t, <1>3
<1>6. /\ \A d \in Clients, n \in Media : d # c \/ n # m => sender'[d][n] = sender[d][n] /\ sent'[d][n] = sent[d][n]
      /\ \/ Head(queue[c][m]) = 0 /\ sender'[c][m] = "done" /\ sent'[c][m] = sent[c][m]
         \/ /\ Head(queue[c][m]) # 0 /\ sender'[c][m] = "pop"
            /\ sent'[c][m] = Append(sent[c][m], Head(queue[c][m]))
  <2>1. CASE Head(queue[c][m]) = 0
    BY <1>t, <1>2, <1>4, <2>1
  <2>2. CASE Head(queue[c][m]) # 0
    BY <1>t, <1>2, <1>4, <2>2
  <2> QED BY <2>1, <2>2
<1> QED BY <1>1, <1>2, <1>5, <1>6

\* Where a reader goes from the callback.
LEMMA AfterCallGoes ==
    ASSUME TypeInv, NEW r \in Clients, AfterCall(r)
    PROVE  /\ reader'[r] = (IF hand[r][2] # 0 THEN "read"
                            ELSE IF hand[r][1] = "video" THEN "call" ELSE "clear")
           /\ hand'[r] = (IF hand[r] = <<"video", 0>> THEN <<"audio", 0>> ELSE <<"video", 0>>)
  BY SendTypes DEF AfterCall

\* What a step of a reader does.
LEMMA ReaderCases ==
    ASSUME TypeInv, NEW r \in Clients, Reader(r)
    PROVE  \/ /\ reader[r] = "read" /\ reader'[r] = "call" /\ position < Len(file)
              /\ position' = position + 1 /\ hand'[r] = <<file[position + 1], position + 1>>
              /\ UNCHANGED <<target, queue>>
           \/ /\ reader[r] = "read" /\ reader'[r] = "call" /\ position = Len(file)
              /\ hand'[r] = <<"video", 0>>
              /\ UNCHANGED <<position, target, queue>>
           \/ /\ reader[r] = "call" /\ callback[hand[r][1]] = NoClient
              /\ AfterCall(r) /\ UNCHANGED <<position, queue>>
           \/ UNCHANGED <<reader, hand, target, position, queue>> /\ Reading(r)
           \/ /\ reader[r] = "call" /\ reader'[r] = "push"
              /\ callback[hand[r][1]] # NoClient /\ target'[r] = callback[hand[r][1]]
              /\ send[callback[hand[r][1]]] # "done" /\ hand[r][1] \in streams[callback[hand[r][1]]]
              /\ UNCHANGED <<hand, position, queue>>
           \/ /\ reader[r] = "push" /\ send[target[r]] # "done"
              /\ queue'[target[r]][hand[r][1]] = Append(queue[target[r]][hand[r][1]], hand[r][2])
              /\ \A d \in Clients, n \in Media : d # target[r] \/ n # hand[r][1] => queue'[d][n] = queue[d][n]
              /\ AfterCall(r) /\ UNCHANGED position
           \/ /\ reader[r] = "clear" /\ reader'[r] = "done"
              /\ UNCHANGED <<hand, target, position, queue>>
<1>t. /\ queue \in [Clients -> [Media -> Seq(0 .. Len(file))]]
      /\ reader \in [Clients -> {"none", "read", "call", "push", "clear", "done"}]
      /\ hand \in [Clients -> Media \X (0 .. Len(file))]
      /\ target \in [Clients -> Clients \cup {NoClient}]
      /\ hand[r][1] \in Media /\ (reader[r] = "push" => target[r] \in Clients)
  BY HandTypes DEF TypeInv, ServerTypeOK
<1>p. position \in Nat /\ Len(file) \in Nat /\ position <= Len(file)
  BY PositionTypes
<1>1. CASE ReadFrame(r)
  <2>1. /\ reader[r] = "read" /\ reader' = [reader EXCEPT ![r] = "call"] /\ UNCHANGED <<target, queue>>
        /\ IF position < Len(file)
           THEN position' = position + 1 /\ hand' = [hand EXCEPT ![r] = <<file[position + 1], position + 1>>]
           ELSE hand' = [hand EXCEPT ![r] = <<"video", 0>>] /\ UNCHANGED position
    BY <1>1, Zenon DEF ReadFrame
  <2> QED BY <1>t, <1>p, <2>1
<1>2. CASE Call(r)
  <2>1. reader[r] = "call" /\ UNCHANGED <<position, queue>>
    BY <1>2 DEF Call
  <2>2. \/ callback[hand[r][1]] = NoClient /\ AfterCall(r)
        \/ UNCHANGED <<reader, hand, target>>
        \/ /\ callback[hand[r][1]] # NoClient
           /\ send[callback[hand[r][1]]] # "done" /\ hand[r][1] \in streams[callback[hand[r][1]]]
           /\ reader' = [reader EXCEPT ![r] = "push"]
           /\ target' = [target EXCEPT ![r] = callback[hand[r][1]]]
           /\ UNCHANGED hand
    BY <1>2, Zenon DEF Call
  <2>4. CASE callback[hand[r][1]] = NoClient /\ AfterCall(r)
    BY <2>1, <2>4
  <2>5. CASE UNCHANGED <<reader, hand, target>>
    BY <2>1, <2>5 DEF Reading
  <2>6. CASE /\ callback[hand[r][1]] # NoClient
             /\ send[callback[hand[r][1]]] # "done" /\ hand[r][1] \in streams[callback[hand[r][1]]]
             /\ reader' = [reader EXCEPT ![r] = "push"]
             /\ target' = [target EXCEPT ![r] = callback[hand[r][1]]]
             /\ UNCHANGED hand
    <3>1. reader'[r] = "push" /\ target'[r] = callback[hand[r][1]]
      BY <1>t, <2>6
    <3> QED BY <2>1, <2>6, <3>1
  <2> QED BY <2>2, <2>4, <2>5, <2>6
<1>3. CASE Push(r)
  <2>1. reader[r] = "push" /\ UNCHANGED position
    BY <1>3 DEF Push
  <2>2. \/ UNCHANGED <<reader, hand, target, queue>>
        \/ /\ send[target[r]] # "done"
           /\ queue' = [queue EXCEPT ![target[r]][hand[r][1]] = Append(@, hand[r][2])]
           /\ AfterCall(r)
    BY <1>3 DEF Push
  <2>3. CASE UNCHANGED <<reader, hand, target, queue>>
    BY <2>1, <2>3 DEF Reading
  <2>4. CASE /\ send[target[r]] # "done"
             /\ queue' = [queue EXCEPT ![target[r]][hand[r][1]] = Append(@, hand[r][2])]
             /\ AfterCall(r)
    <3>1. PICK d \in Clients, n \in Media : d = target[r] /\ n = hand[r][1]
      BY <1>t, <2>1
    <3>2. /\ queue'[d][n] = Append(queue[d][n], hand[r][2])
          /\ \A b \in Clients, k \in Media : b # d \/ k # n => queue'[b][k] = queue[b][k]
      BY <1>t, <2>4, <3>1
    <3> QED BY <2>1, <2>4, <3>1, <3>2
  <2> QED BY <2>2, <2>3, <2>4
<1>4. CASE ClearStarted(r)
  BY <1>4, <1>t DEF ClearStarted
<1> QED BY <1>1, <1>2, <1>3, <1>4 DEF Reader

-----------------------------------------------------------------------------
(* Who plays *)

\* Initially nobody plays.
LEMMA InitPlayers == Init => PlayersInv /\ AloneInv
<1> SUFFICES ASSUME Init PROVE PlayersInv /\ AloneInv
  OBVIOUS
<1>1. Players = {}
  BY DEF Init, Players
<1>2. IsFiniteSet(Players)
  BY <1>1, FS_EmptySet
<1>3. AloneInv
  BY <1>1 DEF AloneInv
<1>4. \A c \in Clients : c \notin Takers
  BY DEF Init, Takers
<1> QED BY <1>2, <1>3, <1>4 DEF Init, PlayersInv

\* A request neither makes a taker nor touches what is known of one.
LEMMA RequestPlayers ==
    ASSUME TypeInv, PlayersInv, NEW c \in Clients, Request(c)
    PROVE  PlayersInv'
<1>t. UNCHANGED <<callback, sender, sent, reader, hand, target, queue>>
  BY RequestFrame, RequestGoes
<1>1. Players' = Players \/ Players' = Players \cup {c}
  BY RequestGoes DEF Players
<1>2. IsFiniteSet(Players')
  BY <1>1, FS_AddElement DEF PlayersInv
<1>3. ASSUME NEW r \in Clients, reader'[r] # "none" PROVE send'[r] \in {"mark", "join", "done"}
  <2>1. send[r] \in {"mark", "join", "done"}
    BY <1>t, <1>3 DEF PlayersInv
  <2>2. send'[r] = send[r] \/ send[r] = "none"
    BY RequestGoes
  <2> QED BY <2>1, <2>2
<1>4. Takers' = Takers
  BY RequestGoes DEF Takers
<1>5. ASSUME NEW d \in Takers PROVE d \in Clients /\ streams'[d] = streams[d] /\ send'[d] = send[d]
  BY <1>5, RequestGoes DEF Takers
<1>6. \A m \in Media : callback'[m] # NoClient => callback'[m] \in Takers'
  BY <1>t, <1>4 DEF PlayersInv
<1>7. ASSUME NEW r \in Clients, reader'[r] = "push"
      PROVE  target'[r] \in Takers' /\ hand'[r][1] \in streams'[target'[r]]
  BY <1>t, <1>4, <1>5, <1>7 DEF PlayersInv
<1>8. ASSUME NEW d \in Clients, NEW m \in Media
      PROVE  /\ d \in Takers' => (sender'[d][m] = "none" <=> m \notin streams'[d])
             /\ d \notin Takers' => sender'[d][m] = "none" /\ queue'[d][m] = <<>> /\ sent'[d][m] = <<>>
             /\ send'[d] = "done" => sender'[d][m] # "pop"
  <2>1. send'[d] = "done" => send[d] = "done"
    BY RequestGoes
  <2> QED BY <1>t, <1>4, <1>5, <2>1 DEF PlayersInv
<1> QED BY <1>2, <1>3, <1>6, <1>7, <1>8 DEF PlayersInv

\* A send thread makes a sender for each stream, sets callbacks of its own, and
\* is done after its senders.
LEMMA SendThreadPlayers ==
    ASSUME TypeInv, PlayersInv, NEW c \in Clients, SendThread(c)
    PROVE  PlayersInv'
<1>t. /\ UNCHANGED <<streams, sent, hand, target, queue>>
      /\ reader \in [Clients -> {"none", "read", "call", "push", "clear", "done"}]
      /\ callback \in [Media -> Clients \cup {NoClient}]
  BY SendThreadFrame, SendTypes DEF clientVars
<1>1. Players' = Players /\ c \in Players /\ Takers' = Takers \cup {c}
  BY SendThreadGoes DEF Players, Takers
<1>2. \A r \in Clients : reader'[r] # "none" => send'[r] \in {"mark", "join", "done"}
  <2>1. \/ UNCHANGED reader
        \/ reader' = [reader EXCEPT ![c] = "read"] /\ send'[c] = "mark"
    BY SendThreadGoes
  <2>2. send[c] \in {"mark", "join", "done"} => send'[c] \in {"mark", "join", "done"}
    BY SendThreadGoes DEF Media
  <2>3. \A r \in Clients : reader[r] # "none" => send[r] \in {"mark", "join", "done"}
    BY DEF PlayersInv
  <2>4. \A d \in Clients \ {c} : send'[d] = send[d]
    BY SendThreadGoes
  <2> QED BY <1>t, <2>1, <2>2, <2>3, <2>4
<1>3. \A m \in Media : callback'[m] # NoClient => callback'[m] \in Takers'
  <2>1. UNCHANGED callback \/ \E m \in Media : callback' = [callback EXCEPT ![m] = c]
    BY SendThreadGoes
  <2>2. \A m \in Media : callback[m] # NoClient => callback[m] \in Takers
    BY DEF PlayersInv
  <2> QED BY <1>t, <1>1, <2>1, <2>2
<1>4. ASSUME NEW r \in Clients, reader'[r] = "push"
      PROVE  target'[r] \in Takers' /\ hand'[r][1] \in streams'[target'[r]]
  <2>1. UNCHANGED reader \/ reader' = [reader EXCEPT ![c] = "read"]
    BY SendThreadGoes
  <2>2. reader[r] = "push"
    BY <1>t, <1>4, <2>1
  <2> QED BY <1>t, <1>1, <2>2 DEF PlayersInv
<1>5. ASSUME NEW d \in Clients, NEW m \in Media
      PROVE  /\ d \in Takers' => (sender'[d][m] = "none" <=> m \notin streams'[d])
             /\ d \notin Takers' => sender'[d][m] = "none" /\ queue'[d][m] = <<>> /\ sent'[d][m] = <<>>
             /\ send'[d] = "done" => sender'[d][m] # "pop"
  <2>1. /\ d \in Takers => (sender[d][m] = "none" <=> m \notin streams[d])
        /\ d \notin Takers => sender[d][m] = "none" /\ queue[d][m] = <<>> /\ sent[d][m] = <<>>
        /\ send[d] = "done" => sender[d][m] # "pop"
    BY DEF PlayersInv
  <2>2. CASE send[c] = "streams"
    <3>1. /\ send'[c] = "video"
          /\ sender'[c] = [n \in Media |-> IF n \in streams[c] THEN "pop" ELSE "none"]
          /\ \A b \in Clients \ {c} : sender'[b] = sender[b] /\ send'[b] = send[b]
      BY <2>2, SendThreadGoes DEF Media
    <3>2. CASE d = c
      <4>1. sender'[c][m] = IF m \in streams[c] THEN "pop" ELSE "none"
        BY <3>1
      <4> QED BY <1>t, <1>1, <3>1, <3>2, <4>1
    <3>3. CASE d # c
      BY <1>t, <1>1, <2>1, <3>1, <3>3
    <3> QED BY <3>2, <3>3
  <2>3. CASE send[c] # "streams"
    <3>1. sender' = sender /\ c \in Takers
      BY <2>3, SendThreadFrame, SendThreadGoes DEF TakeStreams, SendGoes, Takers
    <3>2. send'[c] = "done" => \A n \in Media : sender[c][n] # "pop"
      BY SendThreadGoes DEF Media
    <3>3. d # c => send'[d] = send[d]
      BY SendThreadGoes
    <3> QED BY <1>t, <1>1, <2>1, <3>1, <3>2, <3>3
  <2> QED BY <2>2, <2>3
<1> QED BY <1>1, <1>2, <1>3, <1>4, <1>5 DEF PlayersInv

\* A sender changes neither players nor streams.
LEMMA SendPacketPlayers ==
    ASSUME TypeInv, PlayersInv, NEW c \in Clients, NEW m \in Media, SendPacket(c, m)
    PROVE  PlayersInv'
<1>t. UNCHANGED <<streams, send, callback, reader, hand, target>>
  BY SendPacketGoes DEF clientVars
<1>1. Players' = Players /\ Takers' = Takers
  BY <1>t DEF Players, Takers
<1>2. ASSUME NEW d \in Clients, NEW n \in Media
      PROVE  /\ d \in Takers' => (sender'[d][n] = "none" <=> n \notin streams'[d])
             /\ d \notin Takers' => sender'[d][n] = "none" /\ queue'[d][n] = <<>> /\ sent'[d][n] = <<>>
             /\ send'[d] = "done" => sender'[d][n] # "pop"
  <2>1. /\ d \in Takers => (sender[d][n] = "none" <=> n \notin streams[d])
        /\ d \notin Takers => sender[d][n] = "none" /\ queue[d][n] = <<>> /\ sent[d][n] = <<>>
        /\ send[d] = "done" => sender[d][n] # "pop"
    BY DEF PlayersInv
  <2>2. CASE d = c /\ n = m
    BY <1>t, <1>1, <2>1, <2>2, SendPacketGoes
  <2>3. CASE d # c \/ n # m
    BY <1>t, <1>1, <2>1, <2>3, SendPacketGoes
  <2> QED BY <2>2, <2>3
<1> QED BY <1>t, <1>1, <1>2 DEF PlayersInv

\* A reader pushes for the player whose callback it was about to call.
LEMMA ReaderPlayers ==
    ASSUME TypeInv, PlayersInv, NEW r \in Clients, Reader(r)
    PROVE  PlayersInv'
<1>t. UNCHANGED <<streams, send, callback, sender, sent>>
  BY ReaderFrame DEF clientVars
<1>1. Players' = Players /\ Takers' = Takers
  BY <1>t DEF Players, Takers
<1>2. \A s \in Clients : reader'[s] # "none" => reader[s] # "none"
  BY ReaderGoes
<1>3. ASSUME NEW s \in Clients, reader'[s] = "push"
      PROVE  target'[s] \in Takers' /\ hand'[s][1] \in streams'[target'[s]]
  <2>1. CASE s # r
    BY <1>t, <1>1, <1>3, <2>1, ReaderGoes DEF PlayersInv
  <2>2. CASE s = r
    <3>1. AfterCall(r) => reader'[r] # "push"
      BY AfterCallGoes
    <3>2. \/ UNCHANGED <<reader, hand, target>>
          \/ /\ callback[hand[r][1]] # NoClient /\ target'[r] = callback[hand[r][1]]
             /\ hand[r][1] \in streams[callback[hand[r][1]]] /\ UNCHANGED hand
      BY <1>3, <2>2, <3>1, ReaderCases
    <3>3. hand[r][1] \in Media
      BY HandTypes
    <3> QED BY <1>t, <1>1, <1>3, <2>2, <3>2, <3>3 DEF PlayersInv
  <2> QED BY <2>1, <2>2
<1>4. ASSUME NEW d \in Clients, NEW n \in Media, d \notin Takers PROVE queue'[d][n] = queue[d][n]
  <2>1. reader[r] = "push" => target[r] # d
    BY <1>4 DEF PlayersInv
  <2> QED BY <2>1, ReaderCases
<1> QED BY <1>t, <1>1, <1>2, <1>3, <1>4 DEF PlayersInv

\* Every step keeps to the players.
LEMMA StepPlayers == TypeInv /\ PlayersInv /\ Step => PlayersInv'
  BY RequestPlayers, SendThreadPlayers, SendPacketPlayers, ReaderPlayers DEF Step

\* One that is alone has set the callbacks that it has come past.
LEMMA StepAlone == TypeInv /\ PlayersInv /\ AloneInv /\ Step => AloneInv'
<1> SUFFICES ASSUME TypeInv, PlayersInv, AloneInv, Step, NEW c \in Clients, Players' = {c}
             PROVE  /\ send'[c] \notin {"streams", "video"} => callback'["video"] = c
                    /\ send'[c] \notin {"streams", "video", "audio"} => callback'["audio"] = c
  BY DEF AloneInv
<1>1. CASE \E d \in Clients : Request(d) /\ send[d] = "none" /\ send'[d] = "streams" /\ Players' = Players \cup {d}
  BY <1>1
<1>2. CASE Players' = Players
  <2>1. /\ send[c] \notin {"streams", "video"} => callback["video"] = c
        /\ send[c] \notin {"streams", "video", "audio"} => callback["audio"] = c
    BY <1>2 DEF AloneInv
  <2>2. ASSUME NEW d \in Clients, Request(d)
        PROVE  callback' = callback /\ (send'[c] = send[c] \/ send'[c] = "streams")
    BY <2>2, RequestFrame, RequestGoes
  <2>3. ASSUME NEW d \in Clients, SendThread(d)
        PROVE  /\ send'[c] \notin {"streams", "video"} => callback'["video"] = c
               /\ send'[c] \notin {"streams", "video", "audio"} => callback'["audio"] = c
    <3>1. d = c
      BY <1>2, <2>3, SendThreadGoes DEF Players
    <3>2. callback \in [Media -> Clients \cup {NoClient}]
      BY SendTypes
    <3> QED BY <2>1, <2>3, <3>1, <3>2, SendThreadGoes DEF Media
  <2>4. ASSUME NEW d \in Clients, Reader(d) \/ \E m \in Media : SendPacket(d, m)
        PROVE  callback' = callback /\ send' = send
    BY <2>4, ReaderFrame, SendPacketGoes
  <2> QED BY <2>1, <2>2, <2>3, <2>4 DEF Step
<1> QED BY <1>1, <1>2, PlayersGrow

-----------------------------------------------------------------------------
(* The only reader *)

\* A second reader stays a second reader.
LEMMA OneReaderBefore == TypeInv /\ Step /\ OneReader' => OneReader
<1> SUFFICES ASSUME TypeInv, Step, OneReader' PROVE OneReader
  OBVIOUS
<1>1. \A r \in Clients : reader[r] # "none" => reader'[r] # "none"
  <2>1. ASSUME NEW c \in Clients, Request(c) PROVE reader' = reader
    BY <2>1, RequestFrame
  <2>2. ASSUME NEW c \in Clients, SendThread(c)
        PROVE UNCHANGED reader \/ reader' = [reader EXCEPT ![c] = "read"]
    BY <2>2, SendThreadGoes, Zenon
  <2>3. ASSUME NEW c \in Clients, Reader(c), NEW r \in Clients, reader[r] # "none" PROVE reader'[r] # "none"
    BY <2>3, ReaderGoes
  <2>4. ASSUME NEW c \in Clients, NEW m \in Media, SendPacket(c, m) PROVE reader' = reader
    BY <2>4, SendPacketGoes
  <2> QED BY <2>1, <2>2, <2>3, <2>4, SendTypes DEF Step
<1> QED BY <1>1 DEF OneReader

\* Initially nothing is read.
LEMMA InitReader == Init => ReaderInv
  BY DEF Init, ReaderInv, Reading

\* Every step keeps what is known of the only reader.
LEMMA StepReader == TypeInv /\ PlayersInv /\ ReaderInv /\ Step => ReaderInv'
<1> SUFFICES ASSUME TypeInv, PlayersInv, ReaderInv, Step, OneReader'
             PROVE /\ (\A r \in Clients : reader'[r] = "none") => position' = 0
                   /\ \A r \in Clients :
                        /\ Reading(r)' /\ hand'[r][2] # 0 =>
                               position' > 0 /\ hand'[r] = <<file'[position'], position'>>
                        /\ Reading(r)' /\ hand'[r][2] = 0 => position' = Len(file')
                        /\ reader'[r] \in {"clear", "done"} => position' = Len(file')
  BY DEF ReaderInv
<1>o. OneReader
  BY OneReaderBefore
<1>i. /\ (\A r \in Clients : reader[r] = "none") => position = 0
      /\ \A r \in Clients :
           /\ Reading(r) /\ hand[r][2] # 0 => position > 0 /\ hand[r] = <<file[position], position>>
           /\ Reading(r) /\ hand[r][2] = 0 => position = Len(file)
           /\ reader[r] \in {"clear", "done"} => position = Len(file)
  BY <1>o DEF ReaderInv
<1>1. CASE UNCHANGED <<reader, hand, position, file>>
  BY <1>1, <1>i DEF Reading
<1>2. ASSUME NEW c \in Clients, SendThread(c)
      PROVE  /\ (\A r \in Clients : reader'[r] = "none") => position' = 0
             /\ \A r \in Clients :
                  /\ Reading(r)' /\ hand'[r][2] # 0 =>
                         position' > 0 /\ hand'[r] = <<file'[position'], position'>>
                  /\ Reading(r)' /\ hand'[r][2] = 0 => position' = Len(file')
                  /\ reader'[r] \in {"clear", "done"} => position' = Len(file')
  <2>1. UNCHANGED reader \/ reader' = [reader EXCEPT ![c] = "read"]
    BY <1>2, SendThreadGoes, Zenon
  <2>2. UNCHANGED <<hand, position, file>>
    BY <1>2, SendThreadFrame
  <2>3. \A r \in Clients : reader'[r] = reader[r] \/ reader'[r] = "read"
    BY <2>1, SendTypes
  <2>4. (\A r \in Clients : reader'[r] = "none") => UNCHANGED reader
    BY <2>1, SendTypes
  <2> QED BY <2>2, <2>3, <2>4, <1>i DEF Reading
<1>3. ASSUME NEW r \in Clients, Reader(r)
      PROVE  /\ (\A s \in Clients : reader'[s] = "none") => position' = 0
             /\ \A s \in Clients :
                  /\ Reading(s)' /\ hand'[s][2] # 0 =>
                         position' > 0 /\ hand'[s] = <<file'[position'], position'>>
                  /\ Reading(s)' /\ hand'[s][2] = 0 => position' = Len(file')
                  /\ reader'[s] \in {"clear", "done"} => position' = Len(file')
  <2>1. reader[r] # "none" /\ reader'[r] # "none" /\ UNCHANGED file
    BY <1>3, ReaderGoes, ReaderFrame
  <2>2. \A s \in Clients \ {r} : reader'[s] = "none"
    BY <1>3, <2>1, <1>o, ReaderGoes DEF OneReader
  <2>3. /\ Reading(r)' /\ hand'[r][2] # 0 =>
               position' > 0 /\ hand'[r] = <<file'[position'], position'>>
        /\ Reading(r)' /\ hand'[r][2] = 0 => position' = Len(file')
        /\ reader'[r] \in {"clear", "done"} => position' = Len(file')
    <3>p. position \in Nat /\ Len(file) \in Nat
      BY PositionTypes
    <3>a. ASSUME AfterCall(r), Reading(r), UNCHANGED position
          PROVE  /\ Reading(r)' /\ hand'[r][2] # 0 =>
                         position' > 0 /\ hand'[r] = <<file'[position'], position'>>
                 /\ Reading(r)' /\ hand'[r][2] = 0 => position' = Len(file')
                 /\ reader'[r] \in {"clear", "done"} => position' = Len(file')
      <4>1. hand'[r][2] = 0
        BY <3>a, AfterCallGoes
      <4>2. Reading(r)' \/ reader'[r] \in {"clear", "done"} => hand[r][2] = 0
        BY <3>a, AfterCallGoes DEF Reading
      <4> QED BY <4>1, <4>2, <3>a, <2>1, <1>i
    <3>1. CASE /\ reader'[r] = "call" /\ position' = position + 1
               /\ hand'[r] = <<file[position + 1], position + 1>>
      BY <2>1, <3>p, <3>1
    <3>2. CASE reader'[r] = "call" /\ position = Len(file) /\ hand'[r] = <<"video", 0>> /\ UNCHANGED position
      BY <2>1, <3>p, <3>2
    <3>3. CASE Reading(r) /\ AfterCall(r) /\ UNCHANGED position
      BY <3>3, <3>a
    <3>4. CASE UNCHANGED <<reader, hand, position>>
      BY <3>4, <2>1, <1>i DEF Reading
    <3>5. CASE Reading(r) /\ reader'[r] = "push" /\ UNCHANGED <<hand, position>>
      BY <3>5, <2>1, <1>i
    <3>6. CASE reader[r] = "clear" /\ reader'[r] = "done" /\ UNCHANGED <<hand, position>>
      BY <3>6, <2>1, <1>i DEF Reading
    <3> QED BY <1>3, <3>1, <3>2, <3>3, <3>4, <3>5, <3>6, ReaderCases DEF Reading
  <2> QED BY <2>1, <2>2, <2>3 DEF Reading
<1>4. ASSUME NEW c \in Clients, Request(c) \/ \E m \in Media : SendPacket(c, m)
      PROVE  UNCHANGED <<reader, hand, position, file>>
  BY <1>4, RequestFrame, SendPacketGoes
<1> QED BY <1>1, <1>2, <1>3, <1>4 DEF Step

-----------------------------------------------------------------------------
(* Lines *)

\* The head of the second sequence moved to the end of the first.
LEMMA HeadMoves ==
    ASSUME NEW S, NEW s \in Seq(S), NEW q \in Seq(S), q # <<>>
    PROVE  Append(s, Head(q)) \o Tail(q) = s \o q
<1>1. /\ Head(q) \in S /\ Tail(q) \in Seq(S) /\ Len(Tail(q)) = Len(q) - 1
      /\ \A i \in 1 .. Len(Tail(q)) : Tail(q)[i] = q[i + 1]
      /\ Len(q) \in Nat /\ Len(q) > 0 /\ Len(s) \in Nat
  BY HeadTailProperties, LenProperties, EmptySeq
<1>2. Head(q) = q[1]
  OBVIOUS
<1> DEFINE a == Append(s, Head(q))
<1>3. a \in Seq(S) /\ Len(a) = Len(s) + 1 /\ (\A i \in 1 .. Len(s) : a[i] = s[i]) /\ a[Len(s) + 1] = q[1]
  BY <1>1, <1>2, AppendProperties
<1> HIDE DEF a
<1>4. /\ a \o Tail(q) \in Seq(S) /\ Len(a \o Tail(q)) = Len(s) + Len(q)
      /\ \A i \in 1 .. Len(s) + Len(q) :
             (a \o Tail(q))[i] = IF i <= Len(s) + 1 THEN a[i] ELSE Tail(q)[i - (Len(s) + 1)]
  <2>1. Len(a) + Len(Tail(q)) = Len(s) + Len(q)
    BY <1>1, <1>3
  <2>2. /\ a \o Tail(q) \in Seq(S) /\ Len(a \o Tail(q)) = Len(a) + Len(Tail(q))
        /\ \A i \in 1 .. Len(a) + Len(Tail(q)) :
               (a \o Tail(q))[i] = IF i <= Len(a) THEN a[i] ELSE Tail(q)[i - Len(a)]
    BY <1>1, <1>3, ConcatProperties
  <2> QED BY <1>3, <2>1, <2>2
<1>5. /\ s \o q \in Seq(S) /\ Len(s \o q) = Len(s) + Len(q)
      /\ \A i \in 1 .. Len(s) + Len(q) : (s \o q)[i] = IF i <= Len(s) THEN s[i] ELSE q[i - Len(s)]
  BY ConcatProperties
<1>6. ASSUME NEW i \in 1 .. Len(s) + Len(q) PROVE (a \o Tail(q))[i] = (s \o q)[i]
  <2>1. CASE i <= Len(s)
    BY <1>1, <1>3, <1>4, <1>5, <2>1
  <2>2. CASE i = Len(s) + 1
    BY <1>1, <1>3, <1>4, <1>5, <2>2
  <2>3. CASE i > Len(s) + 1
    <3>1. i - (Len(s) + 1) \in 1 .. Len(Tail(q)) /\ (i - (Len(s) + 1)) + 1 = i - Len(s)
      BY <1>1, <2>3
    <3>2. Tail(q)[i - (Len(s) + 1)] = q[i - Len(s)]
      BY <1>1, <3>1
    <3> QED BY <1>1, <1>4, <1>5, <2>3, <3>2
  <2>4. i \in Nat /\ Len(s) \in Nat
    BY <1>1
  <2>5. i <= Len(s) \/ i = Len(s) + 1 \/ i > Len(s) + 1
    BY <2>4
  <2> QED BY <2>1, <2>2, <2>3, <2>5
<1>7. a \o Tail(q) = s \o q
  BY <1>4, <1>5, <1>6, SeqEqual
<1> QED BY <1>7 DEF a

\* What is appended to the second sequence is appended to both together.
LEMMA EndGrows ==
    ASSUME NEW S, NEW s \in Seq(S), NEW q \in Seq(S), NEW e \in S
    PROVE  s \o Append(q, e) = Append(s \o q, e)
<1>1. Append(q, e) = q \o <<e>> /\ Append(s \o q, e) = (s \o q) \o <<e>> /\ <<e>> \in Seq(S) /\ s \o q \in Seq(S)
  BY AppendIsConcat, ConcatProperties
<1>2. s \o (q \o <<e>>) = (s \o q) \o <<e>>
  BY <1>1, ConcatAssociative
<1> QED BY <1>1, <1>2

\* The line is what was sent, which has no null, and then the queue.
LEMMA LineTypes ==
    ASSUME TypeInv, NEW c \in Clients, NEW m \in Media
    PROVE  /\ sent[c][m] \in Seq(0 .. Len(file)) /\ queue[c][m] \in Seq(0 .. Len(file))
           /\ Line(c, m) \in Seq(0 .. Len(file))
           /\ DOMAIN Line(c, m) = 1 .. Len(Line(c, m)) /\ Len(Line(c, m)) \in Nat
           /\ \A i \in DOMAIN Line(c, m) : Line(c, m)[i] \in Nat
           /\ Len(sent[c][m]) \in Nat /\ Len(queue[c][m]) \in Nat
           /\ Len(Line(c, m)) = Len(sent[c][m]) + Len(queue[c][m])
           /\ DOMAIN sent[c][m] = 1 .. Len(sent[c][m]) /\ DOMAIN queue[c][m] = 1 .. Len(queue[c][m])
           /\ \A i \in 1 .. Len(sent[c][m]) :
                  i \in DOMAIN Line(c, m) /\ Line(c, m)[i] = sent[c][m][i] /\ sent[c][m][i] # 0
           /\ \A i \in 1 .. Len(queue[c][m]) :
                  Len(sent[c][m]) + i \in DOMAIN Line(c, m) /\ Line(c, m)[Len(sent[c][m]) + i] = queue[c][m][i]
           /\ \A i \in DOMAIN Line(c, m) :
                  Line(c, m)[i] = 0 => \E j \in DOMAIN queue[c][m] : queue[c][m][j] = 0
<1> DEFINE s == sent[c][m]
           q == queue[c][m]
           l == Line(c, m)
<1>1. s \in Seq(1 .. Len(file)) /\ q \in Seq(0 .. Len(file)) /\ Len(file) \in Nat
  <2>1. /\ queue \in [Clients -> [Media -> Seq(0 .. Len(file))]]
        /\ sent \in [Clients -> [Media -> Seq(1 .. Len(file))]]
    BY DEF TypeInv, ServerTypeOK
  <2>2. Len(file) \in Nat
    BY PositionTypes
  <2> QED BY <2>1, <2>2
<1>2. s \in Seq(0 .. Len(file))
  <2>1. 1 .. Len(file) \subseteq 0 .. Len(file)
    BY <1>1
  <2> QED BY <1>1, <2>1, SeqMonotonic
<1>3. /\ Len(s) \in Nat /\ Len(q) \in Nat /\ DOMAIN s = 1 .. Len(s) /\ DOMAIN q = 1 .. Len(q)
      /\ \A i \in 1 .. Len(s) : s[i] \in 1 .. Len(file)
  BY <1>1, LenProperties
<1>4. /\ l \in Seq(0 .. Len(file)) /\ Len(l) = Len(s) + Len(q)
      /\ \A i \in 1 .. Len(s) + Len(q) : l[i] = IF i <= Len(s) THEN s[i] ELSE q[i - Len(s)]
  BY <1>1, <1>2, ConcatProperties DEF Line
<1> HIDE DEF s, q, l
<1>5. Len(l) \in Nat /\ DOMAIN l = 1 .. Len(l) /\ \A i \in DOMAIN l : l[i] \in 0 .. Len(file)
  BY <1>4, LenProperties
<1>6. \A i \in 1 .. Len(s) : i \in DOMAIN l /\ l[i] = s[i] /\ s[i] # 0
  BY <1>1, <1>3, <1>4, <1>5
<1>7. ASSUME NEW i \in 1 .. Len(q) PROVE Len(s) + i \in DOMAIN l /\ l[Len(s) + i] = q[i]
  <2>1. Len(s) + i \in 1 .. Len(s) + Len(q) /\ ~(Len(s) + i <= Len(s)) /\ (Len(s) + i) - Len(s) = i
    BY <1>3
  <2> QED BY <1>4, <1>5, <2>1
<1>8. ASSUME NEW i \in DOMAIN l, l[i] = 0 PROVE \E j \in DOMAIN q : q[j] = 0
  <2>1. i > Len(s) /\ i \in 1 .. Len(s) + Len(q)
    BY <1>3, <1>4, <1>5, <1>6, <1>8
  <2>2. i - Len(s) \in 1 .. Len(q) /\ q[i - Len(s)] = 0
    BY <1>3, <1>4, <1>8, <2>1
  <2> QED BY <1>3, <2>2
<1>9. \A i \in DOMAIN l : l[i] \in Nat
  BY <1>1, <1>5
<1> QED BY <1>1, <1>2, <1>3, <1>4, <1>5, <1>6, <1>7, <1>8, <1>9 DEF s, q, l

\* A packet that is sent stays in the line; the null is the last there is.
LEMMA SendPacketLine ==
    ASSUME TypeInv, LineInv, OneReader, NEW c \in Clients, NEW m \in Media, SendPacket(c, m)
    PROVE  /\ \A d \in Clients, n \in Media : d # c \/ n # m => Line(d, n)' = Line(d, n)
           /\ \/ Line(c, m)' = Line(c, m)
              \/ /\ Line(c, m)' = sent[c][m] /\ queue[c][m] = <<0>> /\ queue'[c][m] = <<>>
                 /\ Len(Line(c, m)) = Len(sent[c][m]) + 1 /\ Line(c, m)[Len(Line(c, m))] = 0
           /\ (sender'[c][m] = "done" => queue'[c][m] = <<>> /\ \E i \in DOMAIN queue[c][m] : queue[c][m][i] = 0)
<1>1. ASSUME NEW d \in Clients, NEW n \in Media, d # c \/ n # m PROVE Line(d, n)' = Line(d, n)
  <2>1. sent'[d][n] = sent[d][n] /\ queue'[d][n] = queue[d][n]
    BY <1>1, SendPacketGoes
  <2> QED BY <2>1 DEF Line
<1>t. /\ sent[c][m] \in Seq(0 .. Len(file)) /\ queue[c][m] \in Seq(0 .. Len(file))
      /\ Len(sent[c][m]) \in Nat /\ Len(queue[c][m]) \in Nat
      /\ Len(Line(c, m)) = Len(sent[c][m]) + Len(queue[c][m])
      /\ DOMAIN Line(c, m) = 1 .. Len(Line(c, m))
      /\ DOMAIN queue[c][m] = 1 .. Len(queue[c][m])
      /\ \A i \in 1 .. Len(queue[c][m]) :
             Len(sent[c][m]) + i \in DOMAIN Line(c, m) /\ Line(c, m)[Len(sent[c][m]) + i] = queue[c][m][i]
  BY LineTypes
<1>q. queue[c][m] # <<>> /\ queue'[c][m] = Tail(queue[c][m]) /\ Len(queue[c][m]) > 0
  BY <1>t, SendPacketGoes, EmptySeq
<1>2. CASE Head(queue[c][m]) # 0
  <2>1. sent'[c][m] = Append(sent[c][m], Head(queue[c][m])) /\ sender'[c][m] = "pop"
    BY <1>2, SendPacketGoes
  <2>2. Line(c, m)' = Append(sent[c][m], Head(queue[c][m])) \o Tail(queue[c][m])
    BY <1>q, <2>1 DEF Line
  <2>3. Line(c, m)' = Line(c, m)
    BY <1>t, <1>q, <2>2, HeadMoves DEF Line
  <2> QED BY <1>1, <2>1, <2>3
<1>3. CASE Head(queue[c][m]) = 0
  <2>1. sent'[c][m] = sent[c][m] /\ queue[c][m][1] = 0
    BY <1>3, <1>t, <1>q, SendPacketGoes
  <2>2. Len(queue[c][m]) = 1
    <3>1. ASSUME Len(queue[c][m]) > 1 PROVE FALSE
      <4>1. 1 \in 1 .. Len(queue[c][m]) /\ 2 \in 1 .. Len(queue[c][m])
        BY <1>t, <3>1
      <4>2. /\ Len(sent[c][m]) + 1 \in DOMAIN Line(c, m) /\ Line(c, m)[Len(sent[c][m]) + 1] = queue[c][m][1]
            /\ Len(sent[c][m]) + 2 \in DOMAIN Line(c, m)
        BY <1>t, <4>1
      <4>3. Sorted(Line(c, m))
        BY DEF LineInv, LineFacts
      <4>4. Len(sent[c][m]) + 1 < Len(sent[c][m]) + 2
        BY <1>t
      <4> QED BY <2>1, <4>2, <4>3, <4>4 DEF Sorted
    <3>2. \A n \in Nat : n > 0 /\ ~(n > 1) => n = 1
      OBVIOUS
    <3> QED BY <1>t, <1>q, <3>1, <3>2
  <2>3. queue[c][m] = <<0>>
    BY <1>t, <2>1, <2>2
  <2>4. Tail(queue[c][m]) = <<>>
    BY <2>3
  <2>5. Line(c, m)' = sent[c][m]
    BY <1>t, <1>q, <2>1, <2>4, ConcatEmptySeq DEF Line
  <2>6. Len(Line(c, m)) = Len(sent[c][m]) + 1 /\ Line(c, m)[Len(Line(c, m))] = 0
    BY <1>t, <2>1, <2>2
  <2>7. \E i \in DOMAIN queue[c][m] : queue[c][m][i] = 0
    BY <1>t, <2>1, <2>2
  <2> QED BY <1>1, <1>q, <2>3, <2>4, <2>5, <2>6, <2>7
<1> QED BY <1>2, <1>3

\* Pushing appends to the line.
LEMMA PushLine ==
    ASSUME TypeInv, NEW c \in Clients, NEW m \in Media, NEW e \in 0 .. Len(file),
           UNCHANGED <<sent, file>>, queue'[c][m] = Append(queue[c][m], e)
    PROVE  /\ Len(Line(c, m)') = Len(Line(c, m)) + 1
           /\ DOMAIN Line(c, m)' = 1 .. Len(Line(c, m)) + 1
           /\ \A i \in 1 .. Len(Line(c, m)) : Line(c, m)'[i] = Line(c, m)[i]
           /\ Line(c, m)'[Len(Line(c, m)) + 1] = e
           /\ queue'[c][m] # <<>>
           /\ ((\E i \in DOMAIN queue'[c][m] : queue'[c][m][i] = 0) =>
                  e = 0 \/ \E i \in DOMAIN queue[c][m] : queue[c][m][i] = 0)
<1>1. /\ sent[c][m] \in Seq(0 .. Len(file)) /\ queue[c][m] \in Seq(0 .. Len(file))
      /\ Line(c, m) \in Seq(0 .. Len(file)) /\ Len(queue[c][m]) \in Nat
      /\ DOMAIN queue[c][m] = 1 .. Len(queue[c][m])
  BY LineTypes
<1>s. PICK S, s, q, l : S = 0 .. Len(file) /\ s = sent[c][m] /\ q = queue[c][m] /\ l = Line(c, m)
  OBVIOUS
<1>t. s \in Seq(S) /\ q \in Seq(S) /\ l \in Seq(S) /\ e \in S /\ Len(q) \in Nat /\ DOMAIN q = 1 .. Len(q)
  BY <1>1, <1>s
<1>2. Append(q, e) \in Seq(S) /\ Append(q, e) # <<>> /\ Len(Append(q, e)) = Len(q) + 1
      /\ (\A i \in 1 .. Len(q) : Append(q, e)[i] = q[i]) /\ Append(q, e)[Len(q) + 1] = e
  BY <1>t, AppendProperties
<1>3. DOMAIN Append(q, e) = 1 .. Len(q) + 1
  BY <1>2, LenProperties
<1>4. s \o Append(q, e) = Append(l, e)
  <2>0. s \in Seq(S) /\ q \in Seq(S) /\ e \in S
    BY <1>t
  <2>1. s \o Append(q, e) = Append(s \o q, e)
    BY ONLY <2>0, EndGrows
  <2>2. l = s \o q
    BY <1>s DEF Line
  <2> QED BY <2>1, <2>2
<1>5. /\ Append(l, e) \in Seq(S) /\ Len(Append(l, e)) = Len(l) + 1
      /\ (\A i \in 1 .. Len(l) : Append(l, e)[i] = l[i]) /\ Append(l, e)[Len(l) + 1] = e
  BY <1>t, AppendProperties
<1>6. DOMAIN Append(l, e) = 1 .. Len(l) + 1
  BY <1>5, LenProperties
<1>7. queue'[c][m] = Append(q, e) /\ Line(c, m)' = Append(l, e)
  BY <1>s, <1>4 DEF Line
<1>8. (\E i \in DOMAIN Append(q, e) : Append(q, e)[i] = 0) => e = 0 \/ \E i \in DOMAIN q : q[i] = 0
  BY <1>t, <1>2, <1>3
<1> QED BY <1>s, <1>2, <1>5, <1>6, <1>7, <1>8

\* What a reader's step does to the file, its hand and one of the queues.
LEMMA ReaderSummary ==
    ASSUME TypeInv, NEW r \in Clients, Reader(r), NEW c \in Clients, NEW m \in Media
    PROVE  /\ position \in Nat /\ position' \in Nat /\ position' >= position
           /\ Reading(r)' /\ hand'[r][2] # 0 =>
                  \/ Reading(r) /\ hand'[r] = hand[r]
                  \/ hand'[r][2] = position + 1 /\ position' = position + 1
           /\ \/ queue'[c][m] = queue[c][m]
              \/ /\ reader[r] = "push" /\ target[r] = c /\ hand[r][1] = m
                 /\ queue'[c][m] = Append(queue[c][m], hand[r][2])
                 /\ AfterCall(r) /\ position' = position
<1>p. position \in Nat /\ Len(file) \in Nat
  BY PositionTypes
<1>a. AfterCall(r) => hand'[r][2] = 0
  BY AfterCallGoes
<1>1. position' \in Nat /\ position' >= position
  <2>1. position' = position \/ position' = position + 1
    BY ReaderCases
  <2> QED BY <1>p, <2>1
<1>2. ASSUME Reading(r)', hand'[r][2] # 0
      PROVE  \/ Reading(r) /\ hand'[r] = hand[r]
             \/ hand'[r][2] = position + 1 /\ position' = position + 1
  BY <1>a, <1>2, ReaderCases DEF Reading
<1>3. \/ queue'[c][m] = queue[c][m]
      \/ /\ reader[r] = "push" /\ target[r] = c /\ hand[r][1] = m
         /\ queue'[c][m] = Append(queue[c][m], hand[r][2])
         /\ AfterCall(r) /\ position' = position
  BY ReaderCases
<1> QED BY <1>p, <1>1, <1>2, <1>3

\* The only reader that there is.
LEMMA ReaderAlone ==
    ASSUME TypeInv, OneReader, NEW r \in Clients, Reader(r)
    PROVE  \A s \in Clients \ {r} : /\ reader[s] = "none" /\ ~Reading(s) /\ ~Reading(s)'
                                    /\ \A m \in Media : ~Past(s, m)
<1>1. \A s \in Clients \ {r} : reader[s] = "none" /\ reader'[s] = "none"
  BY ReaderGoes DEF OneReader
<1> QED BY <1>1 DEF Reading, Past

\* The end a reader has come past stays behind it.
LEMMA PastStays ==
    ASSUME TypeInv, PlayersInv, OneReader, Step, NEW m \in Media, \E r \in Clients : Past(r, m)
    PROVE  \E r \in Clients : Past(r, m)'
<1>1. CASE UNCHANGED <<reader, hand>>
  BY <1>1 DEF Past, Reading
<1>2. ASSUME NEW c \in Clients, SendThread(c) PROVE \E r \in Clients : Past(r, m)'
  <2>1. PICK r \in Clients : Past(r, m)
    OBVIOUS
  <2>2. UNCHANGED hand
    BY <1>2, SendThreadFrame
  <2>3. \/ UNCHANGED reader
        \/ send[c] = "start" /\ reader' = [reader EXCEPT ![c] = "read"]
    BY <1>2, SendThreadGoes
  <2>4. send[c] = "start" => reader[c] = "none"
    BY DEF PlayersInv
  <2>5. reader[r] # "none"
    BY <2>1 DEF Past, Reading
  <2>6. reader'[r] = reader[r]
    BY <2>3, <2>4, <2>5, SendTypes
  <2> QED BY <2>1, <2>2, <2>6 DEF Past, Reading
<1>3. ASSUME NEW r \in Clients, Reader(r) PROVE \E s \in Clients : Past(s, m)'
  <2>1. Past(r, m)
    BY <1>3, ReaderAlone
  <2>2. ASSUME AfterCall(r), Reading(r) PROVE Past(r, m)'
    <3>1. hand[r] = <<"audio", 0>>
      BY <2>1, <2>2 DEF Past, Reading
    <3>2. reader'[r] = "clear"
      BY <2>2, <3>1, AfterCallGoes
    <3> QED BY <3>2 DEF Past
  <2>3. Past(r, m)'
    BY <1>3, <2>1, <2>2, ReaderCases DEF Past, Reading
  <2> QED BY <2>3
<1>4. ASSUME NEW c \in Clients, Request(c) \/ \E n \in Media : SendPacket(c, n)
      PROVE  UNCHANGED <<reader, hand>>
  BY <1>4, RequestFrame, SendPacketGoes
<1> QED BY <1>1, <1>2, <1>3, <1>4 DEF Step

\* A step that adds nothing to the line.
LEMMA LineKept ==
    ASSUME TypeInv, NEW c \in Clients, NEW m \in Media, LineFacts(c, m),
           Line(c, m)' = Line(c, m), UNCHANGED file,
           position \in Nat, position' \in Nat, position' >= position,
           \A r \in Clients : Reading(r)' /\ hand'[r][2] # 0 =>
               (Reading(r) /\ hand'[r] = hand[r]) \/ hand'[r][2] = position + 1,
           (\E i \in DOMAIN queue'[c][m] : queue'[c][m][i] = 0) =>
               \E i \in DOMAIN queue[c][m] : queue[c][m][i] = 0,
           sender'[c][m] = "done" =>
               /\ sender[c][m] = "done" \/ \E i \in DOMAIN queue[c][m] : queue[c][m][i] = 0
               /\ queue'[c][m] = <<>>,
           (\E r \in Clients : Past(r, m)) => \E r \in Clients : Past(r, m)'
    PROVE  LineFacts(c, m)'
<1>1. Sorted(Line(c, m))'
  BY DEF LineFacts, Sorted
<1>2. ASSUME NEW i \in DOMAIN Line(c, m)'
      PROVE  /\ Line(c, m)'[i] # 0 => Line(c, m)'[i] <= position' /\ file'[Line(c, m)'[i]] = m
             /\ \A r \in Clients : Reading(r)' /\ hand'[r][1] = m /\ hand'[r][2] # 0 =>
                    Line(c, m)'[i] # hand'[r][2]
  <2>1. PICK n \in Nat : n = Line(c, m)[i] /\ n = Line(c, m)'[i] /\ i \in DOMAIN Line(c, m)
    <3>1. i \in DOMAIN Line(c, m) /\ Line(c, m)'[i] = Line(c, m)[i]
      OBVIOUS
    <3>2. Line(c, m)[i] \in Nat
      BY <3>1, LineTypes
    <3> QED BY <3>1, <3>2
  <2>2. /\ n # 0 => n <= position /\ file[n] = m
        /\ \A r \in Clients : Reading(r) /\ hand[r][1] = m /\ hand[r][2] # 0 => n # hand[r][2]
    BY <2>1 DEF LineFacts
  <2>3. n # 0 => n <= position'
    BY <2>2
  <2>4. ASSUME NEW r \in Clients, Reading(r)', hand'[r][1] = m, hand'[r][2] # 0 PROVE n # hand'[r][2]
    <3>1. CASE Reading(r) /\ hand'[r] = hand[r]
      BY <2>2, <2>4, <3>1
    <3>2. CASE hand'[r][2] = position + 1
      BY <2>2, <2>4, <3>2
    <3> QED BY <2>4, <3>1, <3>2
  <2> QED BY <2>1, <2>2, <2>3, <2>4
<1>3. (\E i \in DOMAIN queue'[c][m] : queue'[c][m][i] = 0) \/ sender'[c][m] = "done" =>
          \E r \in Clients : Past(r, m)'
  BY DEF LineFacts
<1> QED BY <1>1, <1>2, <1>3 DEF LineFacts

\* The reader appends to a line: it has not passed the end of the medium.
LEMMA LineGrows ==
    ASSUME TypeInv, OneReader, ReaderInv, NEW r \in Clients, Reader(r),
    NEW c \in Clients, NEW m \in Media,
           LineFacts(c, m), reader[r] = "push", hand[r][1] = m,
           queue'[c][m] = Append(queue[c][m], hand[r][2]), AfterCall(r), position' = position
    PROVE  LineFacts(c, m)'
<1>f. UNCHANGED <<file, sender, sent>>
  BY ReaderFrame
<1>h. hand[r][2] \in 0 .. Len(file) /\ hand[r][2] \in Nat /\ hand[r] = <<m, hand[r][2]>>
  BY HandTypes
<1>e. PICK e \in 0 .. Len(file) : e = hand[r][2]
  BY <1>h
<1>a. queue'[c][m] = Append(queue[c][m], e)
  BY <1>e
<1>l. /\ Len(Line(c, m)') = Len(Line(c, m)) + 1
      /\ DOMAIN Line(c, m)' = 1 .. Len(Line(c, m)) + 1
      /\ \A i \in 1 .. Len(Line(c, m)) : Line(c, m)'[i] = Line(c, m)[i]
      /\ Line(c, m)'[Len(Line(c, m)) + 1] = e
      /\ queue'[c][m] # <<>>
      /\ ((\E i \in DOMAIN queue'[c][m] : queue'[c][m][i] = 0) =>
             e = 0 \/ \E i \in DOMAIN queue[c][m] : queue[c][m][i] = 0)
  BY <1>f, <1>a, PushLine
<1>t. /\ DOMAIN Line(c, m) = 1 .. Len(Line(c, m)) /\ Len(Line(c, m)) \in Nat
      /\ \A i \in DOMAIN Line(c, m) : Line(c, m)[i] \in Nat
      /\ \A i \in DOMAIN Line(c, m) :
             Line(c, m)[i] = 0 => \E j \in DOMAIN queue[c][m] : queue[c][m][j] = 0
      /\ position \in Nat
  BY LineTypes, PositionTypes
<1>1. ~ \E s \in Clients : Past(s, m)
  <2>1. ~Past(r, m)
    BY <1>h DEF Past
  <2> QED BY <2>1, ReaderAlone
<1>2. /\ ~ \E i \in DOMAIN queue[c][m] : queue[c][m][i] = 0
      /\ sender[c][m] # "done"
      /\ \A i \in DOMAIN Line(c, m) : Line(c, m)[i] # 0
  BY <1>1, <1>t DEF LineFacts
<1>3. e # 0 => e = position /\ file[e] = m
  <2>1. Reading(r)
    BY DEF Reading
  <2>2. e # 0 => hand[r] = <<file[position], position>>
    BY <1>e, <2>1 DEF ReaderInv
  <2> QED BY <2>2, <1>e, <1>h
<1>4. ASSUME e # 0, NEW i \in DOMAIN Line(c, m) PROVE Line(c, m)[i] < e
  <2>1. PICK n \in Nat : n = Line(c, m)[i]
    BY <1>t
  <2>2. n <= position /\ n # e
    BY <1>2, <1>4, <1>e, <2>1 DEF LineFacts, Reading
  <2> QED BY <1>3, <1>4, <1>t, <2>1, <2>2
<1>5. Sorted(Line(c, m))'
  <2>1. SUFFICES ASSUME NEW i \in DOMAIN Line(c, m)', NEW j \in DOMAIN Line(c, m)', i < j
                 PROVE  Line(c, m)'[i] # 0 /\ (Line(c, m)'[j] = 0 \/ Line(c, m)'[i] < Line(c, m)'[j])
    BY DEF Sorted
  <2>2. i \in DOMAIN Line(c, m) /\ (j \in DOMAIN Line(c, m) \/ j = Len(Line(c, m)) + 1)
    BY <1>l, <1>t, <2>1
  <2>3. Line(c, m)'[i] = Line(c, m)[i] /\ Line(c, m)[i] # 0
    BY <1>l, <1>t, <1>2, <2>2
  <2>4. CASE j \in DOMAIN Line(c, m)
    <3>1. Line(c, m)'[j] = Line(c, m)[j]
      BY <1>l, <1>t, <2>4
    <3> QED BY <2>1, <2>2, <2>3, <2>4, <3>1 DEF LineFacts, Sorted
  <2>5. CASE j = Len(Line(c, m)) + 1
    BY <1>l, <1>4, <2>2, <2>3, <2>5
  <2> QED BY <2>2, <2>4, <2>5
<1>6. \A s \in Clients : Reading(s)' => hand'[s][2] = 0
  BY ReaderAlone, AfterCallGoes
<1>7. ASSUME NEW i \in DOMAIN Line(c, m)', Line(c, m)'[i] # 0
      PROVE  Line(c, m)'[i] <= position' /\ file'[Line(c, m)'[i]] = m
  <2>1. CASE i \in DOMAIN Line(c, m)
    <3>1. Line(c, m)'[i] = Line(c, m)[i]
      BY <1>l, <1>t, <2>1
    <3> QED BY <1>f, <1>7, <2>1, <3>1 DEF LineFacts
  <2>2. CASE i = Len(Line(c, m)) + 1
    <3>1. e # 0 /\ Line(c, m)'[i] = e
      BY <1>l, <1>7, <2>2
    <3> QED BY <1>f, <1>3, <1>t, <3>1
  <2> QED BY <1>l, <1>t, <1>7, <2>1, <2>2
<1>8. e = 0 => Past(r, m)'
  <2>1. ASSUME e = 0 PROVE Past(r, m)'
    <3>1. CASE m = "video"
      <4>1. reader'[r] = "call" /\ hand'[r] = <<"audio", 0>>
        BY <1>e, <1>h, <2>1, <3>1, AfterCallGoes
      <4> QED BY <3>1, <4>1 DEF Past, Reading
    <3>2. CASE m = "audio"
      <4>1. reader'[r] = "clear"
        BY <1>e, <1>h, <2>1, <3>2, AfterCallGoes
      <4> QED BY <4>1 DEF Past
    <3> QED BY <3>1, <3>2 DEF Media
  <2> QED BY <2>1
<1>9. (\E i \in DOMAIN queue'[c][m] : queue'[c][m][i] = 0) \/ sender'[c][m] = "done" =>
          \E s \in Clients : Past(s, m)'
  BY <1>f, <1>l, <1>2, <1>8
<1>10. sender'[c][m] # "done"
  BY <1>f, <1>2
<1> QED BY <1>5, <1>6, <1>7, <1>9, <1>10 DEF LineFacts

\* Initially nothing is in line.
LEMMA InitLine == Init => LineInv /\ ApartInv /\ WholeInv
<1> SUFFICES ASSUME Init PROVE LineInv /\ ApartInv /\ WholeInv
  OBVIOUS
<1>1. ASSUME NEW c \in Clients, NEW m \in Media PROVE Line(c, m) = <<>>
  BY DEF Line, Init
<1>2. DOMAIN <<>> = {}
  OBVIOUS
<1>3. ASSUME NEW c \in Clients, NEW m \in Media PROVE LineFacts(c, m)
  <2>1. queue[c][m] = <<>> /\ sender[c][m] # "done"
    BY DEF Init
  <2>2. Line(c, m) = <<>>
    BY <1>1
  <2> QED BY <1>2, <2>1, <2>2 DEF LineFacts, Sorted
<1>4. ApartInv
  BY <1>1, <1>2 DEF ApartInv
<1>5. Players = {}
  BY DEF Init, Players
<1> QED BY <1>3, <1>4, <1>5 DEF LineInv, WholeInv

\* The queue of a sender only loses its head.
LEMMA SendPacketQueue ==
    ASSUME TypeInv, NEW c \in Clients, NEW m \in Media, SendPacket(c, m),
           \E i \in DOMAIN queue'[c][m] : queue'[c][m][i] = 0
    PROVE  \E i \in DOMAIN queue[c][m] : queue[c][m][i] = 0
<1>s. PICK S, q : S = 0 .. Len(file) /\ q = queue[c][m]
  OBVIOUS
<1>1. q \in Seq(S) /\ q # <<>> /\ queue'[c][m] = Tail(q)
  BY <1>s, LineTypes, SendPacketGoes
<1>2. /\ Len(q) \in Nat /\ DOMAIN q = 1 .. Len(q) /\ Tail(q) \in Seq(S) /\ Len(Tail(q)) = Len(q) - 1
      /\ \A i \in 1 .. Len(Tail(q)) : Tail(q)[i] = q[i + 1]
  BY <1>1, HeadTailProperties, LenProperties
<1>3. DOMAIN Tail(q) = 1 .. Len(Tail(q))
  BY <1>2, LenProperties
<1>4. PICK i \in 1 .. Len(Tail(q)) : Tail(q)[i] = 0
  BY <1>1, <1>3
<1>5. i + 1 \in DOMAIN q /\ q[i + 1] = 0
  BY <1>2, <1>4
<1> QED BY <1>s, <1>5

\* Every step keeps the lines in order.
LEMMA StepLine ==
    TypeInv /\ PlayersInv /\ ReaderInv /\ LineInv /\ Step => LineInv'
<1> SUFFICES ASSUME TypeInv, PlayersInv, ReaderInv, LineInv, Step, OneReader',
                    NEW c \in Clients, NEW m \in Media
             PROVE  LineFacts(c, m)'
  BY DEF LineInv
<1>o. OneReader /\ LineFacts(c, m)
  BY OneReaderBefore DEF LineInv
<1>p. position \in Nat
  BY PositionTypes
<1>q. (\E r \in Clients : Past(r, m)) => \E r \in Clients : Past(r, m)'
  BY <1>o, PastStays
<1>1. ASSUME NEW d \in Clients, Request(d) PROVE LineFacts(c, m)'
  <2>1. UNCHANGED <<sent, queue, reader, hand, position, file>>
    BY <1>1, RequestFrame
  <2>2. Line(c, m)' = Line(c, m) /\ \A r \in Clients : Reading(r)' => Reading(r)
    BY <2>1 DEF Line, Reading
  <2>3. sender'[c][m] = "done" => sender[c][m] = "done"
    BY <1>1, RequestGoes
  <2>4. sender'[c][m] = "done" => queue'[c][m] = <<>>
    BY <1>o, <2>1, <2>3 DEF LineFacts
  <2> QED BY <1>o, <1>p, <1>q, <2>1, <2>2, <2>3, <2>4, LineKept
<1>2. ASSUME NEW d \in Clients, SendThread(d) PROVE LineFacts(c, m)'
  <2>1. UNCHANGED <<sent, queue, hand, position, file>>
    BY <1>2, SendThreadFrame
  <2>s. sender'[c][m] = "done" => sender[c][m] = "done"
    <3>1. \/ sender' = sender
          \/ /\ sender'[d] = [n \in Media |-> IF n \in streams[d] THEN "pop" ELSE "none"]
             /\ \A b \in Clients \ {d} : sender'[b] = sender[b]
      BY <1>2, SendThreadFrame, SendThreadGoes DEF TakeStreams, SendGoes, Media
    <3>2. CASE sender' = sender
      BY <3>2
    <3>3. CASE /\ sender'[d] = [n \in Media |-> IF n \in streams[d] THEN "pop" ELSE "none"]
               /\ \A b \in Clients \ {d} : sender'[b] = sender[b]
      <4>1. sender'[d][m] = IF m \in streams[d] THEN "pop" ELSE "none"
        BY <3>3
      <4> QED BY <3>3, <4>1
    <3> QED BY <3>1, <3>2, <3>3
  <2>2. UNCHANGED reader \/ reader' = [reader EXCEPT ![d] = "read"]
    BY <1>2, SendThreadGoes, Zenon
  <2>3. Line(c, m)' = Line(c, m) /\ \A r \in Clients : Reading(r)' => Reading(r)
    BY <2>1, <2>2, SendTypes DEF Line, Reading
  <2>4. sender'[c][m] = "done" => queue'[c][m] = <<>>
    BY <1>o, <2>1, <2>s DEF LineFacts
  <2> QED BY <1>o, <1>p, <1>q, <2>1, <2>s, <2>3, <2>4, LineKept
<1>3. ASSUME NEW d \in Clients, NEW n \in Media, SendPacket(d, n) PROVE LineFacts(c, m)'
  <2>1. UNCHANGED <<reader, hand, position, file>>
    BY <1>3, SendPacketGoes
  <2>2. \A r \in Clients : Reading(r)' => Reading(r)
    BY <2>1 DEF Reading
  <2>3. CASE c # d \/ m # n
    <3>1. Line(c, m)' = Line(c, m) /\ queue'[c][m] = queue[c][m] /\ sender'[c][m] = sender[c][m]
      BY <1>3, <1>o, <2>3, SendPacketLine, SendPacketGoes
    <3>2. sender'[c][m] = "done" => queue'[c][m] = <<>>
      BY <1>o, <3>1 DEF LineFacts
    <3> QED BY <1>o, <1>p, <1>q, <2>1, <2>2, <3>1, <3>2, LineKept
  <2>4. CASE c = d /\ m = n
    <3>s. sender'[c][m] = "done" =>
              queue'[c][m] = <<>> /\ \E i \in DOMAIN queue[c][m] : queue[c][m][i] = 0
      BY <1>3, <1>o, <2>4, SendPacketLine
    <3>q. (\E i \in DOMAIN queue'[c][m] : queue'[c][m][i] = 0) =>
              \E i \in DOMAIN queue[c][m] : queue[c][m][i] = 0
      BY <1>3, <2>4, SendPacketQueue
    <3>1. CASE Line(c, m)' = Line(c, m)
      BY <1>o, <1>p, <1>q, <2>1, <2>2, <3>s, <3>q, <3>1, LineKept
    <3>2. CASE Line(c, m)' = sent[c][m]
      <4>1. /\ DOMAIN sent[c][m] = 1 .. Len(sent[c][m])
            /\ \A i \in 1 .. Len(sent[c][m]) :
                   i \in DOMAIN Line(c, m) /\ Line(c, m)[i] = sent[c][m][i] /\ sent[c][m][i] # 0
        BY LineTypes
      <4>2. \A i \in DOMAIN Line(c, m)' : i \in DOMAIN Line(c, m) /\ Line(c, m)'[i] = Line(c, m)[i]
        BY <3>2, <4>1
      <4>3. Sorted(Line(c, m))'
        BY <1>o, <4>2 DEF LineFacts, Sorted
      <4>4. \A i \in DOMAIN Line(c, m)' :
                /\ Line(c, m)'[i] # 0 => Line(c, m)'[i] <= position' /\ file'[Line(c, m)'[i]] = m
                /\ \A r \in Clients : Reading(r)' /\ hand'[r][1] = m /\ hand'[r][2] # 0 =>
                       Line(c, m)'[i] # hand'[r][2]
        BY <1>o, <2>1, <2>2, <4>2 DEF LineFacts
      <4>5. (\E i \in DOMAIN queue'[c][m] : queue'[c][m][i] = 0) \/ sender'[c][m] = "done" =>
                \E r \in Clients : Past(r, m)'
        BY <1>o, <1>q, <3>s, <3>q DEF LineFacts
      <4> QED BY <3>s, <4>3, <4>4, <4>5 DEF LineFacts
    <3> QED BY <1>3, <1>o, <2>4, <3>1, <3>2, SendPacketLine
  <2> QED BY <2>3, <2>4
<1>4. ASSUME NEW r \in Clients, Reader(r) PROVE LineFacts(c, m)'
  <2>1. UNCHANGED <<sender, sent, file>>
    BY <1>4, ReaderFrame
  <2>2. CASE queue'[c][m] = queue[c][m]
    <3>1. Line(c, m)' = Line(c, m)
      BY <2>1, <2>2 DEF Line
    <3>2. \A s \in Clients : Reading(s)' /\ hand'[s][2] # 0 =>
               (Reading(s) /\ hand'[s] = hand[s]) \/ hand'[s][2] = position + 1
      BY <1>4, <1>o, ReaderAlone, ReaderSummary
    <3>3. position' \in Nat /\ position' >= position
      BY <1>4, ReaderSummary
    <3>4. sender'[c][m] = "done" => queue'[c][m] = <<>>
      BY <1>o, <2>1, <2>2 DEF LineFacts
    <3> QED BY <1>o, <1>p, <1>q, <2>1, <2>2, <3>1, <3>2, <3>3, <3>4, LineKept
  <2>3. CASE /\ reader[r] = "push" /\ target[r] = c /\ hand[r][1] = m
             /\ queue'[c][m] = Append(queue[c][m], hand[r][2])
             /\ AfterCall(r) /\ position' = position
    BY <1>4, <1>o, <2>3, LineGrows
  <2> QED BY <1>4, <2>2, <2>3, ReaderSummary
<1> QED BY <1>1, <1>2, <1>3, <1>4 DEF Step

\* Every step leaves a line as it is, appends to it, or takes the null from its end.
LEMMA LineGoes ==
    ASSUME TypeInv, PlayersInv, ReaderInv, LineInv, OneReader, Step
    PROVE  \/ \A c \in Clients, m \in Media : Line(c, m)' = Line(c, m)
           \/ \E c \in Clients, m \in Media :
                  /\ \A d \in Clients, n \in Media : d # c \/ n # m => Line(d, n)' = Line(d, n)
                  /\ \A i \in DOMAIN Line(c, m)' : i \in DOMAIN Line(c, m) /\ Line(c, m)'[i] = Line(c, m)[i]
                  /\ \A i \in DOMAIN Line(c, m) : Line(c, m)[i] # 0 => i \in DOMAIN Line(c, m)'
           \/ \E r \in Clients, c \in Clients, m \in Media :
                  /\ Reader(r) /\ reader[r] = "push" /\ target[r] = c /\ hand[r][1] = m
                  /\ \A d \in Clients, n \in Media : d # c \/ n # m => Line(d, n)' = Line(d, n)
                  /\ DOMAIN Line(c, m)' = 1 .. Len(Line(c, m)) + 1
                  /\ \A i \in 1 .. Len(Line(c, m)) : Line(c, m)'[i] = Line(c, m)[i]
                  /\ Line(c, m)'[Len(Line(c, m)) + 1] = hand[r][2]
<1>1. CASE UNCHANGED <<sent, queue>>
  BY <1>1 DEF Line
<1>2. ASSUME NEW d \in Clients, Request(d) \/ SendThread(d) PROVE UNCHANGED <<sent, queue>>
  BY <1>2, RequestFrame, SendThreadFrame
<1>3. ASSUME NEW c \in Clients, NEW m \in Media, SendPacket(c, m)
      PROVE  \/ \A d \in Clients, n \in Media : Line(d, n)' = Line(d, n)
             \/ /\ \A d \in Clients, n \in Media : d # c \/ n # m => Line(d, n)' = Line(d, n)
                /\ \A i \in DOMAIN Line(c, m)' : i \in DOMAIN Line(c, m) /\ Line(c, m)'[i] = Line(c, m)[i]
                /\ \A i \in DOMAIN Line(c, m) : Line(c, m)[i] # 0 => i \in DOMAIN Line(c, m)'
  <2>1. \A d \in Clients, n \in Media : d # c \/ n # m => Line(d, n)' = Line(d, n)
    BY <1>3, SendPacketLine
  <2>2. CASE Line(c, m)' = Line(c, m)
    BY <2>1, <2>2
  <2>3. CASE /\ Line(c, m)' = sent[c][m] /\ Len(Line(c, m)) = Len(sent[c][m]) + 1
             /\ Line(c, m)[Len(Line(c, m))] = 0
    <3>1. /\ DOMAIN sent[c][m] = 1 .. Len(sent[c][m]) /\ Len(sent[c][m]) \in Nat
          /\ DOMAIN Line(c, m) = 1 .. Len(Line(c, m))
          /\ \A i \in 1 .. Len(sent[c][m]) : i \in DOMAIN Line(c, m) /\ Line(c, m)[i] = sent[c][m][i]
      BY LineTypes
    <3>2. \A i \in DOMAIN Line(c, m)' : i \in DOMAIN Line(c, m) /\ Line(c, m)'[i] = Line(c, m)[i]
      BY <2>3, <3>1
    <3>3. \A i \in DOMAIN Line(c, m) : Line(c, m)[i] # 0 => i \in DOMAIN Line(c, m)'
      BY <2>3, <3>1
    <3> QED BY <2>1, <3>2, <3>3
  <2> QED BY <1>3, <2>2, <2>3, SendPacketLine
<1>4. ASSUME NEW r \in Clients, Reader(r), ~ UNCHANGED queue
      PROVE  \E c \in Clients, m \in Media :
                  /\ reader[r] = "push" /\ target[r] = c /\ hand[r][1] = m
                  /\ \A d \in Clients, n \in Media : d # c \/ n # m => Line(d, n)' = Line(d, n)
                  /\ DOMAIN Line(c, m)' = 1 .. Len(Line(c, m)) + 1
                  /\ \A i \in 1 .. Len(Line(c, m)) : Line(c, m)'[i] = Line(c, m)[i]
                  /\ Line(c, m)'[Len(Line(c, m)) + 1] = hand[r][2]
  <2>1. /\ reader[r] = "push"
        /\ queue'[target[r]][hand[r][1]] = Append(queue[target[r]][hand[r][1]], hand[r][2])
        /\ \A d \in Clients, n \in Media : d # target[r] \/ n # hand[r][1] => queue'[d][n] = queue[d][n]
    BY <1>4, ReaderCases
  <2>2. PICK c \in Clients, m \in Media, e \in 0 .. Len(file) :
            target[r] = c /\ hand[r][1] = m /\ hand[r][2] = e
    BY <2>1, HandTypes
  <2>3. UNCHANGED <<sent, file>>
    BY <1>4, ReaderFrame
  <2>4. \A d \in Clients, n \in Media : d # c \/ n # m => Line(d, n)' = Line(d, n)
    BY <2>1, <2>2, <2>3 DEF Line
  <2>5. queue'[c][m] = Append(queue[c][m], e)
    BY <2>1, <2>2
  <2>6. /\ DOMAIN Line(c, m)' = 1 .. Len(Line(c, m)) + 1
        /\ \A i \in 1 .. Len(Line(c, m)) : Line(c, m)'[i] = Line(c, m)[i]
        /\ Line(c, m)'[Len(Line(c, m)) + 1] = e
    BY <2>3, <2>5, PushLine
  <2> QED BY <2>1, <2>2, <2>4, <2>6
<1>5. ASSUME NEW r \in Clients, Reader(r) PROVE UNCHANGED sent
  BY <1>5, ReaderFrame
<1>6. CASE \E c \in Clients, m \in Media : SendPacket(c, m)
  BY <1>3, <1>6
<1>7. CASE \E r \in Clients : Reader(r)
  <2>1. PICK r \in Clients : Reader(r)
    BY <1>7
  <2>2. CASE UNCHANGED queue
    BY <1>1, <1>5, <2>1, <2>2
  <2>3. CASE ~ UNCHANGED queue
    BY <1>4, <2>1, <2>3
  <2> QED BY <2>2, <2>3
<1> QED BY <1>1, <1>2, <1>6, <1>7 DEF Step

\* Every step keeps the lines apart.
LEMMA StepApart ==
    TypeInv /\ PlayersInv /\ ReaderInv /\ LineInv /\ ApartInv /\ Step => ApartInv'
<1> SUFFICES ASSUME TypeInv, PlayersInv, ReaderInv, LineInv, ApartInv, Step, OneReader',
                    NEW c \in Clients, NEW d \in Clients, NEW m \in Media, c # d,
                    NEW i \in DOMAIN Line(c, m)', NEW j \in DOMAIN Line(d, m)',
                    Line(c, m)'[i] = Line(d, m)'[j]
             PROVE  Line(c, m)'[i] = 0
  BY DEF ApartInv
<1>o. OneReader
  BY OneReaderBefore
<1>i. /\ \A x \in DOMAIN Line(c, m), y \in DOMAIN Line(d, m) :
             Line(c, m)[x] = Line(d, m)[y] => Line(c, m)[x] = 0
      /\ \A x \in DOMAIN Line(d, m), y \in DOMAIN Line(c, m) :
             Line(d, m)[x] = Line(c, m)[y] => Line(d, m)[x] = 0
  BY <1>o DEF ApartInv
<1>1. CASE \A b \in Clients, n \in Media : Line(b, n)' = Line(b, n)
  BY <1>1, <1>i
<1>2. ASSUME NEW b \in Clients, NEW n \in Media,
             \A a \in Clients, k \in Media : a # b \/ k # n => Line(a, k)' = Line(a, k),
             \A x \in DOMAIN Line(b, n)' : x \in DOMAIN Line(b, n) /\ Line(b, n)'[x] = Line(b, n)[x]
      PROVE  Line(c, m)'[i] = 0
  <2>1. i \in DOMAIN Line(c, m) /\ Line(c, m)'[i] = Line(c, m)[i]
    BY <1>2
  <2>2. j \in DOMAIN Line(d, m) /\ Line(d, m)'[j] = Line(d, m)[j]
    BY <1>2
  <2> QED BY <1>i, <2>1, <2>2
<1>3. ASSUME NEW r \in Clients, NEW b \in Clients, NEW n \in Media,
             Reader(r), reader[r] = "push", target[r] = b, hand[r][1] = n,
             \A a \in Clients, k \in Media : a # b \/ k # n => Line(a, k)' = Line(a, k),
             DOMAIN Line(b, n)' = 1 .. Len(Line(b, n)) + 1,
             \A x \in 1 .. Len(Line(b, n)) : Line(b, n)'[x] = Line(b, n)[x],
             Line(b, n)'[Len(Line(b, n)) + 1] = hand[r][2]
      PROVE  Line(c, m)'[i] = 0
  <2>t. DOMAIN Line(b, n) = 1 .. Len(Line(b, n)) /\ Len(Line(b, n)) \in Nat
    BY LineTypes
  <2>1. ASSUME NEW a \in Clients, NEW x \in DOMAIN Line(a, m)'
        PROVE  \/ x \in DOMAIN Line(a, m) /\ Line(a, m)'[x] = Line(a, m)[x]
               \/ a = b /\ m = n /\ Line(a, m)'[x] = hand[r][2]
    <3>1. CASE a = b /\ m = n
      <4>1. x \in 1 .. Len(Line(b, n)) \/ x = Len(Line(b, n)) + 1
        BY <1>3, <2>t, <2>1, <3>1
      <4> QED BY <1>3, <2>t, <3>1, <4>1
    <3>2. CASE ~(a = b /\ m = n)
      BY <1>3, <2>1, <3>2
    <3> QED BY <3>1, <3>2
  <2>2. \A a \in Clients : \A x \in DOMAIN Line(a, m) :
            m = n /\ hand[r][2] # 0 => Line(a, m)[x] # hand[r][2]
    BY <1>3, <1>o DEF LineInv, LineFacts, Reading
  <2>3. /\ \/ i \in DOMAIN Line(c, m) /\ Line(c, m)'[i] = Line(c, m)[i]
           \/ c = b /\ m = n /\ Line(c, m)'[i] = hand[r][2]
        /\ \/ j \in DOMAIN Line(d, m) /\ Line(d, m)'[j] = Line(d, m)[j]
           \/ d = b /\ m = n /\ Line(d, m)'[j] = hand[r][2]
    BY <2>1
  <2> QED BY <1>i, <2>2, <2>3
<1> QED BY <1>1, <1>2, <1>3, <1>o, LineGoes

\* A reader is of one who plays.
LEMMA AloneReads ==
    ASSUME PlayersInv, NEW c \in Clients, Players = {c}
    PROVE  OneReader /\ \A r \in Clients : reader[r] # "none" => r = c
<1>1. \A r \in Clients : reader[r] # "none" => r \in Players
  BY DEF PlayersInv, Players
<1> QED BY <1>1 DEF OneReader

\* Every step keeps the line of the only player whole.
LEMMA StepWhole ==
    TypeInv /\ PlayersInv /\ AloneInv /\ ReaderInv /\ LineInv /\ WholeInv /\ Step => WholeInv'
<1> SUFFICES ASSUME TypeInv, PlayersInv, AloneInv, ReaderInv, LineInv, WholeInv, Step,
                    NEW c \in Clients, Players' = {c}, NEW m \in streams'[c],
                    NEW i \in 1 .. position', file'[i] = m
             PROVE  \/ \E j \in DOMAIN Line(c, m)' : Line(c, m)'[j] = i
                    \/ Reading(c)' /\ hand'[c] = <<m, i>>
  BY DEF WholeInv
<1>p. position \in Nat /\ m \in Media /\ i \in Nat /\ i # 0
  <2>1. TypeInv'
    BY StepTypes
  <2>2. streams' \in [Clients -> SUBSET Media] /\ position' \in 0 .. Len(file') /\ file' \in Seq(Media)
    BY <2>1 DEF TypeInv, ServerTypeOK
  <2> QED BY <2>2, PositionTypes
<1>1. ASSUME NEW d \in Clients, Request(d), send[d] = "none", Players' = Players \cup {d} PROVE FALSE
  <2>1. Players = {}
    BY <1>1 DEF Players
  <2>2. \A r \in Clients : reader[r] = "none"
    BY <2>1 DEF PlayersInv, Players
  <2>3. position = 0
    BY <2>2 DEF ReaderInv, OneReader
  <2>4. position' = position
    BY <1>1, RequestFrame
  <2> QED BY <2>3, <2>4
<1>2. ASSUME Players' = Players
      PROVE  \/ \E j \in DOMAIN Line(c, m)' : Line(c, m)'[j] = i
             \/ Reading(c)' /\ hand'[c] = <<m, i>>
  <2>a. OneReader /\ \A r \in Clients : reader[r] # "none" => r = c
    BY <1>2, AloneReads
  <2>s. send[c] # "none"
    BY <1>2 DEF Players
  <2>m. m \in streams[c] /\ UNCHANGED file
    <3>1. ASSUME NEW d \in Clients, Request(d) PROVE m \in streams[c] /\ UNCHANGED file
      <4>1. CASE send[c] = "streams"
        <5>1. \A r \in Clients : reader[r] = "none"
          BY <4>1, <2>a DEF PlayersInv
        <5>2. position = 0 /\ position' = position
          BY <5>1, <2>a, <3>1, RequestFrame DEF ReaderInv
        <5> QED BY <5>2
      <4>2. CASE send[c] # "streams"
        BY <3>1, <4>2, <2>s, RequestGoes, RequestFrame
      <4> QED BY <4>1, <4>2
    <3>2. ASSUME NEW d \in Clients, SendThread(d) \/ Reader(d) \/ \E n \in Media : SendPacket(d, n)
          PROVE  UNCHANGED streams /\ UNCHANGED file
      BY <3>2, SendThreadFrame, ReaderFrame, SendPacketGoes DEF clientVars
    <3> QED BY <3>1, <3>2 DEF Step
  <2>1. CASE \E j \in DOMAIN Line(c, m) : Line(c, m)[j] = i
    <3>1. PICK j \in DOMAIN Line(c, m) : Line(c, m)[j] = i
      BY <2>1
    <3>t. DOMAIN Line(c, m) = 1 .. Len(Line(c, m)) /\ Len(Line(c, m)) \in Nat
      BY <1>p, LineTypes
    <3>2. j \in DOMAIN Line(c, m)' /\ Line(c, m)'[j] = Line(c, m)[j]
      <4>1. CASE \A d \in Clients, n \in Media : Line(d, n)' = Line(d, n)
        BY <1>p, <4>1
      <4>2. ASSUME NEW b \in Clients, NEW n \in Media,
                   \A d \in Clients, k \in Media : d # b \/ k # n => Line(d, k)' = Line(d, k),
                   \A x \in DOMAIN Line(b, n)' : x \in DOMAIN Line(b, n) /\ Line(b, n)'[x] = Line(b, n)[x],
                   \A x \in DOMAIN Line(b, n) : Line(b, n)[x] # 0 => x \in DOMAIN Line(b, n)'
            PROVE  j \in DOMAIN Line(c, m)' /\ Line(c, m)'[j] = Line(c, m)[j]
        BY <1>p, <3>1, <4>2
      <4>3. ASSUME NEW b \in Clients, NEW n \in Media,
                   \A d \in Clients, k \in Media : d # b \/ k # n => Line(d, k)' = Line(d, k),
                   DOMAIN Line(b, n)' = 1 .. Len(Line(b, n)) + 1,
                   \A x \in 1 .. Len(Line(b, n)) : Line(b, n)'[x] = Line(b, n)[x]
            PROVE  j \in DOMAIN Line(c, m)' /\ Line(c, m)'[j] = Line(c, m)[j]
        <5>1. CASE c = b /\ m = n
          BY <3>1, <3>t, <4>3, <5>1
        <5>2. CASE ~(c = b /\ m = n)
          BY <1>p, <3>1, <4>3, <5>2
        <5> QED BY <5>1, <5>2
      <4> QED BY <2>a, <4>1, <4>2, <4>3, LineGoes
    <3> QED BY <3>1, <3>2
  <2>2. CASE Reading(c) /\ hand[c] = <<m, i>>
    <3>1. CASE UNCHANGED <<reader, hand>>
      BY <2>2, <3>1 DEF Reading
    <3>2. ASSUME NEW d \in Clients, SendThread(d) PROVE reader'[c] = reader[c] /\ hand' = hand
      <4>1. \/ UNCHANGED reader
            \/ send[d] = "start" /\ reader' = [reader EXCEPT ![d] = "read"]
        BY <3>2, SendThreadGoes
      <4>2. send[c] # "start"
        BY <2>2 DEF PlayersInv, Reading
      <4> QED BY <3>2, <4>1, <4>2, SendThreadFrame, SendTypes
    <3>3. ASSUME NEW r \in Clients, Reader(r)
          PROVE  \/ \E j \in DOMAIN Line(c, m)' : Line(c, m)'[j] = i
                 \/ Reading(c)' /\ hand'[c] = <<m, i>>
      <4>1. r = c
        BY <2>a, <3>3, ReaderGoes
      <4>2. callback[m] = c
        <5>1. send[c] \in {"mark", "join", "done"}
          BY <2>2 DEF PlayersInv, Reading
        <5> QED BY <1>2, <1>p, <5>1 DEF AloneInv, Media
      <4>3. c # NoClient /\ hand[c][1] = m
        BY <2>2, SendTypes
      <4>4. CASE UNCHANGED <<reader, hand>>
        BY <2>2, <4>4 DEF Reading
      <4>5. CASE reader'[c] = "push" /\ UNCHANGED hand
        BY <2>2, <4>5 DEF Reading
      <4>6. CASE /\ reader[r] = "push"
                 /\ queue'[target[r]][hand[r][1]] = Append(queue[target[r]][hand[r][1]], hand[r][2])
        <5>1. target[r] = c
          <6>1. target[r] \in Takers /\ Players = {c}
            BY <1>2, <4>6 DEF PlayersInv
          <6> QED BY <6>1 DEF Takers, Players
        <5>2. queue'[c][m] = Append(queue[c][m], i) /\ i \in 0 .. Len(file)
          <6>1. hand[c][1] = m /\ hand[c][2] = i
            BY <2>2
          <6>2. hand[c][2] \in 0 .. Len(file)
            BY HandTypes
          <6> QED BY <4>1, <4>6, <5>1, <6>1, <6>2
        <5>3. UNCHANGED <<sent, file>>
          BY <3>3, ReaderFrame
        <5>4. /\ Len(Line(c, m)) + 1 \in DOMAIN Line(c, m)'
              /\ Line(c, m)'[Len(Line(c, m)) + 1] = i
          <6>1. /\ DOMAIN Line(c, m)' = 1 .. Len(Line(c, m)) + 1
                /\ Line(c, m)'[Len(Line(c, m)) + 1] = i
            BY <1>p, <5>2, <5>3, PushLine
          <6>2. Len(Line(c, m)) \in Nat
            BY <1>p, LineTypes
          <6> QED BY <6>1, <6>2
        <5> QED BY <5>4
      <4> QED BY <2>2, <3>3, <4>1, <4>2, <4>3, <4>4, <4>5, <4>6, ReaderCases DEF Reading
    <3>4. ASSUME NEW d \in Clients, Request(d) \/ \E n \in Media : SendPacket(d, n)
          PROVE  UNCHANGED <<reader, hand>>
      BY <3>4, RequestFrame, SendPacketGoes
    <3>5. CASE reader'[c] = reader[c] /\ hand' = hand
      BY <2>2, <3>5 DEF Reading
    <3> QED BY <3>1, <3>2, <3>3, <3>4, <3>5 DEF Step
  <2>3. CASE i \notin 1 .. position
    <3>1. ASSUME NEW d \in Clients, ~Reader(d), \/ Request(d) \/ SendThread(d)
                                                \/ \E n \in Media : SendPacket(d, n)
          PROVE  position' = position
      BY <3>1, RequestFrame, SendThreadFrame, SendPacketGoes
    <3>2. PICK r \in Clients : Reader(r)
      BY <2>3, <3>1 DEF Step
    <3>3. r = c
      BY <2>a, <3>2, ReaderGoes
    <3>4. /\ reader'[r] = "call" /\ position' = position + 1
          /\ hand'[r] = <<file[position + 1], position + 1>>
      BY <2>3, <3>2, ReaderCases
    <3>5. i = position + 1
      BY <1>p, <2>3, <3>4
    <3> QED BY <2>m, <3>3, <3>4, <3>5 DEF Reading
  <2>4. ASSUME i \in 1 .. position
        PROVE  \/ \E j \in DOMAIN Line(c, m) : Line(c, m)[j] = i
               \/ Reading(c) /\ hand[c] = <<m, i>>
    BY <1>2, <2>m, <2>4 DEF WholeInv
  <2> QED BY <2>1, <2>2, <2>3, <2>4
<1> QED BY <1>1, <1>2, PlayersGrow

-----------------------------------------------------------------------------
(* Theorems *)

\* The invariant of the server, inductive.
ServingInv == /\ TypeInv /\ PlayersInv /\ AloneInv
              /\ ReaderInv /\ LineInv /\ ApartInv /\ WholeInv

\* The invariant of the server holds throughout.
LEMMA ServingInvariant == Spec => []ServingInv
<1>1. Init => ServingInv
  BY InitTypes, InitPlayers, InitReader, InitLine DEF ServingInv
<1>2. ServingInv /\ [Next]_vars => ServingInv'
  <2>1. ServingInv /\ Next => ServingInv'
    <3>1. Next => Step
      BY DEF Next, Step, ServerStep
    <3> QED BY <3>1, StepTypes, StepPlayers, StepAlone, StepReader, StepLine, StepApart, StepWhole
            DEF ServingInv
  <2>2. ServingInv /\ UNCHANGED vars => ServingInv'
    <3> SUFFICES ASSUME ServingInv, UNCHANGED vars PROVE ServingInv'
      OBVIOUS
    <3>v. UNCHANGED <<handler, session, streams, send, callback, mIsStarted, refused,
    sender, sent,
                      reader, hand, target, position, queue, file, crashed>>
      BY DEF vars, clientVars, sendVars, senderVars, readerVars
    <3>1. TypeInv'
      BY <3>v DEF ServingInv, TypeInv, ServerTypeOK
    <3>2. PlayersInv' /\ AloneInv'
      BY <3>v DEF ServingInv, PlayersInv, AloneInv, Players, Takers
    <3>3. OneReader' => OneReader
      BY <3>v DEF OneReader
    <3>4. \A r \in Clients, m \in Media : (Reading(r)' <=> Reading(r)) /\ (Past(r, m)' <=> Past(r, m))
      BY <3>v DEF Reading, Past
    <3>5. \A c \in Clients, m \in Media : Line(c, m)' = Line(c, m)
      BY <3>v DEF Line
    <3>6. ReaderInv'
      <4>1. OneReader' => /\ (\A r \in Clients : reader[r] = "none") => position = 0
                          /\ \A r \in Clients :
                               /\ Reading(r) /\ hand[r][2] # 0 =>
                                      position > 0 /\ hand[r] = <<file[position], position>>
                               /\ Reading(r) /\ hand[r][2] = 0 => position = Len(file)
                               /\ reader[r] \in {"clear", "done"} => position = Len(file)
        BY <3>3 DEF ServingInv, ReaderInv
      <4>2. \A r \in Clients : Reading(r)' <=> Reading(r)
        BY <3>v DEF Reading
      <4> QED BY <3>v, <4>1, <4>2 DEF ReaderInv
    <3>7. ASSUME NEW c \in Clients, NEW m \in Media, LineFacts(c, m) PROVE LineFacts(c, m)'
      BY <3>v, <3>4, <3>5, <3>7 DEF LineFacts, Sorted
    <3>8. LineInv' /\ ApartInv'
      BY <3>3, <3>5, <3>7 DEF ServingInv, LineInv, ApartInv
    <3>9. WholeInv'
      <4> SUFFICES ASSUME NEW c \in Clients, Players' = {c}, NEW m \in streams'[c],
                          NEW i \in 1 .. position', file'[i] = m
                   PROVE  \/ \E j \in DOMAIN Line(c, m)' : Line(c, m)'[j] = i
                          \/ Reading(c)' /\ hand'[c] = <<m, i>>
        BY DEF WholeInv
      <4>1. Players = {c} /\ m \in streams[c] /\ i \in 1 .. position /\ file[i] = m
        BY <3>v DEF Players
      <4>2. m \in Media
        BY <4>1, SendTypes DEF ServingInv
      <4>3. (\E j \in DOMAIN Line(c, m) : Line(c, m)[j] = i) \/ (Reading(c) /\ hand[c] = <<m, i>>)
        BY <4>1 DEF ServingInv, WholeInv
      <4> QED BY <3>v, <3>4, <3>5, <4>2, <4>3
    <3> QED BY <3>1, <3>2, <3>6, <3>8, <3>9 DEF ServingInv
  <2> QED BY <2>1, <2>2
<1> QED BY <1>1, <1>2, PTL DEF Spec

\* Two of a finite set.
LEMMA TwoCounted ==
    ASSUME NEW S, IsFiniteSet(S), NEW a \in S, NEW b \in S, a # b
    PROVE  Cardinality(S) > 1
<1>1. {a, b} \subseteq S
  OBVIOUS
<1>2. IsFiniteSet({a}) /\ Cardinality({a}) = 1
  BY FS_Singleton
<1>3. {a} \cup {b} = {a, b} /\ b \notin {a}
  OBVIOUS
<1>4. Cardinality({a, b}) = 2
  BY <1>2, <1>3, FS_AddElement
<1>5. Cardinality({a, b}) <= Cardinality(S)
  BY <1>1, FS_Subset
<1>6. Cardinality(S) \in Nat
  BY FS_CardinalityType
<1> QED BY <1>4, <1>5, <1>6

\* There are no more readers than players.
LEMMA ReadersFinite == PlayersInv => IsFiniteSet(Readers) /\ Readers \subseteq Players
<1> SUFFICES ASSUME PlayersInv PROVE IsFiniteSet(Readers) /\ Readers \subseteq Players
  OBVIOUS
<1>1. Readers \subseteq Players /\ IsFiniteSet(Players)
  BY DEF PlayersInv, Players, Readers
<1> QED BY <1>1, FS_Subset

\* A reader without the queue it pushes to: there are two, or a medium was not set up.
LEMMA QueueMissed ==
    ASSUME ServingInv, NEW r \in Clients, reader[r] \in {"call", "push"},
           NEW d \in Takers, NEW m \in Media,
           send[d] = "done" \/ m \notin streams[d]
    PROVE  Cardinality(Readers) > 1 \/ \E c \in Players : streams[c] # Media
<1>1. d \in Players
  BY DEF Players, Takers
<1>2. CASE streams[d] # Media
  BY <1>1, <1>2
<1>3. ASSUME streams[d] = Media PROVE Cardinality(Readers) > 1
  <2>1. d \in Clients /\ send[d] = "done" /\ "audio" \in Media
    BY <1>3 DEF Takers, Media
  <2>2. sender[d]["audio"] = "done"
    <3>1. sender[d]["audio"] # "none" /\ sender[d]["audio"] # "pop"
      BY <1>3, <2>1 DEF ServingInv, PlayersInv
    <3>2. sender \in [Clients -> [Media -> {"none", "pop", "done"}]]
      BY SendTypes DEF ServingInv
    <3> QED BY <2>1, <3>1, <3>2
  <2>3. ~OneReader
    <3>1. ASSUME OneReader PROVE FALSE
      <4>1. \E s \in Clients : Past(s, "audio")
        BY <2>1, <2>2, <3>1 DEF ServingInv, LineInv, LineFacts
      <4>2. PICK s \in Clients : reader[s] \in {"clear", "done"}
        BY <4>1 DEF Past
      <4> QED BY <3>1, <4>2 DEF OneReader
    <3> QED BY <3>1
  <2>4. PICK s \in Clients, q \in Clients : reader[s] # "none" /\ reader[q] # "none" /\ s # q
    BY <2>3 DEF OneReader
  <2>5. s \in Readers /\ q \in Readers
    BY <2>4 DEF Readers
  <2> QED BY <2>4, <2>5, ReadersFinite, TwoCounted DEF ServingInv
<1> QED BY <1>2, <1>3

\* What a step can end the program with.
LEMMA StepCrashes == ServingInv /\ crashed = "no" /\ Step => CrashesKnown'
<1> SUFFICES ASSUME ServingInv, crashed = "no", Step
             PROVE  /\ crashed' = "callback in use" => Cardinality(Players') > 1
                    /\ crashed' = "two readers" => Cardinality(Readers') > 1
                    /\ crashed' = "no such queue" => \/ Cardinality(Readers') > 1
                                                    \/ \E c \in Players' : streams'[c] # Media
  BY DEF CrashesKnown
<1>t. TypeInv /\ PlayersInv /\ IsFiniteSet(Players) /\ IsFiniteSet(Readers)
  BY ReadersFinite DEF ServingInv, PlayersInv
<1>1. ASSUME NEW c \in Clients, Request(c)
      PROVE  crashed' \in {"no", "PLAY twice", "streams in use"}
  BY <1>1 DEF Request, Describe, Setup, Play, Leave
<1>2. ASSUME NEW c \in Clients, SendThread(c), crashed' # "no"
      PROVE  crashed' = "callback in use" /\ Cardinality(Players') > 1
  <2>1. PICK m \in Media : SetCallback(c, m)
    BY <1>2 DEF SendThread, TakeStreams, StartReturns, MakeReader, MarkStarted, JoinSenders
  <2>2. /\ send[c] = m /\ crashed' = "callback in use"
        /\ \E r \in Clients : reader[r] = "call"
    BY <1>2, <2>1 DEF SetCallback, SendGoes
  <2>3. PICK r \in Clients : reader[r] = "call"
    BY <2>2
  <2>4. send[r] \in {"mark", "join", "done"}
    BY <1>t, <2>3 DEF PlayersInv
  <2>5. c \in Players /\ r \in Players /\ r # c
    BY <2>2, <2>4 DEF Players, Media
  <2>6. Players' = Players
    BY <1>t, <1>2, SendThreadGoes DEF Players
  <2> QED BY <1>t, <2>2, <2>5, <2>6, TwoCounted
<1>3. ASSUME NEW r \in Clients, Reader(r), crashed' # "no"
      PROVE  \/ crashed' = "two readers" /\ Cardinality(Readers') > 1
             \/ /\ crashed' = "no such queue"
                /\ Cardinality(Readers') > 1 \/ \E c \in Players' : streams'[c] # Media
  <2>f. Players' = Players /\ streams' = streams /\ Readers' = Readers
    BY <1>t, <1>3, ReaderFrame, ReaderGoes DEF Players, Readers, clientVars
  <2>1. CASE ReadFrame(r)
    <3>1. PICK s \in Clients \ {r} : reader[s] = "read"
      BY <1>3, <2>1 DEF ReadFrame
    <3>2. reader[r] = "read" /\ crashed' = "two readers"
      BY <1>3, <2>1 DEF ReadFrame
    <3>3. r \in Readers /\ s \in Readers
      BY <3>1, <3>2 DEF Readers
    <3> QED BY <1>t, <2>f, <3>1, <3>2, <3>3, TwoCounted
  <2>2. CASE Call(r)
    <3>1. /\ reader[r] = "call" /\ callback[hand[r][1]] # NoClient
          /\ send[callback[hand[r][1]]] = "done" \/ hand[r][1] \notin streams[callback[hand[r][1]]]
          /\ crashed' = "no such queue"
      BY <1>3, <2>2 DEF Call
    <3>2. hand[r][1] \in Media
      BY <1>t, HandTypes
    <3>3. callback[hand[r][1]] \in Takers
      BY <1>t, <3>1, <3>2 DEF PlayersInv
    <3> QED BY <2>f, <3>1, <3>2, <3>3, QueueMissed
  <2>3. CASE Push(r)
    <3>1. reader[r] = "push" /\ send[target[r]] = "done" /\ crashed' = "no such queue"
      BY <1>3, <2>3 DEF Push
    <3>2. hand[r][1] \in Media
      BY <1>t, HandTypes
    <3>3. target[r] \in Takers
      BY <1>t, <3>1 DEF PlayersInv
    <3> QED BY <2>f, <3>1, <3>2, <3>3, QueueMissed
  <2>4. CASE ClearStarted(r)
    BY <1>3, <2>4 DEF ClearStarted
  <2> QED BY <1>3, <2>1, <2>2, <2>3, <2>4 DEF Reader
<1>4. ASSUME NEW c \in Clients, NEW m \in Media, SendPacket(c, m) PROVE crashed' = "no"
  BY <1>4 DEF SendPacket
<1>5. CASE \E c \in Clients : Request(c)
  BY <1>1, <1>5
<1>6. CASE \E c \in Clients : SendThread(c)
  BY <1>2, <1>6
<1>7. CASE \E c \in Clients : Reader(c)
  BY <1>3, <1>7
<1>8. CASE \E c \in Clients : \E m \in Media : SendPacket(c, m)
  BY <1>4, <1>8
<1> QED BY <1>5, <1>6, <1>7, <1>8 DEF Step

\* At most one reader, counted, is one reader.
LEMMA OneReaderCounted ==
    ASSUME PlayersInv, Cardinality(Readers) <= 1
    PROVE  OneReader
<1>1. IsFiniteSet(Readers) /\ Cardinality(Readers) \in Nat
  BY ReadersFinite, FS_CardinalityType
<1>2. ASSUME NEW r \in Readers, NEW s \in Readers, r # s PROVE FALSE
  <2>1. Cardinality(Readers) > 1
    BY <1>1, <1>2, TwoCounted
  <2> QED BY <1>1, <2>1
<1> QED BY <1>2 DEF OneReader, Readers

\* What the lines say of the packets sent.
LEMMA SentOnce == ServingInv => PacketsSentOnce
<1> SUFFICES ASSUME ServingInv, OneReader, NEW c \in Clients, NEW m \in Media
             PROVE  /\ Ascending(sent[c][m])
                    /\ \A d \in Clients \ {c} : \A i \in DOMAIN sent[c][m], j \in DOMAIN sent[d][m] :
                           sent[c][m][i] # sent[d][m][j]
                    /\ Players = {c} /\ sender[c][m] = "done" =>
                           {sent[c][m][i] : i \in DOMAIN sent[c][m]} = Packets(m)
  BY OneReaderCounted DEF PacketsSentOnce, ServingInv
<1>t. \A d \in Clients :
          /\ DOMAIN sent[d][m] = 1 .. Len(sent[d][m]) /\ Len(sent[d][m]) \in Nat
          /\ \A i \in 1 .. Len(sent[d][m]) :
                 i \in DOMAIN Line(d, m) /\ Line(d, m)[i] = sent[d][m][i] /\ sent[d][m][i] # 0
  BY LineTypes DEF ServingInv
<1>f. LineFacts(c, m) /\ TypeInv /\ PlayersInv
  BY DEF ServingInv, LineInv
<1>1. ASSUME NEW i \in 1 .. Len(sent[c][m]) - 1 PROVE sent[c][m][i] < sent[c][m][i + 1]
  <2>1. i \in 1 .. Len(sent[c][m]) /\ i + 1 \in 1 .. Len(sent[c][m]) /\ i < i + 1
    BY <1>t
  <2>2. /\ i \in DOMAIN Line(c, m) /\ Line(c, m)[i] = sent[c][m][i]
        /\ i + 1 \in DOMAIN Line(c, m) /\ Line(c, m)[i + 1] = sent[c][m][i + 1] /\ sent[c][m][i + 1] # 0
    BY <1>t, <2>1
  <2> QED BY <1>f, <2>1, <2>2 DEF LineFacts, Sorted
<1>2. ASSUME NEW d \in Clients \ {c}, NEW i \in DOMAIN sent[c][m], NEW j \in DOMAIN sent[d][m]
      PROVE  sent[c][m][i] # sent[d][m][j]
  <2>1. /\ i \in DOMAIN Line(c, m) /\ Line(c, m)[i] = sent[c][m][i] /\ sent[c][m][i] # 0
        /\ j \in DOMAIN Line(d, m) /\ Line(d, m)[j] = sent[d][m][j]
    BY <1>t
  <2> QED BY <2>1 DEF ServingInv, ApartInv
<1>3. ASSUME Players = {c}, sender[c][m] = "done"
      PROVE  {sent[c][m][i] : i \in DOMAIN sent[c][m]} = Packets(m)
  <2>p. position \in Nat /\ Len(file) \in Nat /\ position <= Len(file) /\ DOMAIN file = 1 .. Len(file)
    BY <1>f, PositionTypes
  <2>1. ASSUME NEW i \in DOMAIN sent[c][m] PROVE sent[c][m][i] \in Packets(m)
    <3>1. PICK n \in Nat : n = sent[c][m][i] /\ n # 0 /\ n <= position /\ file[n] = m
      <4>1. i \in DOMAIN Line(c, m) /\ Line(c, m)[i] = sent[c][m][i] /\ sent[c][m][i] # 0
        BY <1>t
      <4>2. Line(c, m)[i] \in Nat
        BY <1>f, <4>1, LineTypes
      <4> QED BY <1>f, <4>1, <4>2 DEF LineFacts
    <3>2. n \in DOMAIN file
      BY <2>p, <3>1
    <3> QED BY <3>1, <3>2 DEF Packets
  <2>2. ASSUME NEW p \in Packets(m) PROVE \E i \in DOMAIN sent[c][m] : sent[c][m][i] = p
    <3>1. PICK r \in Clients : Past(r, m)
      BY <1>3, <1>f DEF LineFacts
    <3>2. r = c
      BY <1>3, <1>f, <3>1, AloneReads DEF Past, Reading
    <3>3. position = Len(file)
      BY <3>1 DEF ServingInv, ReaderInv, Past
    <3>4. p \in 1 .. position /\ file[p] = m /\ p # 0
      BY <2>p, <3>3 DEF Packets
    <3>5. m \in streams[c]
      BY <1>3, <1>f DEF PlayersInv
    <3>6. ~(Reading(c) /\ hand[c] = <<m, p>>)
      BY <3>1, <3>2, <3>4 DEF Past, Reading
    <3>7. PICK j \in DOMAIN Line(c, m) : Line(c, m)[j] = p
      BY <1>3, <3>4, <3>5, <3>6 DEF ServingInv, WholeInv
    <3>8. queue[c][m] = <<>>
      BY <1>3, <1>f DEF LineFacts
    <3>9. Line(c, m) = sent[c][m]
      BY <1>f, <3>8, LineTypes, ConcatEmptySeq DEF Line
    <3> QED BY <3>7, <3>9
  <2> QED BY <2>1, <2>2
<1>4. Ascending(sent[c][m])
  BY <1>1 DEF Ascending
<1> QED BY <1>2, <1>3, <1>4

\* ServerTypeOK: the types of every variable; the queues of sendThread() never
\* exceed their places, and no packet is sent that is not in the file.
THEOREM TypesCorrect == Spec => []ServerTypeOK
<1>1. TypeInv => ServerTypeOK
  BY DEF TypeInv
<1> QED BY <1>1, TypeInvariant, PTL

\* PacketsSentOnce: with one reader (RtspProgram::start() keeps to one until the
\* file has ended) the packets arrive once and in order, and one client alone gets
\* all of them; for any number of clients, any file and any size of the queues.
THEOREM PacketsOnce == Spec => []PacketsSentOnce
  BY ServingInvariant, SentOnce, PTL

\* CrashesKnown: whatever the clients ask and however the threads take turns, a
\* callback is replaced in use only if a second client plays, av_read_frame() runs
\* twice at once only if start() made two readers, and a callback finds its queue
\* gone only with two readers or a medium that was not set up.  The two ends a
\* client brings about alone, by what it asks after PLAY, are not denied.
THEOREM CrashesExplained == Spec => []CrashesKnown
<1>1. Init => CrashesKnown
  BY DEF Init, CrashesKnown
<1>2. ServingInv /\ CrashesKnown /\ [Next]_vars => CrashesKnown'
  <2>1. ServingInv /\ Next => CrashesKnown'
    BY StepCrashes DEF Next, Step, ServerStep
  <2>2. CrashesKnown /\ UNCHANGED vars => CrashesKnown'
    BY DEF CrashesKnown, Players, Readers, vars, clientVars, sendVars, readerVars
  <2> QED BY <2>1, <2>2
<1> QED BY <1>1, <1>2, ServingInvariant, PTL DEF Spec
=============================================================================
