# VideoToolBox in TLA+

VideoToolBox is a Qt program that plays media files, records the screen and
serves and receives streams over RTSP/RTP. Its hard part is threads: every
pipeline is a handful of threads that pass buffers through bounded queues, share
condition variables and are started, paused, flushed and joined from outside.
This directory holds TLA+ models of these pipelines, TLC configurations that
check them on small instances, and proofs for TLAPS. The source has no tests and
few comments, so the models are written from the code alone.

Line numbers below and in the modules are lines of the file named with them.

## 1. Inventory

| component | state | operations | interacts with | hard behaviour |
|---|---|---|---|---|
| `CountingQueue` (`foundation/CountingQueue.h`) | `mQueue`, `mAbort`, one mutex, one condition variable | `push`, `pop`, `abort`, `init` | every thread of every pipeline | both sides sleep on one condition variable; abort against sleepers; `init` after `abort` |
| message thread (`vp/Player.cpp`, `foundation/Semaphore.cpp`) | `mMessageQueue` (a plain `std::queue`), `Semaphore mCount`, exit flag | `postMessage`, the loop, the exit in `~Player` | user, extract thread | unlocked queue, semaphore that starts at 5, exit wakeup |
| `Player` (`vp/Player.cpp`) | `mState`, `mSeekTime`, packet queues, codec contexts, four threads | start, pause, seek, destructor; extract and decode loops | CountingQueue, Render | seek against everything else; teardown; failures of FFmpeg calls |
| `Render` (`vp/Render.cpp`) | frame queues, device, `mAudioClock`, `mPaused`, render thread | start, pause, flush, stop, destructor, audio callback | Player; SDL device thread and its lock | device lock against queue waits, lost resume |
| `ScreenRecorder` (`vr/ScreenRecorder.cpp`) | four queues, encoder contexts, exit flags, four threads | init, start, stop, record, encode, mux, audio callback | CountingQueue, SDL, encoders | merge of two encoders by time, back-pressure, stop, failed init |
| RTP server (`rtsp/server/RtpServerStream.cpp`, `RtpServerProto.cpp`) | position in the access unit, fragment offset, sequence number | `sendPacket`: prepare, build one packet after the other | RTSP server | aggregation and fragmentation at the packet limit |
| RTP client (`rtsp/client/RtpClientStream.cpp`) | bytes of the access unit so far | receive thread, parse per codec | network | loss, reordering, duplicates |
| RTSP server (`RtspServerHelper.cpp`, `RtspProgram.cpp`) | programs, sessions, callbacks of a program, `mIsStarted` | request handler per client, send threads, file reader | RTP server | several clients of one program, teardown |
| RTSP client (`RtspClientHelper.cpp`) | session, streams of the description | `init`: OPTIONS, DESCRIBE, SETUP, PLAY and their answers | RTSP server, SDP, RTP client | request sequence, answers in pieces, late or missing |
| SDP helpers (`SdpServerHelper.cpp`, `SdpClientHelper.cpp`) | streams of a session | format; parse lines and attributes per codec | RTSP server and client, `Base64`, `Utils` | both ends must mean the same by a line |
| `BitReader`/`BitWriter`, `Base64`, `Utils` | buffers | parse and format | RTSP, RTP | boundaries |
| `MD5`, `Log`, `FFBuffer`, `PacketBuffer` | - | wrappers, hash, output | all | none |
| `WGCRecorder`, widgets, `main` | Qt, Windows and graphics objects | event handlers | Player | none that a model would add to |

What makes each part correct:

* CountingQueue: capacity, order, no lost wakeup, abort releases everybody; in
  short, it is a bounded channel that can be aborted and reopened.
* message thread: every message handled once and in order, exit seen.
* Render: silence after pause, no resume lost, flush returns, nothing runs after
  the destructor.
* Player: after a handler state, threads, queues and device agree; after a seek
  everything in the queues comes from the place it went to; threads never use a codec that is
  being flushed, or a null one; the pipeline does not stop by itself; the
  destructor leaves nothing running.
* ScreenRecorder: the file holds every frame in the order of time; back-pressure
  does not lock the pipeline; stop returns and leaves nothing running.
* RTP: what arrives in one piece is delivered as it was sent, and once if it came
  once; a loss damages no more than the NAL unit it concerns.
* RTSP server: each client gets the streams it set up until its teardown.
* RTSP client: `init()` returns, with true only if the server did what it was
  asked.
* SDP: what the client knows of a stream is what the server said of it.

`PROJECT.json` lists the hazards of the code line by line, each with the
properties that would show it going wrong.

## 2. Plan

1. `BoundedChannel`, `CountingQueue`, proofs: done. All later modules use the
   channel in place of the monitor.
2. `MessageLoop`, proofs: done.
3. `Render`, then `Player` on top of it: modelled, checked; types and safety
   proved; where the player comes to rest proved up to one premise with ENABLED.
4. `ScreenRecorder`: modelled, checked; types and safety proved; where the
   recorder comes to rest proved up to the same premise.
5. `BitWriter`, `RtpPacketizer`, `RtpDepacketizer`, `RtpStream`: modelled and
   checked; what packets hold, that what arrives whole is delivered, and that nothing
   is delivered twice that did not come twice, proved. Left: a refinement of an abstract transport of access
   units.
6. `RtspServer`: modelled, checked; types and safety proved. Left: programs that
   follow the screen.
7. `ParameterSets`: the scan for start codes and the two formats, modelled and
   checked. Left: the MPEG-4 configuration, time scale conversion.
8. `Base64`, `Sdp`, `RtspClient`: modelled, checked; how `init()` ends, and what
   true means, are proved.

Modules to be proved about declare no RECURSIVE operator.

## 3. Modules

A *mutant* in a module is an operator marked `Mutant:` in its comment: a small
change of the definition after it that a programmer could have made. No formula
of the specification uses one. They are there to show that each property can
fail: with the definition replaced by its mutant, TLC finds the property violated
in the same run.

**BoundedChannel** is what a caller of `push` and `pop` may rely on: a bounded
sequence and an abort flag; an operation waits in its guard. Fairness: a call
that can go on returns.

**CountingQueue** is the code: one action per critical section. A wait with a
predicate is an action that adds the thread to `waiting` when the predicate is
false; `notify_all` empties `waiting`, and a thread that left it tests the
predicate again. Spurious wakeups are allowed at any time. It refines
`BoundedChannel` (`ImplementsChannel`) with `mQueue` for the content.

**MessageLoop** is `postMessage` against `messageHandleThread`. The queue has no
lock, so an access has a beginning and an end; when two overlap `torn` becomes
true and the accesses that follow may or may not have an effect, which is what
the code's undefined behaviour can come to. What does not depend on the race is
stated without a condition, the rest while `~torn`. The initial tokens are
`InitialCount` (5 in the code).

**Render** has the callback, the render thread and a caller that moves through
the steps of one call (`renderCall`). The SDL device is external: a callback runs
under the device lock while the device is open and not paused;
`SDL_PauseAudioDevice` needs that lock, `SDL_CloseAudioDevice` waits for a running
callback. The render thread's two looks at `mPaused`, outside and inside the
lock, are two steps. Its calls come from the Player module, whose runs check its
properties.

**Player** extends Render. `mStateMutex` is explicit (`stateLock`), so is the set
of threads asleep on `mStateCv` (`sleepers`). Each statement with an effect on
other threads is a step of its own: `handleStart` sets the state and notifies
before it creates decoders and reopens queues, as in lines 164-182. A packet or
frame is reduced to the place of the file it was read at (0, or the number of the
seek that went there). `av_seek_frame()` may fail (`SeekMayFail`), which the code does
not look at (line 324). `overlap` is no variable of the code: it remembers which calls
the user made while a seek was under way, and no step depends on it. `mMessageQueue` is atomic here; `MessageLoop` is about it
not being so. Null pointers the code dereferences lead to pc `"crashed"`, where
everything stops. Reads that fail but are tried again are stuttering.

**ScreenRecorder** has the record thread, both encoders, the mux thread, the audio
callback and a caller that does `init`, `start`, `stop` up to `MaxRounds` times. A
frame is counted, a packet is its number, its time is number times `Period` of
the medium. An encoder keeps back up to `EncoderDelay` frames.

**BitWriter** is `putBits()` and `flush()` on the reservoir of 32 bits, bits as
sequences. The reservoir counts as full before a bit is in it (BitWriter.cpp, lines
4 and 19), so its first flush writes zeros, and in a buffer of four bytes or fewer
no room is left for the bits that follow.

**RtpPacketizer** is `sendPacket()`: an action for the access unit, one for each
kind of packet `buildRtpPackage()` builds, one for the end. The two classes for
H.264 and HEVC have the same control and differ in `HeaderSize`. The loop over NAL
units is the set `Packed` of those that fit. Bytes are ranges of NAL units, sizes
are those of the code. The type in a payload header and the AU headers of AAC are
computed with `BitWriter`, where the code writes them with it. **RtpDepacketizer**
is `receiveThread()` and `processRtpPackage()`, which goes by that type; a
delivered buffer is the sequence of ranges, start codes and headers in it.
`prepareInternal()` forgets that fragments were sent and where they ended, but not how
much was left of them (`mPayloadSize`). An access unit of AAC is copied whole into a
buffer on the heap, whatever its size (RtpServerProto.cpp, line 74): one that is too
long ends the program of the server or is sent as long as it is, and a packet longer
than the client's buffer ends its receive thread.
**RtpStream** composes them over a network that loses packets, lets one overtake
another, or delivers one twice (at most `MaxDoubled`), and states the properties. `LossesKnown` lists what is lost although
every packet arrived, for the three codecs.

**RtspServer** is `clientHandler()`, `sendThread()` with its senders, and
`RtspProgram` with the reader threads, for the clients of one program. A callback
is the name of the client whose send thread set it, since that is what its
references lead to; calling it when this thread has ended, or has no queue for the
medium, ends the program. Two threads in the same unprotected object (a callback
that is called and replaced, a format context that is read twice, a vector of streams
that SETUP extends while the send thread goes through it) may or may not. DESCRIBE,
SETUP and PLAY are served at any time, after PLAY as well.
Registration is not modelled: `addProgramFile()` returns unless a program of the
same name is there (RtspServerHelper.cpp, line 483), so that the server as it
stands has none; the model begins with a program that is there.

**ParameterSets** is the code that finds NAL units and parameter sets in what a file
or an encoder gives: `BitReader`, `findStartcode`, `parseCsdAVC`, `parseCsdHEVC` and
`prepare`. The zero-byte trick on 32-bit words (Utils.cpp, line 70) is modelled by
what it tests, that one of the four bytes is zero; the address of the data decides
where the words begin. Its state is a stream that grows by one unit at a time, and
every state compares what the code reads from the two formats with what is there.

**Base64** is `encodeBase64()` and `decodeBase64()`: characters are their values,
`=` and "any other".

**Sdp** is both ends of a session description. A description is a sequence of
lines, a format line (`a=fmtp`) a sequence of words, a word a sequence of
parameters joined by `;`: the client finds a parameter by how a word begins, so
that spaces, separators and order decide what it finds. The server's side is
`addStream()` and `toString()`, the client's `parseSdp()`, `init()`, `parseRtpmap()`
and `parseFmtp()` of four classes. `OtherDescription` is external: another server
that writes a space behind each `;`, in either order. Two values mark a parameter
set the client made up: `Garbage` for a buffer that was not written because decoding
failed, `Overrun` for what was found behind the end of a buffer.

**RtspClient** is `RtspClientHelper::init()`, up to `MaxInits` times: connect, then
a request and one `recv()` for each message. `wire` holds the lines of answers on
their way; a `recv()` returns some of them, and what it leaves is what the next one
reads. Status code and length of the description have no initial value in the
code, so a piece of an answer without them goes either way (`Codes`, `Texts`). The
server is the repository's, which answers as `clientHandler()` does, or another;
either may answer late, with an error, or not at all. `RtspServer` models what
the server does for clients that got past this.

**PlayerProperties**, **RecorderProperties** state what these should do. The modules
that end in **Proofs** prove it, for Player in two parts, `PlayerProofs` and
`PlayerPlaybackProofs` (section 6). **MC** modules add the values the configurations
need; the other parameters are in the `.cfg` files.

## 4. Runs

Deadlock is checked in the `queue` run. All other configurations switch it off:
there the program really may stop (the user calls nothing more, the file ends, the
player is destroyed, everything is sent). The two `RestsKnown`, of the player and of
the recorder, say where: they list every state in which no thread can move.

| run | shows | bounds |
|---|---|---|
| `queue` | no lost wakeup, refinement of the channel with progress, which includes that an abort releases every sleeper | 3 threads, 2 values, capacity 2: two sleepers on a side, or one on each |
| `message_loop` | order, tokens, exit | 2 posters, 2 messages, 3 posts, 2 initial tokens: fewer, as many and more posts than tokens |
| `player_seek` | two seeks, at any moment and overlapping: threads, codecs, fresh data; where a seek ends, the second as the first | two starts, two seeks, packets of video, `av_seek_frame()` may fail |
| `player_stop` | silence in pause, no resume lost; agreement after handlers, where the player stops, destructor | two starts, one pause, one seek; file ends, device and file may fail; the clock only from frames |
| `player_live` | handlers return, a seek ends | one start, pause and seek, `av_seek_frame()` may fail |
| `recorder` | file complete and sorted, back-pressure, crashes, stop in two rounds, where it rests | pictures ahead of the audio frames, the audio encoder keeps one back, queues of 1, init and encoders may fail |
| `recorder_live` | stop returns | one round, the output may fail |
| `rtp` | what arrives is delivered, twice only if doubled; nothing unexplained is lost; what a packet that is too long ends | 2 access units out of ten lists of sizes at the limits, 2 packets on their way, one of them doubled, three codecs |
| `rtsp_server` | what ends the server; no packet sent twice or to two, who is alone gets the whole file; which sessions stay for ever | 2 clients that may ask anything at any time, one of which may leave, 3 packets, queues of 1 |
| `rtsp_client` | how init() ends; true means served; what the client knows of the streams; init() returns | ten programs: none, each kind of stream, pairs; three servers; two inits; answers cut at any line, the own server's also at its buffer |
| `parameter_sets` | both formats of a stream read the same, nothing missed | 2 units of 1 to 5 bytes of zeros and ones, every alignment, both codecs |
| `rtp_packets` | violated: the limit of a packet | the same, H.264 |

Queues of one are full or empty all the time, so every wait happens; in the code
they hold ten. In the runs of the player packets come of one medium, video in `player_seek`, audio in
the others. That halves the data, not the threads: the file has both streams, both
decoders run, one has nothing to decode. What a full queue of one medium means for the
other is in the theorems (section 6), which hold for files with packets of both. Two seeks are enough for
`player_seek`: the second finds the player where one seek can bring it. That a seek ends
is checked with one only (`player_live`); that the player never rests in a later one is part
of `PlayerRests` (section 6), for any number. The runs have up to 6.5 million states and take up to
three minutes each. Two access units are enough for `rtp`: what the packetizer has from the first when
the second comes, and the client in `mData`, the second shows.
Two units are enough for `parameter_sets`: the scan knows nothing of what it has
passed, and two of one type show which is kept; the longest stream is eighteen
bytes, so the scan goes through all its phases at all four alignments. Two `init()`
are enough for `rtsp_client`: the second begins with whatever the first left. Its
parameter sets leave none, one and two bytes to the last group of base64, and the
own server's buffer may end in the middle of the description of one stream (nine
lines), behind that of one (twelve) or never.

What the runs say about the code, in words:

* A player that is paused while the audio callback waits for a frame can hang:
  `SDL_PauseAudioDevice` (Render.cpp:121) waits for the callback, the callback for
  a frame, the decoder for the state lock that `handlePause` holds
  (Player.cpp:187). It is the only place where a handler stops (`HandlerRests` in
  `RestsKnown`).
* The destructor sets the exit flags without aborting the queues, so it can wait
  for threads blocked on them; `DestructorRests` lists all cases.
* A second seek that is handled before the extract thread has left its wait for the
  end of the first (line 329) leaves the player in SEEKING, its request unread; so does a
  seek after the end of the file (`SeekRests`). Without them the pipeline never comes to rest
  before the end of the file, unless the audio device could once not be opened
  (`PlaybackRests`): then nothing takes audio frames out, or a later `start()` opens
  the device but leaves `Render` paused by a `pause()` in between (Render.cpp 60-96),
  and the render thread sleeps.
* Nobody looks whether `av_seek_frame()` failed (line 324): reading goes on where it was,
  as after a seek that arrived. `ResumesWhereAsked` promises the place asked for only
  when it did not fail, and nothing when another seek, or a start, is called before the
  seek has ended: its request may be consumed by the first, and a start ends it.
* After a seek one old picture is still shown: the one the render thread holds while it
  waits for its time (Render.cpp 279-286), which `flush()` does not reach. Everything in
  the queues and in the decoder threads' hands is fresh (`OnlyFreshData`).
* A seek before the file is open, or in a file without both media, dereferences a
  null pointer (`CrashesKnown`).
* A callback that finds its queue aborted sets the audio clock from a packet it
  does not have; this takes a seek or the destructor (`ClockFromFrames`).
* `ScreenRecorder::stop` can hang in two places (`CloseHangs`, `JoinHangs`), and a recorder
  that was stopped writes nothing when it is started again: `stop()` aborts the four
  queues (lines 187-190), `start()` reopens none (lemma `RecordsOnce`). No document,
  comment or test of the repository says that it does, so this is no finding.
* Of an access unit with two NAL units larger than a packet the second never
  gets across: `mIsFirstPack` stays cleared and the last fragment of the first is
  sent again. A NAL unit of 1458 to 1460 bytes ends the access unit: it fits in no
  aggregate and is not big. A small NAL unit behind a last fragment spoils the
  packet (`LossesKnown` lists these cases and says that there are no others).
* A packet that comes twice is taken twice, as the client reads no sequence number
  (RtpClientStream.cpp 71-151): what begins in it is delivered twice, a fragment is
  joined twice (`TwiceOnlyIfDoubled`, `LossesKnown`).
* An access unit of AAC of more than 1456 bytes overruns the server's buffer
  (RtpServerProto.cpp:74); if it is sent and longer than the client's 2048 bytes,
  `recvfrom()` fails and the receive thread ends for good (`LossesKnown`).
* A client alone can end the server: a SETUP after PLAY extends the streams the send
  thread goes through (RtspServerHelper.cpp 220 and 401), a second PLAY destroys a thread
  that was not joined (line 241). `CrashesKnown` names both and says what else can go
  wrong, and with whom.
* A second client that plays the same program takes the callbacks of the first,
  whose handler and threads stay for ever; a file so short that its reader ends
  before `start()` sets `mIsStarted` is never read again (`SessionsEnd`).
* A session without an audio stream ends the program at the end of the file, where
  the null for audio is pushed to a queue that does not exist (`CrashesKnown`).
* With headers of zeros HEVC gets nothing but single NAL units across, and AAC
  nothing at all (`LossesKnown`).
* The client ends the program at the first stream it sets up: SETUP looks it up in
  a list nobody fills (RtspClientHelper.cpp, line 56). `init()` returns only if it
  got no description or an empty one, and true only from another server with such a
  description, as the own server does not answer a PLAY without a session
  (`InitEndsKnown`).
* An answer is taken for complete whatever `recv()` returned of it. As long as it
  is, true means that each request was served (`TrueMeansServed`); with one in
  pieces, status and description are whatever the stack held. A header line the
  client does not know makes it give up.
* Of an H.264 stream the client never gets the parameter sets: it looks for `;`
  between them where `,` stands. It splits a format line at spaces, of which the
  own server writes none, so that of its streams it gets no parameter set and no
  size length at all. The clock of AAC is announced as 0, since the rate goes into
  a variable of 8 bits that is not the member (Utils.cpp, line 149), and a stream
  of an unknown codec is announced as AAC, since its empty name is a part of every
  name (`DescriptionsAgree`).

One of these contradicts what the repository says of itself and is listed as a
finding: `rtp_packets` shows a packet of more than the "max payload size" of
RtpServerProto.h, line 30.

## 5. Fairness

Weak fairness per thread: the operating system runs a thread that can run. Strong
fairness is used where a thread repeatedly gets a chance that another may take
away: the device lock in `SDL_PauseAudioDevice` (between two callbacks the device
waits for the hardware), the state lock, and the end of a decoder's work on one
packet. Calls of the user, failures, spurious wakeups, the end of the file and
callbacks of the device are never assumed to happen. `rtsp_client` has weak fairness
of the client's thread, whose `recv()` fails after the second `SO_RCVTIMEO` gives it;
no server is assumed to answer. The RTSP server is checked without fairness: `SessionsEnd` says that a session
which has not ended has a thread that can move (ENABLED) unless it was overtaken. As every
step of its threads uses up a packet, a place of the file or a place of a thread, and none
goes back, moving comes to an end.

## 6. Proofs

`CountingQueueProofs`: for any threads, values and capacity,
`Spec => []TypeOK`, `Spec => []NoLostWakeup` and the safety part of the
refinement (`ImplementsChannelSafety`). `NoLostWakeup` is inductive together with
`TypeOK`: a step either leaves both predicates as they are or empties `waiting`,
and the only step that adds to `waiting` tests the predicate first. Assumptions:
`QueueAssumption` (a positive capacity, a `NoValue` that is not a value).

`MessageLoopProofs`: types with `PopFindsMessage`; `TokensCoverMessages`;
`NoMessageStranded`; `HandledInOrder`. The inductive invariant is the conjunction of
the type invariant, the coverage of messages by tokens (in the semaphore, in the
thread's hand, about to be released), the absence of tokens while the thread
sleeps, and the order of messages. `PopFindsMessage` needs none of the `~torn`
conditions, as only the message thread removes messages.

`PlayerProofs`, `PlayerPlaybackProofs`: every safety invariant and action property of
the runs of the player, for any file, capacities and number of calls; `RestsKnown`
has one premise (see below). The invariant has ten parts, in the order in which they are used:

* `TypeInv`: the types, and that a decoder thread has a packet in hand exactly while
  it decodes or pushes.
* `ControlInv`: which `mState` the message thread has set where it is, and in which
  call of Render it can be. `ThreadInv`: the destructor goes on only past threads
  that have ended. `DecoderInv`: at each place of the handlers, which decoder threads
  exist and which queues are aborted. `ContextInv`: packets under way have an open
  context. From these: `ObjectsExistWhenUsed`, `CodecsFlushedAlone`, `CrashesKnown`.
* `DeviceInv`, `PauseInv`: when the device is open, and that on the way through
  `pause()` it is silent before the clock is cleared. `FrameInv`, `AgreeInv`: the
  frame queues and the device at each state of the player. `ClockInv`: audio queues
  are aborted only once a seek was called or the destructor. From these:
  `PauseIsSilent` (which is part of the induction), `NoLostResume`, `StateAgrees`,
  `ClockFromFrames`.

`OnlyFreshData` needs that an aborted queue is empty (`AbortedEmpty`), so that a seek
has emptied everything once its handler is past the joins (`SeekEmpties`), and that
this lasts until the extract thread has moved (`FreshInv`). `ResumesWhereAsked` needs
that a seek that overlaps no other is on its way (`SeekInv` below), where its request is
(`RequestInv`) and whose start waits: one posted after the answer (`StartInv`);
`NothingDroppedWhilePlaying` only `ThreadInv` and `DecoderInv`. None of these uses the
exclusion that `mStateMutex` gives: what keeps the player's threads apart are joins and
aborted queues. Assumptions: `RenderAssumption`, `PlayerAssumption` (a file of which
no packets come is at its end).

Where the player comes to rest. `Waiting` says for each thread, the callback, the
device and the user where it can be blocked and on what. It takes the place of
`Stopped`, which says with ENABLED that nothing can move. `PlayerRests` proves
`[](Waiting => AtRest)`, and from it `RestsKnown` under the premise
`[](Stopped => Waiting)`. That premise is the first half of `RestsKnown`, which only
TLC checks, as the proof system cannot reason about ENABLED. Its second half, that
threads which all wait do so in the known places only, is what is proved, by
`RestInv` on top of the ten parts above:

* `LockInv`: which handler holds `mStateMutex`, so that a decoder waiting for it has
  somebody to wait for. `SleepInv`: who sleeps on the state and in which state.
  `ExitInv`, `LeaveInv`: a decoder thread is told to leave, and leaves, in a seek and
  in the destructor only, the message thread in the destructor only.
* `QuietInv`, `RunInv`: what the device and its callback do in each state.
  `RenderThreadInv`: when the render thread is there, when it sleeps, and when it was
  told to end.
* `SeekInv`: in SEEKING, a seek that was called while no other was under way is on its way: with the user, in the
  message queue, at the extract thread or in the start that ends it.

With these, a player that plays has in a circle of waiting threads one that finds a
packet, a frame or a free place (`PlaybackRestsWhy`); `SeekRestsWhy`,
`HandlerRestsWhy` and `DestructorRestsWhy` are the other three cases.

`RecorderProofs`: every safety invariant of the recorder's run, and
that a second round writes nothing (`RecordsOnce`), for any capacities, periods, encoder delays and rounds.
`StopInv` is about `start()` and `stop()`: the types, threads are created and joined in
their order (`CallerInv`), queues are aborted before the joins and never opened again
(`AbortInv`), in the first round the encoders are told to leave before (`ToldInv`), and
the muxer has packets in hand only in the first round (`MuxInv`). `FileInv` is about what goes to the file. `PacketInv` follows the packets
of a medium from the file back through the muxer's hand, the queue and the encoder
thread to the encoder: their numbers have no gap (`Consecutive`), as long as the queue
is not aborted. With `FrameInv`, which does the same for frames, this is
`NothingLostWhileRecording`; with `OrderInv`, that no packet still to come is earlier
than the last one written, it is `WrittenInOrder`. `ContextInv` and `LeaveInv` say who
has freed a context and why, which gives `NoCrashWhileRecording`. Assumption:
`RecorderAssumption`. `RecorderRests` is the same as `PlayerRests`, with the same
premise: `RestInv` says that nobody captures more than there is, that threads `start()`
went past exist and those `stop()` told to leave know it, and that the device runs
once it was started. So when everyone waits the recorder is idle, lacks input, had
failed or lost a thread, or `stop()` hangs in one of two places.

`RtspServerProofs`: the invariants of the run `rtsp_server` but for `SessionsEnd`, for any clients, files
and size of the queues, whatever the clients ask and when. `Takers` are the clients whose
send thread has been through the streams of its session: from then on a client's streams
are what its senders are for (`PlayersInv`), and no request changes anything that counts
(`RequestGoes`), though DESCRIBE, SETUP and PLAY are still served. The argument follows
the *line* of a client, what was sent to it and what is queued for it, one after the
other: only a reader extends it, and a sender leaves it as it is. While there is one
reader, lines are sorted and end before what the reader has in hand (`LineInv`), no packet
is in two (`ApartInv`), and who is alone has in it all that was read (`WholeInv`):
`PacketsSentOnce`. `CrashesExplained` proves `CrashesKnown`. That a callback does not
outlive its queue needs that a sender ends only when the reader is past the end of its
medium (part of `LineInv`), so that the reader cannot call it any more. `AloneInv` says
whose the callbacks of a single player are. Assumption: `RtspAssumption`.

`RtspClientProofs`: for any programs, servers and cuts, how `init()` ends
(`InitEndsKnown`) and what true means. It returns only without a stream
(`ReturnsWithoutStreams`, the first part of `InitEndsKnown`). The invariant says that streams are there only between the description and the loop
that sets them up, or when the program has ended, and that there is no result while
`init()` is at work. `TrueMeansServed` needs that requests and answers alternate as
long as no answer is cut (`InStep`), and that the client reads the status from the
first line of a whole answer, whatever its description holds (`AnswersForm`,
`CodeOfAnswer`). With it the own server is never the one that made `init()` say true
(`TrueFromOthers`, the second part of `InitEndsKnown`). The other two parts relate
the end of `init()` to the program it asked for. `DescriptionForm` says which lines the
description of a program without streams has, and which open a stream;
`StreamsFound` that whoever reads a whole description with a stream has one, since
no line takes a stream away again, and `EndsInv` keeps this from the answer to the
end of `init()`. `ParseSdp` is written with the sets of lines of a kind and not as a
fold over the lines, so that this could be proved for every description. Assumption: `ClientAssumption`.

`RtpStreamProofs`: for any payload limit, access units and number of packets on their
way and doubled. `UnitInv` says that the packetizer is at a NAL unit of the last access unit sent,
`OffsetInv` that, once there was a fragment, `mOffset` and `mPayloadSize` together end
where a NAL unit of that access unit ends, which `prepareInternal()` forgets in time.
With what is packed being among the NAL units that are left (`PackedBound`) every
packet holds parts of NAL units that were sent, and one marked as whole holds whole
ones (`WireInv`): `PiecesInside`. `DeliveredInv` says of a NAL unit that arrived in one
piece that some buffer has it between two start codes. `WholeNalusSurvive` follows,
since the client closes what was in `mData` with the start code in front of the next
NAL unit, and never changes a buffer it has delivered. Assumption: `RtpAssumption`.

`TwiceOnlyIfDoubled` (`DeliveredAtMostOnce`) needs the places of a NAL unit counted, though a last fragment may be
sent again. What is counted is where it *begins*: a piece that starts at its first byte
or, in a first fragment, behind its header (`Begins`). `ApartInv` says that a NAL
unit whose first packet was not doubled (`Twice` are the others) begins in one place at
most: ahead at the server (`Ahead`), in one packet under
way (`Claims`), in `mData`, or in one delivered buffer (`Opened`). `OnceInv` says that it
begins only once in that packet or buffer. A fragment that is not the first starts
behind the header (`mOffset[2] > HeaderSize`), so sending it again begins nothing. What
the client joins to `mData` begins what the packet does and no more (`Joined`), since
`mData` ends with a piece of a NAL unit and never with a start code. The packets may
overtake each other or get lost, as each has its NAL units to itself, and the copy of a
packet begins what the packet does, which is in `Twice` then.

TLC finds no violation of any of these invariants under the constants of the runs.
Most had to be strengthened on the way to be inductive; in `RequestInv`, for example,
by that a pending request means that a seek was called.

Only model-checked: liveness, `SessionsEnd`, and of the two `RestsKnown` the half with ENABLED, that
nothing can move only where everyone waits (`Stopped => Waiting`); all are beyond the
proof system, as is the progress part of `ImplementsChannel`. `DescriptionsAgree`,
`FormatsAgree` of `ParameterSets`, `BitWriter` and `Base64` depend on what a fold gives for
every description or stream of bytes: an induction over data, which the proof
system cannot do either. `LossesKnown` needs what `BitWriter` writes and sums over NAL
units, folds again.

## 7. Not modelled

See `components` in `PROJECT.json`. In the modelled parts: pixels, samples, clock
arithmetic of the render thread, sequence numbers and time stamps of RTP, LATM
payloads (which no server of the repository sends), the MPEG-4 audio
configuration, sockets, session id and CSeq of RTSP, FFmpeg's internals (a decoder
that could not be opened, which Player.cpp does not look at in lines 279-282 and 288-291,
decodes all the same), durations,
and the stream pointers the decode threads share with the extract thread.

Whole components: the widgets and `WGCRecorder` are calls of Qt and Windows with
nothing to decide between them. `VideoD3D11Widget` holds one mutex through
`render()` and `paintEvent()`, under which it waits for nothing else;
`VideoGLWidget` is used by no form; what `VideoPlayerWidget` does to a player is
what the user of `Player` may do. `MD5` is the textbook algorithm and names a
session. `Log`, `FFBuffer` and `PacketBuffer` have no state of their own.
