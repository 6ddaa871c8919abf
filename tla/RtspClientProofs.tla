-------------------------- MODULE RtspClientProofs --------------------------
(***************************************************************************)
(* Proofs about RtspClient, for any programs, servers and buffers: init()  *)
(* never returns with a stream; as long as each answer is read in one      *)
(* piece it says true only if the server served each request, which the    *)
(* own server never does, and had no stream; and the program ends in it    *)
(* only at a description that has one.                                     *)
(***************************************************************************)
EXTENDS RtspClient, SequenceTheorems, FiniteSetTheorems, TLAPS

\* Streams are there only between the description and the loop that sets them
\* up, or when the program has ended.
StreamsInLoopOnly == pc \notin {"streams", "crashed"} => sdpStreams = <<>>

\* Inductive: a result is there only while init() is not at work.
IInv == /\ StreamsInLoopOnly
        /\ result # "none" => pc = "idle"

\* Reading the answer keeps it: streams are added only on the way to the loop.
LEMMA AcceptedKeeps ==
    ASSUME NEW header, NEW body, IInv, pc = "recv", Accepted(header, body)
    PROVE  IInv'
<1>1. sdpStreams = <<>> /\ result = "none"
    BY DEF IInv, StreamsInLoopOnly
<1>2. CASE msg = "OPTIONS" /\ Go("DESCRIBE") /\ UNCHANGED <<sdpStreams, result>>
    BY <1>1, <1>2 DEF Go, IInv, StreamsInLoopOnly
<1>3. CASE pc' = "streams" /\ UNCHANGED <<sdpStreams, result>>
    BY <1>1, <1>3 DEF IInv, StreamsInLoopOnly
<1>4. CASE \E text \in Texts(header, body) : Described(text)
    <2>1. PICK text \in Texts(header, body) : Described(text)
        BY <1>4
    <2>2. CASE Return("false") /\ UNCHANGED sdpStreams
        BY <1>1, <2>2 DEF Return, IInv, StreamsInLoopOnly
    <2>3. CASE pc' = "crashed" /\ UNCHANGED <<sdpStreams, result>>
        BY <1>1, <2>3 DEF IInv, StreamsInLoopOnly
    <2>4. CASE pc' = "streams" /\ UNCHANGED result
        BY <1>1, <2>4 DEF IInv, StreamsInLoopOnly
    <2>5. QED BY <2>1, <2>2, <2>3, <2>4 DEF Described
<1>5. CASE msg = "PLAY" /\ Return("true") /\ UNCHANGED <<msg, sdpStreams>>
    BY <1>1, <1>5 DEF Return, IInv, StreamsInLoopOnly
<1>6. QED BY <1>2, <1>3, <1>4, <1>5 DEF Accepted

\* Every step keeps the invariant.
LEMMA NextKeeps ==
    ASSUME IInv, [Next]_vars
    PROVE  IInv'
<1>1. CASE InitFails
    BY <1>1 DEF InitFails, Return, IInv, StreamsInLoopOnly
<1>2. CASE Connect
    BY <1>2 DEF Connect, Go, IInv, StreamsInLoopOnly
<1>3. CASE Send
    BY <1>3 DEF Send, Return, IInv, StreamsInLoopOnly
<1>4. CASE RecvFails
    BY <1>4 DEF RecvFails, Return, IInv, StreamsInLoopOnly
<1>5. CASE Setup
    <2>1. CASE sdpStreams = <<>> /\ Go("PLAY")
        BY <1>5, <2>1 DEF Setup, Go, IInv, StreamsInLoopOnly
    <2>2. CASE pc' = "crashed"
        BY <1>5, <2>2 DEF Setup, IInv, StreamsInLoopOnly
    <2>3. QED BY <1>5, <2>1, <2>2 DEF Setup
<1>6. CASE \E n \in 1 .. Len(wire) : Receive(n)
    <2>1. PICK n \in 1 .. Len(wire) : Receive(n)
        BY <1>6
    <2>2. DEFINE lines == SubSeq(wire, 1, n)
    <2>3. CASE Accepted(HeaderLines(lines), BodyLines(lines))
        BY <2>1, <2>3, AcceptedKeeps DEF Receive
    <2>4. CASE Return("false") /\ UNCHANGED <<msg, sdpStreams>>
        BY <2>1, <2>4 DEF Receive, Return, IInv, StreamsInLoopOnly
    <2>5. QED BY <2>1, <2>3, <2>4 DEF Receive
<1>7. CASE OwnAnswer \/ OtherAnswer
    BY <1>7 DEF OwnAnswer, OtherAnswer, IInv, StreamsInLoopOnly
<1>8. CASE UNCHANGED vars
    BY <1>8 DEF vars, IInv, StreamsInLoopOnly
<1>9. QED BY <1>1, <1>2, <1>3, <1>4, <1>5, <1>6, <1>7, <1>8 DEF Next, Client

\* init() returns without a stream, true or false (RtspClientHelper.cpp 294-312,
\* 352-356): the program has ended wherever a description had one.
THEOREM InitReturnsWithoutStreams == Spec => []ReturnsWithoutStreams
<1>1. Init => IInv
    BY DEF Init, IInv, StreamsInLoopOnly
<1>2. IInv /\ [Next]_vars => IInv'
    BY NextKeeps
<1>3. IInv => ReturnsWithoutStreams
    BY DEF IInv, StreamsInLoopOnly, ReturnsWithoutStreams
<1>4. QED BY <1>1, <1>2, <1>3, PTL DEF Spec
-----------------------------------------------------------------------------
(* What true means.  As long as no answer was cut, each recv() reads one     *)
(* answer and all of it.                                                     *)

\* Which lines a part of an answer may have in front of the blank one, the status
\* line left out.
Quiet == {"header", "unknown", "type", "length"}

\* s is a sequence of lines of a header without a status.
QuietLines(s) == s \in Seq(Range(s)) /\ \A i \in DOMAIN s : s[i].kind \in Quiet

\* s begins with the status line and goes on with such lines.
Headed(s, code) == /\ s \in Seq(Range(s)) /\ s # <<>>
                   /\ s[1] = [kind |-> "status", code |-> code]
                   /\ \A i \in 2 .. Len(s) : s[i].kind \in Quiet

\* More of them may follow.
LEMMA HeadedGrows ==
    ASSUME NEW s, NEW t, NEW code, Headed(s, code), QuietLines(t)
    PROVE  Headed(s \o t, code)
<1>1. PICK S : S = Range(s) \cup Range(t)
    OBVIOUS
<1>2. s \in Seq(S) /\ t \in Seq(S)
    BY <1>1 DEF Headed, QuietLines, Range
<1>3. PICK r : r = s \o t
    OBVIOUS
<1>4. /\ r \in Seq(S) /\ Len(r) = Len(s) + Len(t)
      /\ \A i \in 1 .. Len(s) : r[i] = s[i]
      /\ \A i \in Len(s) + 1 .. Len(r) : r[i] = t[i - Len(s)]
    BY <1>2, <1>3
<1>5. Len(s) \in Nat /\ Len(s) # 0 /\ Len(t) \in Nat /\ DOMAIN t = 1 .. Len(t)
    BY <1>2 DEF Headed
<1>6. r # <<>> /\ r[1] = [kind |-> "status", code |-> code]
    BY <1>4, <1>5 DEF Headed
<1>7. \A i \in 2 .. Len(r) : r[i].kind \in Quiet
    <2> SUFFICES ASSUME NEW i \in 2 .. Len(r) PROVE r[i].kind \in Quiet
        OBVIOUS
    <2>1. CASE i <= Len(s)
        BY <1>4, <1>5, <2>1 DEF Headed
    <2>2. CASE i > Len(s)
        <3>1. i - Len(s) \in DOMAIN t /\ r[i] = t[i - Len(s)]
            BY <1>4, <1>5, <2>2
        <3> QED BY <3>1 DEF QuietLines
    <2> QED BY <1>4, <1>5, <2>1, <2>2
<1> QED BY <1>3, <1>4, <1>6, <1>7, SeqOfRange DEF Headed

\* An answer begins with its status line; no other is in front of a blank line.
AnswerForm(s, code) ==
    /\ s # <<>> /\ s \in Seq(Range(s))
    /\ s[1] = [kind |-> "status", code |-> code]
    /\ \E p \in DOMAIN s : /\ s[p].kind = "blank"
                           /\ \A i \in 2 .. p - 1 : s[i].kind \in Quiet

\* The code the client reads from an answer is the one in its status line.
LEMMA CodeOfAnswer ==
    ASSUME NEW s, NEW code, AnswerForm(s, code)
    PROVE  Codes(HeaderLines(s)) = {code}
<1>1. PICK p \in DOMAIN s : s[p].kind = "blank" /\ \A i \in 2 .. p - 1 : s[i].kind \in Quiet
    BY DEF AnswerForm
<1>2. s \in Seq(Range(s)) /\ DOMAIN s = 1 .. Len(s) /\ Len(s) \in Nat
    BY DEF AnswerForm
<1>0. s[1].kind = "status" /\ s[1].code = code /\ 1 \in DOMAIN s
    <2>1. s[1] = [kind |-> "status", code |-> code]
        BY DEF AnswerForm
    <2>2. s # <<>> /\ Len(s) # 0
        BY <1>2 DEF AnswerForm
    <2> QED BY <1>2, <2>1, <2>2
<1>3. PICK b : b = Min(Having(s, "blank"))
    OBVIOUS
<1>4. b = p
    <2>1. p \in Having(s, "blank")
        BY <1>1 DEF Having
    <2>2. \A i \in Having(s, "blank") : i >= p
        BY <1>0, <1>1, <1>2 DEF Having, Quiet
    <2> QED BY <1>2, <1>3, <2>1, <2>2 DEF Min, Having
<1>5. b > 1
    BY <1>0, <1>1, <1>2, <1>4
<1>6. PICK h : h = SubSeq(s, 1, b - 1)
    OBVIOUS
<1>7. HeaderLines(s) = h
    BY <1>1, <1>2, <1>3, <1>6 DEF HeaderLines, Having
<1>8. DOMAIN h = 1 .. b - 1 /\ \A i \in 1 .. b - 1 : h[i] = s[i]
    BY <1>2, <1>4, <1>5, <1>6
<1>9. Having(h, "status") = {1}
    <2>1. \A i \in 2 .. b - 1 : h[i].kind \in Quiet
        BY <1>1, <1>2, <1>4, <1>8
    <2>2. h[1].kind = "status"
        BY <1>0, <1>2, <1>4, <1>5, <1>8
    <2> QED BY <1>2, <1>4, <1>5, <1>8, <2>1, <2>2 DEF Having, Quiet
<1>10. Max({1}) = 1
    BY DEF Max
<1>11. h[1].code = code
    BY <1>0, <1>2, <1>4, <1>5, <1>8
<1> QED BY <1>7, <1>9, <1>10, <1>11 DEF Codes

\* The description's lines are a sequence.
LEMMA DescriptionType ==
    ASSUME program \in Programs
    PROVE  Description \in Seq(Range(Description))
<1>1. Len(program) \in Nat /\ DOMAIN program = 1 .. Len(program)
    BY ClientAssumption
<1>2. ASSUME NEW lines, DOMAIN lines = 1 .. Len(program)
      PROVE  \E S : InTurn(lines) \in Seq(S)
    <2>1. Len(lines) = Len(program)
        BY <1>1, <1>2
    <2>2. PICK n \in Nat : n = 4 * Len(lines)
        BY <1>1, <2>1
    <2>3. InTurn(lines) = [k \in 1 .. n |-> lines[1 + (k - 1) \div 4][1 + ((k - 1) % 4)]]
        BY <2>2 DEF InTurn
    <2>4. PICK f : f = InTurn(lines)
        OBVIOUS
    <2>5. DOMAIN f = 1 .. n /\ f = [k \in 1 .. n |-> f[k]]
        BY <2>3, <2>4
    <2>6. f \in [1 .. n -> Range(f)]
        BY <2>5 DEF Range
    <2>7. f \in Seq(Range(f))
        BY <2>6
    <2> QED BY <2>4, <2>7
<1>3. \E S : SessionLines \in Seq(S)
    <2>1. SessionLines \in Seq({[kind |-> "session"]})
        BY DEF SessionLines
    <2> QED BY <2>1
<1>4. ASSUME NEW s, NEW t, \E S : s \in Seq(S), \E S : t \in Seq(S)
      PROVE  \E S : s \o t \in Seq(S)
    <2>1. PICK S, T : s \in Seq(S) /\ t \in Seq(T)
        BY <1>4
    <2>2. s \in Seq(S \cup T) /\ t \in Seq(S \cup T)
        BY <2>1
    <2>3. s \o t \in Seq(S \cup T)
        BY <2>2
    <2> QED BY <2>3
<1>5. \E S : <<[kind |-> "blank"]>> \in Seq(S)
    <2>1. <<[kind |-> "blank"]>> \in Seq({[kind |-> "blank"]})
        OBVIOUS
    <2> QED BY <2>1
<1>6. \E S : OwnDescription(program) \in Seq(S)
    BY <1>1, <1>2, <1>3, <1>4, <1>5 DEF OwnDescription
<1>7. \E S : OtherDescription(program, style = "reversed") \in Seq(S)
    BY <1>1, <1>2, <1>3, <1>4 DEF OtherDescription
<1> QED BY <1>6, <1>7, SeqOfRange DEF Description

\* Every answer has that form.
LEMMA AnswersForm ==
    ASSUME NEW code, NEW answer \in Answers(code), program \in Programs
    PROVE  AnswerForm(answer, code)
<1>1. PICK h, e, body :
          /\ h = Status(code) \/ h = Append(Status(code), Unknown)
          /\ e = <<>> \/ e = <<[kind |-> "type"], [kind |-> "length", lines |-> Len(body)]>>
          /\ body = Description \/ body = <<>>
          /\ answer = h \o e \o <<Blank>> \o body
    BY Zenon DEF Answers
<1>2. Headed(h, code)
    <2>1. PICK a : a = [kind |-> "status", code |-> code]
        OBVIOUS
    <2>2. PICK b, c : b = [kind |-> "header"] /\ c = [kind |-> "unknown"]
        OBVIOUS
    <2>3. Headed(<<a, b>>, code)
        <3>1. PICK s : s = <<a, b>>
            OBVIOUS
        <3>2. s \in Seq({a, b}) /\ Len(s) = 2 /\ s[1] = a /\ s[2] = b
            BY <3>1
        <3>3. s \in Seq(Range(s))
            BY <3>2, SeqOfRange
        <3> QED BY <2>1, <2>2, <3>1, <3>2, <3>3 DEF Headed, Quiet
    <2>4. Headed(Append(<<a, b>>, c), code)
        <3>1. PICK s : s = Append(<<a, b>>, c)
            OBVIOUS
        <3>2. s \in Seq({a, b, c}) /\ Len(s) = 3 /\ s[1] = a /\ s[2] = b /\ s[3] = c
            BY <3>1
        <3>3. s \in Seq(Range(s))
            BY <3>2, SeqOfRange
        <3> QED BY <2>1, <2>2, <3>1, <3>2, <3>3 DEF Headed, Quiet
    <2> QED BY <1>1, <2>1, <2>2, <2>3, <2>4 DEF Status, Unknown
<1>3. QuietLines(e)
    <2>1. CASE e = <<>>
        BY <2>1 DEF QuietLines
    <2>2. CASE e = <<[kind |-> "type"], [kind |-> "length", lines |-> Len(body)]>>
        <3>1. PICK a, b : a = [kind |-> "type"] /\ b = [kind |-> "length", lines |-> Len(body)]
            OBVIOUS
        <3>2. e \in Seq({a, b}) /\ Len(e) = 2 /\ e[1] = a /\ e[2] = b
            BY <2>2, <3>1
        <3>3. e \in Seq(Range(e))
            BY <3>2, SeqOfRange
        <3> QED BY <3>1, <3>2, <3>3 DEF QuietLines, Quiet
    <2> QED BY <1>1, <2>1, <2>2
<1>4. PICK x : x = h \o e
    OBVIOUS
<1>5. Headed(x, code)
    BY <1>2, <1>3, <1>4, HeadedGrows
<1>6. body \in Seq(Range(body))
    <2>1. <<>> \in Seq(Range(<<>>))
        OBVIOUS
    <2> QED BY <1>1, <2>1, DescriptionType, Zenon
<1>7. PICK S : S = Range(x) \cup {Blank} \cup Range(body)
    OBVIOUS
<1>8. x \in Seq(S) /\ <<Blank>> \in Seq(S) /\ body \in Seq(S)
    BY <1>5, <1>6, <1>7 DEF Headed
<1>9. PICK p \in Nat : p = Len(x) + 1 /\ p > 1
    BY <1>5, <1>8 DEF Headed
<1>10. /\ answer \in Seq(S) /\ Len(answer) = p + Len(body)
       /\ answer[p] = Blank /\ \A i \in 1 .. p - 1 : answer[i] = x[i]
    <2>1. PICK y : y = x \o <<Blank>>
        OBVIOUS
    <2>2. y \in Seq(S) /\ Len(y) = p /\ y[p] = Blank /\ \A i \in 1 .. p - 1 : y[i] = x[i]
        BY <1>8, <1>9, <2>1
    <2>3. answer = y \o body
        BY <1>1, <1>4, <2>1
    <2>4. answer \in Seq(S) /\ Len(answer) = Len(y) + Len(body)
          /\ \A i \in 1 .. Len(y) : answer[i] = y[i]
        <3>1. PICK r, t : t = body /\ r = y \o t
            OBVIOUS
        <3>2. y \in Seq(S) /\ t \in Seq(S)
            BY <1>8, <2>2, <3>1
        <3>3. r \in Seq(S) /\ Len(r) = Len(y) + Len(t) /\ \A i \in 1 .. Len(y) : r[i] = y[i]
            BY <3>1, <3>2
        <3> QED BY <2>3, <3>1, <3>3
    <2> QED BY <1>9, <2>2, <2>4
<1>11. answer # <<>> /\ answer \in Seq(Range(answer)) /\ Len(body) \in Nat
    BY <1>8, <1>9, <1>10, SeqOfRange
<1>12. answer[1] = [kind |-> "status", code |-> code]
    BY <1>5, <1>9, <1>10 DEF Headed
<1>13. p \in DOMAIN answer /\ answer[p].kind = "blank"
    BY <1>9, <1>10, <1>11 DEF Blank
<1>14. \A i \in 2 .. p - 1 : answer[i].kind \in Quiet
    BY <1>5, <1>9, <1>10 DEF Headed
<1> QED BY <1>11, <1>12, <1>13, <1>14 DEF AnswerForm

-----------------------------------------------------------------------------
Requests == {"OPTIONS", "DESCRIBE", "PLAY"}

\* What init() has asked for when it is at this request.
Before(m) == CASE m = "OPTIONS" -> {}
               [] m = "DESCRIBE" -> {"OPTIONS"}
               [] m = "PLAY" -> {"OPTIONS", "DESCRIBE"}

\* The answer on its way is accepted only if the server served the request.
Answered == /\ wire # <<>> /\ wire \in Seq(Range(wire))
            /\ \A code \in Codes(HeaderLines(wire)) : Accepts(code) => msg \in served

\* Requests and answers alternate: nothing is under way when a request is sent,
\* and then either the request or its answer.
InStep ==
    /\ pc \in {"send", "recv"} => Before(msg) \subseteq served
    /\ pc \in {"send", "streams"} => request = "none" /\ wire = <<>>
    /\ pc = "streams" => {"OPTIONS", "DESCRIBE"} \subseteq served
    /\ pc = "recv" => \/ request = msg /\ wire = <<>>
                      \/ request = "none" /\ Answered
    /\ result = "true" => served = Requests

\* That holds until an answer is cut; inductive with IInv.
ServedInv == /\ program \in Programs /\ served \subseteq Requests
             /\ request \in Requests \cup {"none"}
             /\ pc \in {"send", "recv"} => msg \in Requests
             /\ ~cut => InStep

\* The server's answer is one to the request at hand.
LEMMA AnswerKeeps ==
    ASSUME IInv, ServedInv, OwnAnswer \/ OtherAnswer
    PROVE  ServedInv'
<1>1. /\ request # "none" /\ request' = "none" /\ served \subseteq served'
      /\ served' \subseteq Requests
      /\ UNCHANGED <<program, pc, msg, result>>
    <2>1. CASE OwnAnswer
        BY <2>1 DEF OwnAnswer, ServedInv, serverVars, Requests
    <2>2. CASE OtherAnswer
        BY <2>2 DEF OtherAnswer, ServedInv, serverVars, Requests
    <2> QED BY <2>1, <2>2
<1>2. ASSUME ~cut' PROVE InStep'
    <2>1. ~cut /\ InStep
        <3>1. CASE OwnAnswer
            BY <1>2, <3>1, Zenon DEF OwnAnswer, ServedInv
        <3>2. CASE OtherAnswer
            BY <1>2, <3>2, Zenon DEF OtherAnswer, ServedInv
        <3> QED BY <3>1, <3>2
    <2>2. pc \notin {"send", "streams"} /\ (pc = "recv" => request = msg /\ wire = <<>>)
        BY <1>1, <2>1 DEF InStep
    <2>3. PICK code : \E answer \in Answers(code) :
             /\ code = 200 => request \in served'
             /\ wire' = wire \o answer
        <3>1. CASE OwnAnswer
            <4>1. PICK code, room :
                  \E answer \in Answers(code) :
                    /\ served' = IF code = 200 THEN served \cup {request} ELSE served
                    /\ wire' = IF Len(answer) > room THEN wire \o SubSeq(answer, 1, room)
                               ELSE wire \o answer
                    /\ cut' = (cut \/ Len(answer) > room)
                BY <3>1 DEF OwnAnswer
            <4>2. PICK answer \in Answers(code) :
                    /\ served' = IF code = 200 THEN served \cup {request} ELSE served
                    /\ wire' = IF Len(answer) > room THEN wire \o SubSeq(answer, 1, room)
                               ELSE wire \o answer
                    /\ cut' = (cut \/ Len(answer) > room)
                BY <4>1, Zenon
            <4>3. ~(Len(answer) > room)
                BY <1>2, <4>2, Zenon
            <4> QED BY <4>2, <4>3
        <3>2. CASE OtherAnswer
            BY <3>2 DEF OtherAnswer
        <3> QED BY <3>1, <3>2
    <2>4. PICK answer \in Answers(code) :
             /\ code = 200 => request \in served'
             /\ wire' = wire \o answer
        BY <2>3
    <2>5. AnswerForm(answer, code) /\ Codes(HeaderLines(answer)) = {code}
        BY <2>4, AnswersForm, CodeOfAnswer DEF ServedInv
    <2>6. CASE pc = "recv"
        <3>1. wire' = answer
            BY <2>2, <2>4, <2>5, <2>6 DEF AnswerForm
        <3>2. Answered'
            BY <1>1, <2>2, <2>4, <2>5, <2>6, <3>1 DEF Answered, AnswerForm, Accepts
        <3> QED BY <1>1, <2>1, <2>6, <3>2 DEF InStep, IInv
    <2> QED BY <1>1, <2>1, <2>2, <2>6 DEF InStep
<1> QED BY <1>1, <1>2 DEF ServedInv

\* Reading an answer in one piece leaves nothing of it, and goes on to the next
\* request only when this one was served.
LEMMA ReceiveKeeps ==
    ASSUME IInv, ServedInv, NEW n \in 1 .. Len(wire), Receive(n)
    PROVE  ServedInv'
<1>1. UNCHANGED <<program, request, served>> /\ pc = "recv"
    BY DEF Receive, serverVars
<1>2. ASSUME ~cut' PROVE InStep'
    <2>1. ~cut /\ ~(n < Len(wire)) /\ InStep
        BY <1>2 DEF Receive, ServedInv
    <2>2. wire # <<>> /\ request = "none" /\ Answered
        BY <1>1, <2>1 DEF InStep
    <2>3. wire \in Seq(Range(wire)) /\ n = Len(wire)
        BY <2>1, <2>2 DEF Answered
    <2>4. SubSeq(wire, 1, n) = wire /\ wire' = <<>>
        BY <2>3 DEF Receive
    <2>5. CASE Return("false")
        BY <1>1, <2>1, <2>5 DEF Return, InStep
    <2>6. CASE /\ \E code \in Codes(HeaderLines(wire)) : Accepts(code)
               /\ Accepted(HeaderLines(wire), BodyLines(wire))
        <3>1. msg \in served /\ Before(msg) \subseteq served
            BY <1>1, <2>1, <2>2, <2>6 DEF Answered, InStep
        <3>2. CASE msg = "OPTIONS" /\ Go("DESCRIBE") /\ UNCHANGED <<sdpStreams, result>>
            BY <1>1, <2>1, <2>2, <2>4, <3>1, <3>2 DEF Go, InStep, Before, Requests
        <3>3. CASE msg = "DESCRIBE" /\ pc' = "streams" /\ UNCHANGED result
            BY <1>1, <2>1, <2>2, <2>4, <3>1, <3>3 DEF InStep, Before
        <3>4. CASE pc' = "crashed" /\ UNCHANGED result
            BY <1>1, <2>1, <3>4 DEF InStep
        <3>5. CASE msg = "PLAY" /\ Return("true")
            BY <1>1, <3>1, <3>5 DEF Return, InStep, Before, Requests, ServedInv
        <3> QED BY <2>5, <2>6, <3>2, <3>3, <3>4, <3>5 DEF Accepted, Described
    <2> QED BY <2>4, <2>5, <2>6 DEF Receive
<1>3. pc' = "send" => msg' \in Requests
    BY DEF Receive, Accepted, Described, Go, Return, Requests
<1>4. pc' # "recv"
    BY DEF Receive, Accepted, Described, Go, Return
<1> QED BY <1>1, <1>2, <1>3, <1>4 DEF ServedInv

\* Every step keeps the requests and the answers in step.
LEMMA NextKeepsServed ==
    ASSUME IInv, ServedInv, [Next]_vars
    PROVE  ServedInv'
<1>1. CASE InitFails
    BY <1>1 DEF InitFails, Return, ServedInv, InStep, serverVars, connectionVars
<1>2. CASE Connect
    BY <1>2 DEF Connect, Go, ServedInv, InStep, Before, Requests, serverVars
<1>3. CASE Send
    <2>1. CASE request' = msg /\ pc' = "recv" /\ UNCHANGED result
        BY <1>3, <2>1 DEF Send, ServedInv, InStep, Requests, serverVars
    <2>2. CASE Return("false") /\ UNCHANGED request
        BY <1>3, <2>2 DEF Send, Return, ServedInv, InStep, serverVars
    <2> QED BY <1>3, <2>1, <2>2 DEF Send
<1>4. CASE RecvFails
    BY <1>4 DEF RecvFails, Return, ServedInv, InStep, serverVars, connectionVars
<1>5. CASE Setup
    <2>1. UNCHANGED <<program, served, request, wire, cut, result>> /\ pc = "streams"
        BY <1>5 DEF Setup, serverVars, connectionVars
    <2>2. CASE Go("PLAY")
        BY <2>1, <2>2 DEF Go, ServedInv, InStep, Before, Requests
    <2>3. CASE pc' = "crashed"
        BY <2>1, <2>3 DEF ServedInv, InStep
    <2> QED BY <1>5, <2>2, <2>3 DEF Setup
<1>6. CASE \E n \in 1 .. Len(wire) : Receive(n)
    BY <1>6, ReceiveKeeps
<1>7. CASE OwnAnswer \/ OtherAnswer
    BY <1>7, AnswerKeeps
<1>8. CASE UNCHANGED vars
    <2>1. UNCHANGED <<program, served, request, wire, cut, result, pc, msg>>
        BY <1>8 DEF vars, serverVars, connectionVars
    <2>2. InStep => InStep'
        BY <2>1 DEF InStep, Answered
    <2> QED BY <2>1, <2>2 DEF ServedInv
<1> QED BY <1>1, <1>2, <1>3, <1>4, <1>5, <1>6, <1>7, <1>8 DEF Next, Client

\* The own server answers no PLAY.
PlayNotServed == style = "own" => "PLAY" \notin served

\* Every step keeps it.
LEMMA NextKeepsPlay == PlayNotServed /\ [Next]_vars => PlayNotServed'
<1> SUFFICES ASSUME PlayNotServed, [Next]_vars PROVE PlayNotServed'
    OBVIOUS
<1> USE DEF PlayNotServed, serverVars, connectionVars
<1>1. CASE InitFails \/ Connect
    BY <1>1 DEF InitFails, Connect
<1>2. CASE Send \/ RecvFails \/ Setup
    BY <1>2 DEF Send, RecvFails, Setup
<1>3. CASE \E n \in 1 .. Len(wire) : Receive(n)
    BY <1>3, Zenon DEF Receive
<1>4. CASE OwnAnswer
    BY <1>4 DEF OwnAnswer
<1>5. CASE OtherAnswer
    BY <1>5 DEF OtherAnswer
<1>6. CASE UNCHANGED vars
    BY <1>6 DEF vars
<1> QED BY <1>1, <1>2, <1>3, <1>4, <1>5, <1>6 DEF Next, Client

\* init() says true only if the server served each request (RtspClientHelper.cpp
\* 127-154, 294-312), as long as every answer is read in one piece.
THEOREM TrueIsServed == Spec => []TrueMeansServed
<1>1. Init => IInv /\ ServedInv
    <2> SUFFICES ASSUME Init PROVE IInv /\ ServedInv
        OBVIOUS
    <2>1. IInv
        BY DEF Init, IInv, StreamsInLoopOnly
    <2> QED BY <2>1 DEF Init, ServedInv, InStep, Requests
<1>2. IInv /\ ServedInv /\ [Next]_vars => (IInv /\ ServedInv)'
    BY NextKeeps, NextKeepsServed
<1>3. IInv /\ ServedInv => TrueMeansServed
    BY DEF ServedInv, InStep, Requests, TrueMeansServed
<1>4. QED BY <1>1, <1>2, <1>3, PTL DEF Spec

\* With the own server init() never says true (RtspServerHelper.cpp answers no PLAY
\* without the id of a session, which only SETUP would give): a part of how init()
\* ends, as long as every answer is read in one piece.
THEOREM TrueNotFromOwn == Spec => []TrueFromOthers
<1>1. Init => PlayNotServed
    BY DEF Init, PlayNotServed
<1>2. TrueMeansServed /\ PlayNotServed => TrueFromOthers
    BY DEF TrueMeansServed, PlayNotServed, TrueFromOthers
<1>3. QED BY <1>1, <1>2, NextKeepsPlay, TrueIsServed, PTL DEF Spec
-----------------------------------------------------------------------------
(* What a description holds, and what the client finds in it.                *)

\* The lines of a stream are its "m=" line and attributes.
LEMMA LinesKinds ==
    ASSUME NEW payloadType, NEW name, NEW clock, NEW words
    PROVE  LET lines == Lines(payloadType, name, clock, words)
           IN lines[1].kind = "media" /\ \A k \in 2 .. 4 : lines[k].kind = "attribute"
<1>1. PICK a, b, c, d :
          /\ a = [kind |-> "media", payloadType |-> payloadType]
          /\ b = [kind |-> "attribute", name |-> "control"]
          /\ c = [kind |-> "attribute", name |-> "rtpmap", payloadType |-> payloadType,
                  encoding |-> name, clock |-> clock, channels |-> name = "mpeg4-generic"]
          /\ d = [kind |-> "attribute", name |-> "fmtp", words |-> words]
    OBVIOUS
<1>2. a.kind = "media" /\ \A x \in {b, c, d} : x.kind = "attribute"
    BY <1>1
<1>3. Lines(payloadType, name, clock, words) = <<a, b, c, d>>
    BY <1>1, Zenon DEF Lines
<1> QED BY <1>2, <1>3

\* The kinds of the lines of streams one after the other's.
LEMMA InTurnKinds ==
    ASSUME NEW len \in Nat, NEW lines, DOMAIN lines = 1 .. len,
           \A i \in 1 .. len : /\ lines[i][1].kind = "media"
                               /\ \A k \in 2 .. 4 : lines[i][k].kind = "attribute"
    PROVE  /\ \E S : InTurn(lines) \in Seq(S)
           /\ Len(InTurn(lines)) = 4 * len
           /\ \A n \in 1 .. 4 * len :
                 InTurn(lines)[n].kind = IF (n - 1) % 4 = 0 THEN "media" ELSE "attribute"
<1>1. Len(lines) = len
    OBVIOUS
<1>2. PICK f : f = InTurn(lines)
    OBVIOUS
<1>3. f = [k \in 1 .. 4 * len |-> lines[1 + (k - 1) \div 4][1 + ((k - 1) % 4)]]
    BY <1>1, <1>2 DEF InTurn
<1>4. f \in Seq(Range(f)) /\ Len(f) = 4 * len
    <2>1. PICK m \in Nat : m = 4 * len
        OBVIOUS
    <2>2. DOMAIN f = 1 .. m /\ f = [k \in 1 .. m |-> f[k]]
        BY <1>3, <2>1
    <2>3. f \in [1 .. m -> Range(f)]
        BY <2>2 DEF Range
    <2> QED BY <2>1, <2>3
<1>5. ASSUME NEW n \in 1 .. 4 * len
      PROVE  f[n].kind = IF (n - 1) % 4 = 0 THEN "media" ELSE "attribute"
    <2>1. PICK q, r \in Nat : q = 1 + (n - 1) \div 4 /\ r = (n - 1) % 4
        OBVIOUS
    <2>2. q \in 1 .. len /\ 1 + r \in 1 .. 4
        BY <2>1
    <2>3. f[n] = lines[q][1 + r]
        BY <1>3, <2>1
    <2>4. CASE r = 0
        BY <2>1, <2>2, <2>3, <2>4
    <2>5. CASE r # 0
        <3>1. 1 + r \in 2 .. 4
            BY <2>1, <2>2, <2>5
        <3> QED BY <2>1, <2>2, <2>3, <2>5, <3>1
    <2> QED BY <2>1, <2>4, <2>5
<1> QED BY <1>2, <1>4, <1>5

\* A description has two lines of the session, then those of its streams; the own
\* server closes it with a blank one.
DescriptionForm(d, len) ==
    /\ d \in Seq(Range(d)) /\ Len(d) >= 2 + 4 * len
    /\ d[1].kind = "session" /\ d[2].kind = "session"
    /\ \A n \in 1 .. 4 * len :
          d[n + 2].kind = IF (n - 1) % 4 = 0 THEN "media" ELSE "attribute"
    /\ \A n \in 3 + 4 * len .. Len(d) : d[n].kind = "blank"

\* Lines of streams behind those of the session.
LEMMA SessionForm ==
    ASSUME NEW len \in Nat, NEW lines, DOMAIN lines = 1 .. len,
           \A i \in 1 .. len : /\ lines[i][1].kind = "media"
                               /\ \A k \in 2 .. 4 : lines[i][k].kind = "attribute"
    PROVE  /\ DescriptionForm(SessionLines \o InTurn(lines), len)
           /\ DescriptionForm(SessionLines \o InTurn(lines) \o <<[kind |-> "blank"]>>, len)
<1>1. PICK s, t, b : s = SessionLines /\ t = InTurn(lines) /\ b = [kind |-> "blank"]
    OBVIOUS
<1>2. PICK S : s \in Seq(S) /\ t \in Seq(S) /\ b \in S
    <2>1. PICK T : t \in Seq(T)
        BY <1>1, InTurnKinds
    <2>2. s \in Seq(T \cup {[kind |-> "session"], b})
        BY <1>1 DEF SessionLines
    <2>3. t \in Seq(T \cup {[kind |-> "session"], b})
        BY <2>1
    <2> QED BY <2>2, <2>3
<1>3. Len(s) = 2 /\ s[1].kind = "session" /\ s[2].kind = "session"
    BY <1>1 DEF SessionLines
<1>4. Len(t) = 4 * len
      /\ \A n \in 1 .. 4 * len : t[n].kind = IF (n - 1) % 4 = 0 THEN "media" ELSE "attribute"
    BY <1>1, InTurnKinds
<1>5. PICK d : d = s \o t
    OBVIOUS
<1>0. PICK m \in Nat : m = 4 * len
    OBVIOUS
<1>6. /\ d \in Seq(S) /\ Len(d) = 2 + m
      /\ d[1] = s[1] /\ d[2] = s[2] /\ \A n \in 1 .. m : d[n + 2] = t[n]
    <2>1. /\ d \in Seq(S) /\ Len(d) = Len(s) + Len(t)
          /\ \A i \in 1 .. Len(s) + Len(t) : d[i] = IF i <= Len(s) THEN s[i] ELSE t[i - Len(s)]
        BY <1>2, <1>5, ConcatProperties, Zenon
    <2>2. Len(s) = 2 /\ Len(t) = m
        BY <1>0, <1>3, <1>4
    <2>3. ASSUME NEW n \in 1 .. m PROVE d[n + 2] = t[n]
        BY <2>1, <2>2
    <2>4. d[1] = s[1] /\ d[2] = s[2]
        BY <2>1, <2>2
    <2> QED BY <2>1, <2>2, <2>3, <2>4
<1>7. DescriptionForm(d, len)
    <2>1. ASSUME NEW n \in 1 .. 4 * len
          PROVE  d[n + 2].kind = IF (n - 1) % 4 = 0 THEN "media" ELSE "attribute"
        <3>1. d[n + 2] = t[n]
            BY <1>0, <1>6
        <3>2. t[n].kind = IF (n - 1) % 4 = 0 THEN "media" ELSE "attribute"
            BY <1>4
        <3> QED BY <3>1, <3>2
    <2>2. 3 + 4 * len .. Len(d) = {} /\ Len(d) >= 2 + 4 * len
        BY <1>0, <1>6
    <2>3. d \in Seq(Range(d))
        BY <1>6, SeqOfRange
    <2>4. d[1].kind = "session" /\ d[2].kind = "session"
        BY <1>3, <1>6
    <2> QED BY <2>1, <2>2, <2>3, <2>4 DEF DescriptionForm
<1>8. PICK e : e = d \o <<b>>
    OBVIOUS
<1>9. /\ e \in Seq(S) /\ Len(e) = 3 + m
      /\ e[3 + m] = b /\ \A n \in 1 .. 2 + m : e[n] = d[n]
    BY <1>0, <1>2, <1>6, <1>8
<1>10. DescriptionForm(e, len)
    <2>1. e[1].kind = "session" /\ e[2].kind = "session"
        BY <1>3, <1>6, <1>9
    <2>2. ASSUME NEW n \in 1 .. 4 * len
          PROVE  e[n + 2].kind = IF (n - 1) % 4 = 0 THEN "media" ELSE "attribute"
        <3>1. n + 2 \in 1 .. 2 + m /\ n \in 1 .. m
            BY <1>0
        <3>2. e[n + 2] = t[n]
            BY <1>6, <1>9, <3>1
        <3> QED BY <1>4, <3>2
    <2>3. \A n \in 3 + 4 * len .. Len(e) : e[n].kind = "blank"
        BY <1>0, <1>1, <1>9
    <2>4. e \in Seq(Range(e)) /\ Len(e) >= 2 + 4 * len
        BY <1>0, <1>9, SeqOfRange
    <2> QED BY <2>1, <2>2, <2>3, <2>4 DEF DescriptionForm
<1> QED BY <1>1, <1>5, <1>7, <1>8, <1>10

\* The server's description is of that form.
LEMMA DescriptionHasForm ==
    ASSUME program \in Programs
    PROVE  DescriptionForm(Description, Len(program))
<1>1. Len(program) \in Nat /\ DOMAIN program = 1 .. Len(program)
    BY ClientAssumption
<1>2. DescriptionForm(OwnDescription(program), Len(program))
    <2> DEFINE lines == [i \in DOMAIN program |->
          LET stream == program[i]
          IN Lines(PayloadType(i), EncodingName(stream.mime), Timescale(stream.mime),
                   <<Parameters(stream)>>)]
    <2>1. \A i \in 1 .. Len(program) :
             lines[i][1].kind = "media" /\ \A k \in 2 .. 4 : lines[i][k].kind = "attribute"
        BY <1>1, LinesKinds
    <2>2. DOMAIN lines = 1 .. Len(program)
        BY <1>1
    <2> HIDE DEF lines
    <2>3. DescriptionForm(SessionLines \o InTurn(lines) \o <<[kind |-> "blank"]>>, Len(program))
        BY <1>1, <2>1, <2>2, SessionForm
    <2> QED BY <2>3, Zenon DEF OwnDescription, lines
<1>3. DescriptionForm(OtherDescription(program, style = "reversed"), Len(program))
    <2> DEFINE words(stream) == IF stream.mime \notin {"AAC", "H264", "HEVC"} THEN <<>>
                     ELSE [k \in DOMAIN Parameters(stream) |-> <<Parameters(stream)[k]>>]
               name(stream) == IF words(stream) # <<>> THEN EncodingName(stream.mime)
                    ELSE IF stream.mime = "LATM" THEN "MP4A-LATM" ELSE "PCMU"
               lines == [i \in DOMAIN program |->
                  LET stream == program[i]
                  IN Lines(PayloadType(i), name(stream), stream.clock,
                       IF style = "reversed" THEN Reverse(words(stream)) ELSE words(stream))]
    <2> HIDE DEF words, name
    <2>1. \A i \in 1 .. Len(program) :
             lines[i][1].kind = "media" /\ \A k \in 2 .. 4 : lines[i][k].kind = "attribute"
        BY <1>1, LinesKinds
    <2>2. DOMAIN lines = 1 .. Len(program)
        BY <1>1
    <2> HIDE DEF lines
    <2>3. DescriptionForm(SessionLines \o InTurn(lines), Len(program))
        BY <1>1, <2>1, <2>2, SessionForm
    <2> QED BY <2>3, Zenon DEF OtherDescription, lines, words, name
<1> QED BY <1>2, <1>3 DEF Description

\* The client finds no stream in it only if the program has none.
LEMMA StreamsFound ==
    ASSUME program \in Programs
    PROVE  /\ ParseSdp(Description).outcome = "ok"
           /\ ParseSdp(Description).streams \in Seq(Range(ParseSdp(Description).streams))
           /\ ParseSdp(Description).streams = <<>> <=> program = <<>>
<1>1. PICK d, len : d = Description /\ len = Len(program)
    OBVIOUS
<1>2. len \in Nat /\ (len = 0 <=> program = <<>>)
    BY <1>1, ClientAssumption
<1>3. DescriptionForm(d, len) /\ Len(d) \in Nat /\ DOMAIN d = 1 .. Len(d)
    BY <1>1, DescriptionHasForm DEF DescriptionForm
<1>4. \A i \in DOMAIN d : \/ i \in {1, 2} /\ d[i].kind = "session"
                          \/ i = 3 /\ len # 0 /\ d[i].kind = "media"
                          \/ i > 3 /\ len # 0 /\ d[i].kind \in {"media", "attribute"}
                          \/ i > 2 /\ d[i].kind = "blank"
    <2> SUFFICES ASSUME NEW i \in DOMAIN d, i > 2, ~(i > 2 + 4 * len)
                 PROVE  /\ len # 0 /\ d[i].kind \in {"media", "attribute"}
                        /\ i = 3 => d[i].kind = "media"
        BY <1>2, <1>3 DEF DescriptionForm
    <2>1. PICK n \in 1 .. 4 * len : n = i - 2
        BY <1>2, <1>3
    <2>2. d[n + 2].kind = IF (n - 1) % 4 = 0 THEN "media" ELSE "attribute"
        BY <1>3, <2>1 DEF DescriptionForm
    <2> QED BY <1>2, <1>3, <2>1, <2>2
<1>5. len # 0 => 3 \in DOMAIN d /\ d[3].kind = "media"
    <2> SUFFICES ASSUME len # 0 PROVE 3 \in DOMAIN d /\ d[3].kind = "media"
        OBVIOUS
    <2>1. 1 \in 1 .. 4 * len /\ Len(d) >= 2 + 4 * len
        BY <1>2, <1>3 DEF DescriptionForm
    <2>2. d[1 + 2].kind = IF (1 - 1) % 4 = 0 THEN "media" ELSE "attribute"
        BY <1>3, <2>1 DEF DescriptionForm
    <2> QED BY <1>2, <1>3, <2>1, <2>2
<1>6. Outcome(d) = "ok"
    BY <1>3, <1>4, <1>5 DEF Outcome, Having
<1>7. PICK media : media = Having(d, "media")
    OBVIOUS
<1>8. media = {} <=> len = 0
    BY <1>3, <1>4, <1>5, <1>7 DEF Having
<1>9. Cardinality(media) \in Nat /\ (Cardinality(media) = 0 <=> media = {})
    <2>1. IsFiniteSet(media)
        <3>1. IsFiniteSet(1 .. Len(d))
            BY <1>3, FS_Interval
        <3>2. media \in SUBSET (1 .. Len(d))
            BY <1>3, <1>7 DEF Having
        <3> QED BY <3>1, <3>2, FS_Subset
    <2> QED BY <2>1, FS_EmptySet, FS_CardinalityType
<1>10. PICK nth : nth = ParseSdp(d).streams
    OBVIOUS
<1>11. DOMAIN nth = 1 .. Cardinality(media)
    BY <1>6, <1>7, <1>10 DEF ParseSdp
<1>12. nth = <<>> <=> Cardinality(media) = 0
    BY <1>9, <1>11
<1>13. nth \in Seq(Range(nth))
    <2>1. PICK n \in Nat : n = Cardinality(media)
        BY <1>9
    <2>2. DOMAIN nth = 1 .. n /\ nth = [i \in 1 .. n |-> nth[i]]
        BY <1>6, <1>7, <1>10, <1>11, <2>1 DEF ParseSdp
    <2>3. nth \in [1 .. n -> Range(nth)]
        BY <2>2 DEF Range
    <2> QED BY <2>3
<1> QED BY <1>1, <1>2, <1>6, <1>8, <1>9, <1>10, <1>12, <1>13 DEF ParseSdp

-----------------------------------------------------------------------------
(* What the client takes from an answer to DESCRIBE.                         *)

\* An accepted answer s to DESCRIBE has a type, and the client takes from it the
\* whole description.
DescribesAll(s) ==
    LET header == HeaderLines(s)
    IN \A code \in Codes(header) : Accepts(code) =>
          /\ Having(header, "type") # {}
          /\ Texts(header, BodyLines(s)) = {Description}

\* A sequence put together of two.
LEMMA TwoParts ==
    ASSUME NEW S, NEW s \in Seq(S), NEW t \in Seq(S)
    PROVE  /\ s \o t \in Seq(S)
           /\ Len(s \o t) = Len(s) + Len(t)
           /\ \A i \in 1 .. Len(s) : (s \o t)[i] = s[i]
           /\ \A i \in 1 .. Len(t) : (s \o t)[Len(s) + i] = t[i]
           /\ SubSeq(s \o t, 1, Len(s)) = s
           /\ SubSeq(s \o t, Len(s) + 1, Len(s \o t)) = t
<1>0. PICK r : r = s \o t
    OBVIOUS
<1>1. /\ r \in Seq(S) /\ Len(r) = Len(s) + Len(t)
      /\ \A i \in 1 .. Len(s) + Len(t) : r[i] = IF i <= Len(s) THEN s[i] ELSE t[i - Len(s)]
    BY <1>0, ConcatProperties, Zenon
<1>2. PICK k, n \in Nat : k = Len(s) /\ n = Len(t)
    OBVIOUS
<1>3. \A i \in 1 .. k : r[i] = s[i]
    BY <1>1, <1>2
<1>4. \A i \in 1 .. n : r[k + i] = t[i]
    BY <1>1, <1>2
<1>5. SubSeq(r, 1, k) = s
    <2>1. PICK x : x = SubSeq(r, 1, k)
        OBVIOUS
    <2>2. x \in Seq(S) /\ Len(x) = k /\ \A i \in 1 .. k : x[i] = r[i]
        BY <1>1, <1>2, <2>1
    <2> QED BY <1>2, <1>3, <2>1, <2>2
<1>6. SubSeq(r, k + 1, k + n) = t
    <2>1. PICK m, l \in Int : m = k + 1 /\ l = k + n
        OBVIOUS
    <2>2. \A i \in m .. l : r[i] \in S
        BY <1>1, <1>2, <2>1
    <2>3. /\ SubSeq(r, m, l) \in Seq(S)
          /\ Len(SubSeq(r, m, l)) = IF m <= l THEN l - m + 1 ELSE 0
          /\ \A i \in 1 .. l - m + 1 : SubSeq(r, m, l)[i] = r[m + i - 1]
        BY <2>1, <2>2, SubSeqProperties
    <2>4. PICK x : x = SubSeq(r, m, l)
        OBVIOUS
    <2>5. x \in Seq(S) /\ Len(x) = n
        <3>1. x \in Seq(S) /\ Len(x) = IF m <= l THEN l - m + 1 ELSE 0
            BY <2>3, <2>4
        <3>2. n = IF m <= l THEN l - m + 1 ELSE 0
            BY <2>1
        <3> QED BY <3>1, <3>2
    <2>6. ASSUME NEW i \in 1 .. n PROVE x[i] = t[i]
        <3>1. i \in 1 .. l - m + 1 /\ m + i - 1 = k + i
            BY <2>1
        <3>2. x[i] = r[k + i]
            BY <2>3, <2>4, <3>1
        <3> QED BY <1>4, <3>2
    <2>7. x = t
        BY <1>2, <2>5, <2>6
    <2> QED BY <2>1, <2>4, <2>7
<1> QED BY <1>0, <1>1, <1>2, <1>3, <1>4, <1>5, <1>6

\* A header h of its status, its type and the length of what follows the blank line
\* is one whose text is found.
LEMMA TextFound ==
    ASSUME NEW S, NEW h \in Seq(S), NEW body \in Seq(S), NEW length \in S, NEW type \in S,
           Blank \in S,
           \A i \in DOMAIN h : h[i].kind \in {"status", "header", "unknown"},
           type.kind = "type", length.kind = "length", length.lines = Len(body)
    PROVE  LET s == h \o <<type, length>> \o <<Blank>> \o body
           IN /\ Having(HeaderLines(s), "type") # {}
              /\ Texts(HeaderLines(s), BodyLines(s)) = {body}
<1>0. h \in Seq(S) /\ body \in Seq(S)
    OBVIOUS
<1>1. PICK e, b : e = <<type, length>> /\ b = <<Blank>>
    OBVIOUS
<1>2. PICK x : x = h \o e
    OBVIOUS
<1>3. PICK y : y = x \o b
    OBVIOUS
<1>4. PICK s : s = y \o body
    OBVIOUS
<1>5. PICK k \in Nat : k = Len(h)
    OBVIOUS
<1>6. e \in Seq(S) /\ Len(e) = 2 /\ e[1] = type /\ e[2] = length
    BY <1>1
<1>7. b \in Seq(S) /\ Len(b) = 1 /\ b[1] = Blank
    BY <1>1
<1>8. /\ x \in Seq(S) /\ Len(x) = k + 2 /\ x[k + 1] = type /\ x[k + 2] = length
      /\ \A i \in 1 .. k : x[i] = h[i]
    <2>0. /\ (h \o e) \in Seq(S) /\ Len((h \o e)) = Len(h) + Len(e)
          /\ \A i \in 1 .. Len(h) : (h \o e)[i] = h[i]
          /\ \A i \in 1 .. Len(e) : (h \o e)[Len(h) + i] = e[i]
        BY ONLY <1>0, <1>6, TwoParts
    <2>1. /\ x \in Seq(S) /\ Len(x) = Len(h) + Len(e)
          /\ \A i \in 1 .. Len(h) : x[i] = h[i]
          /\ \A i \in 1 .. Len(e) : x[Len(h) + i] = e[i]
        BY <1>2, <2>0
    <2> QED BY <1>5, <1>6, <2>1
<1>9. /\ y \in Seq(S) /\ Len(y) = k + 3 /\ y[k + 3] = Blank
      /\ \A i \in 1 .. k + 2 : y[i] = x[i]
      /\ SubSeq(y, 1, k + 2) = x
    <2>a. x \in Seq(S) /\ b \in Seq(S)
        BY <1>7, <1>8
    <2>0. /\ (x \o b) \in Seq(S) /\ Len((x \o b)) = Len(x) + Len(b)
          /\ \A i \in 1 .. Len(x) : (x \o b)[i] = x[i]
          /\ \A i \in 1 .. Len(b) : (x \o b)[Len(x) + i] = b[i]
          /\ SubSeq((x \o b), 1, Len(x)) = x
        BY ONLY <2>a, TwoParts
    <2>1. /\ y \in Seq(S) /\ Len(y) = Len(x) + Len(b)
          /\ \A i \in 1 .. Len(x) : y[i] = x[i]
          /\ \A i \in 1 .. Len(b) : y[Len(x) + i] = b[i]
          /\ SubSeq(y, 1, Len(x)) = x
        BY <1>3, <2>0
    <2> QED BY <1>7, <1>8, <2>1
<1>10. /\ s \in Seq(S) /\ Len(s) >= k + 3
       /\ \A i \in 1 .. k + 3 : s[i] = y[i]
       /\ SubSeq(s, k + 4, Len(s)) = body
    <2>a. y \in Seq(S) /\ body \in Seq(S)
        BY <1>0, <1>9
    <2>0. /\ (y \o body) \in Seq(S) /\ Len((y \o body)) = Len(y) + Len(body)
          /\ \A i \in 1 .. Len(y) : (y \o body)[i] = y[i]
          /\ SubSeq((y \o body), Len(y) + 1, Len((y \o body))) = body
        BY ONLY <2>a, TwoParts
    <2>1. /\ s \in Seq(S) /\ Len(s) = Len(y) + Len(body)
          /\ \A i \in 1 .. Len(y) : s[i] = y[i]
          /\ SubSeq(s, Len(y) + 1, Len(s)) = body
        BY <1>4, <2>0
    <2> QED BY <1>9, <2>1
<1>11. HeaderLines(s) = x
    <2>1. PICK m : m = Min(Having(s, "blank"))
        OBVIOUS
    <2>2. ASSUME NEW i \in 1 .. k + 2 PROVE s[i] = x[i] /\ x[i].kind # "blank"
        <3>1. s[i] = x[i]
            BY <1>9, <1>10
        <3>2. CASE i \in 1 .. k
            <4>1. x[i] = h[i] /\ i \in DOMAIN h
                BY <1>5, <1>8, <3>2
            <4> QED BY <3>1, <4>1
        <3>3. CASE i = k + 1
            BY <1>8, <3>1, <3>3
        <3>4. CASE i = k + 2
            BY <1>8, <3>1, <3>4
        <3> QED BY <3>2, <3>3, <3>4
    <2>3. k + 3 \in Having(s, "blank")
        <3>1. s[k + 3] = Blank /\ k + 3 \in DOMAIN s
            BY <1>9, <1>10
        <3> QED BY <3>1 DEF Having, Blank
    <2>4. \A i \in Having(s, "blank") : i \in Nat /\ i >= k + 3
        BY <1>10, <2>2 DEF Having
    <2>5. m = k + 3
        BY <2>1, <2>3, <2>4 DEF Min
    <2>6. HeaderLines(s) = SubSeq(s, 1, k + 2)
        <3>1. HeaderLines(s) = SubSeq(s, 1, m - 1)
            BY <2>1, <2>3 DEF HeaderLines
        <3>2. m - 1 = k + 2
            BY <2>5
        <3> QED BY <3>1, <3>2
    <2>7. SubSeq(s, 1, k + 2) = x
        <3>1. PICK z : z = SubSeq(s, 1, k + 2)
            OBVIOUS
        <3>2. z \in Seq(S) /\ Len(z) = k + 2 /\ \A i \in 1 .. k + 2 : z[i] = s[i]
            BY <1>10, <3>1
        <3> QED BY <1>8, <2>2, <3>1, <3>2
    <2> QED BY <2>6, <2>7
<1>12. BodyLines(s) = body
    <2>1. Len(HeaderLines(s)) + 2 = k + 4
        BY <1>8, <1>11
    <2> QED BY <1>10, <2>1 DEF BodyLines
<1>13. Having(x, "type") # {}
    <2>1. k + 1 \in Having(x, "type")
        BY <1>8 DEF Having
    <2> QED BY <2>1
<1>14. Having(x, "length") = {k + 2}
    <2>1. ASSUME NEW i \in 1 .. k + 2 PROVE x[i].kind = "length" <=> i = k + 2
        <3>1. CASE i \in 1 .. k
            <4>1. x[i] = h[i] /\ i \in DOMAIN h
                BY <1>5, <1>8, <3>1
            <4> QED BY <3>1, <4>1
        <3>2. CASE i = k + 1
            BY <1>8, <3>2
        <3>3. CASE i = k + 2
            BY <1>8, <3>3
        <3> QED BY <3>1, <3>2, <3>3
    <2>2. DOMAIN x = 1 .. k + 2
        BY <1>8
    <2> QED BY <2>1, <2>2 DEF Having
<1>15. Max({k + 2}) = k + 2
    BY DEF Max
<1>16. Texts(x, body) = {body}
    BY <1>8, <1>14, <1>15 DEF Texts
<1> QED BY <1>1, <1>2, <1>3, <1>4, <1>11, <1>12, <1>13, <1>16

\* Every answer to DESCRIBE that the client accepts has the whole description.
LEMMA AnswersDescribe ==
    ASSUME NEW code, NEW answer \in Answers(code), program \in Programs, request = "DESCRIBE"
    PROVE  DescribesAll(answer)
<1>1. Codes(HeaderLines(answer)) = {code}
    BY AnswersForm, CodeOfAnswer
<1>2. CASE code # 200
    BY <1>1, <1>2 DEF DescribesAll, Accepts
<1>3. CASE code = 200
    <2>1. Description \in Seq(Range(Description)) /\ Description # <<>>
        <3>1. DescriptionForm(Description, Len(program)) /\ Len(program) \in Nat
            BY DescriptionHasForm, ClientAssumption
        <3>2. Description \in Seq(Range(Description)) /\ Len(Description) >= 2 + 4 * Len(program)
            BY <3>1 DEF DescriptionForm
        <3> QED BY <3>1, <3>2
    <2>2. PICK type, length, body, h :
              /\ type = [kind |-> "type"] /\ length = [kind |-> "length", lines |-> Len(body)]
              /\ body = Description
              /\ h = Status(code) \/ h = Append(Status(code), Unknown)
              /\ answer = h \o <<type, length>> \o <<Blank>> \o body
        BY <1>3, <2>1, Zenon DEF Answers
    <2>3. PICK a, b, c : /\ a = [kind |-> "status", code |-> code] /\ b = [kind |-> "header"]
                         /\ c = [kind |-> "unknown"]
        OBVIOUS
    <2>4. h = <<a, b>> \/ h = Append(<<a, b>>, c)
        BY <2>2, <2>3, Zenon DEF Status, Unknown
    <2>5. PICK S : S = {a, b, c, type, length, Blank} \cup Range(body)
        OBVIOUS
    <2>6. h \in Seq(S) /\ \A i \in DOMAIN h : h[i] \in {a, b, c}
        <3>1. CASE h = <<a, b>>
            BY <2>5, <3>1
        <3>2. CASE h = Append(<<a, b>>, c)
            <4>1. PICK g : g = <<a, b>>
                OBVIOUS
            <4>2. g \in Seq(S) /\ Len(g) = 2 /\ g[1] = a /\ g[2] = b
                BY <2>5, <4>1
            <4>3. h \in Seq(S) /\ Len(h) = 3 /\ h[1] = g[1] /\ h[2] = g[2] /\ h[3] = c
                BY <2>5, <3>2, <4>1, <4>2
            <4> QED BY <4>2, <4>3
        <3> QED BY <2>4, <3>1, <3>2
    <2>7. \A i \in DOMAIN h : h[i].kind \in {"status", "header", "unknown"}
        BY <2>3, <2>6
    <2>8. body \in Seq(S)
        BY <2>1, <2>2, <2>5
    <2>9. /\ type \in S /\ length \in S /\ Blank \in S
          /\ type.kind = "type" /\ length.kind = "length" /\ length.lines = Len(body)
        BY <2>2, <2>5
    <2>10. h \in Seq(S)
        BY <2>6
    <2>11. LET s == h \o <<type, length>> \o <<Blank>> \o body
           IN /\ Having(HeaderLines(s), "type") # {}
              /\ Texts(HeaderLines(s), BodyLines(s)) = {body}
        BY ONLY <2>7, <2>8, <2>9, <2>10, TextFound
    <2> QED BY <2>2, <2>11 DEF DescribesAll
<1> QED BY <1>2, <1>3

-----------------------------------------------------------------------------
\* How init() ends, where it will, as long as no answer was cut: inductive with IInv
\* and ServedInv.
EndsInv ==
    ~cut =>
        /\ pc = "streams" => (sdpStreams = <<>> <=> program = <<>>)
        /\ pc \in {"send", "recv"} /\ msg = "PLAY" => program = <<>>
        /\ pc = "crashed" => program # <<>>
        /\ result = "true" => program = <<>>
        /\ pc = "recv" /\ msg = "DESCRIBE" /\ wire # <<>> => DescribesAll(wire)

\* What the client makes of the whole description.
LEMMA DescribedKeeps ==
    ASSUME program \in Programs, sdpStreams = <<>>, result = "none", Described(Description)
    PROVE  /\ pc' \in {"streams", "crashed"} /\ UNCHANGED result
           /\ pc' = "streams" => (sdpStreams' = <<>> <=> program = <<>>)
           /\ pc' = "crashed" => program # <<>>
<1>1. PICK parsed : parsed = ParseSdp(Description)
    OBVIOUS
<1>2. /\ parsed.outcome = "ok" /\ parsed.streams \in Seq(Range(parsed.streams))
      /\ parsed.streams = <<>> <=> program = <<>>
    BY <1>1, StreamsFound
<1>3. CASE pc' = "crashed" /\ UNCHANGED result
           /\ \E i \in DOMAIN parsed.streams :
                 parsed.streams[i].codec = "H264" /\ parsed.streams[i].sets.pps = Overrun
    BY <1>2, <1>3
<1>4. CASE /\ sdpStreams' = sdpStreams \o parsed.streams
           /\ pc' = "streams" /\ UNCHANGED result
    <2>1. sdpStreams' = parsed.streams
        BY <1>2, <1>4
    <2> QED BY <1>2, <1>4, <2>1
<1> QED BY <1>1, <1>2, <1>3, <1>4 DEF Described

\* Reading an answer in one piece keeps it.
LEMMA ReceiveKeepsEnds ==
    ASSUME IInv, ServedInv, EndsInv, NEW n \in 1 .. Len(wire), Receive(n), ~cut'
    PROVE  EndsInv'
<1>1. UNCHANGED <<program, request, served>> /\ pc = "recv" /\ program \in Programs
    BY DEF Receive, serverVars, ServedInv
<1>2. ~cut /\ ~(n < Len(wire)) /\ InStep
    BY DEF Receive, ServedInv
<1>3. wire # <<>> /\ Answered
    BY <1>1, <1>2 DEF InStep
<1>4. SubSeq(wire, 1, n) = wire
    BY <1>2, <1>3 DEF Answered
<1>5. sdpStreams = <<>> /\ result = "none"
    BY <1>1 DEF IInv, StreamsInLoopOnly
<1>6. CASE Return("false")
    BY <1>1, <1>2, <1>6 DEF Return, EndsInv
<1>7. CASE /\ \E code \in Codes(HeaderLines(wire)) : Accepts(code)
           /\ Accepted(HeaderLines(wire), BodyLines(wire))
    <2>1. CASE Go("DESCRIBE") /\ UNCHANGED result
        BY <1>5, <2>1 DEF Go, EndsInv
    <2>2. CASE /\ msg = "DESCRIBE"
               /\ IF Having(HeaderLines(wire), "type") = {}
                  THEN pc' = "streams" /\ UNCHANGED <<sdpStreams, result>>
                  ELSE \E text \in Texts(HeaderLines(wire), BodyLines(wire)) : Described(text)
        <3>1. DescribesAll(wire)
            BY <1>1, <1>2, <1>3, <2>2 DEF EndsInv
        <3>2. Described(Description)
            BY <1>7, <2>2, <3>1 DEF DescribesAll
        <3>3. /\ pc' \in {"streams", "crashed"} /\ UNCHANGED result
              /\ pc' = "streams" => (sdpStreams' = <<>> <=> program = <<>>)
              /\ pc' = "crashed" => program # <<>>
            BY <1>1, <1>5, <3>2, DescribedKeeps
        <3> QED BY <1>1, <1>5, <3>3 DEF EndsInv
    <2>3. CASE msg = "PLAY" /\ Return("true")
        BY <1>1, <1>2, <2>3 DEF Return, EndsInv
    <2> QED BY <1>7, <2>1, <2>2, <2>3 DEF Accepted
<1> QED BY <1>4, <1>6, <1>7 DEF Receive

\* The server's answer is one the client gets the description from.
LEMMA AnswerKeepsEnds ==
    ASSUME IInv, ServedInv, EndsInv, OwnAnswer \/ OtherAnswer, ~cut'
    PROVE  EndsInv'
<1>1. /\ request # "none" /\ ~cut /\ program \in Programs
      /\ UNCHANGED <<program, style, pc, msg, sdpStreams, result>>
    <2>1. CASE OwnAnswer
        BY <2>1, Zenon DEF OwnAnswer, ServedInv, serverVars
    <2>2. CASE OtherAnswer
        BY <2>2, Zenon DEF OtherAnswer, ServedInv, serverVars
    <2> QED BY <2>1, <2>2
<1>2. PICK code : \E answer \in Answers(code) : wire' = wire \o answer
    <2>1. CASE OwnAnswer
        <3>1. PICK code, room :
              \E answer \in Answers(code) :
                /\ wire' = IF Len(answer) > room THEN wire \o SubSeq(answer, 1, room)
                           ELSE wire \o answer
                /\ cut' = (cut \/ Len(answer) > room)
            BY <2>1 DEF OwnAnswer
        <3>2. PICK answer \in Answers(code) :
                /\ wire' = IF Len(answer) > room THEN wire \o SubSeq(answer, 1, room)
                           ELSE wire \o answer
                /\ cut' = (cut \/ Len(answer) > room)
            BY <3>1, Zenon
        <3>3. ~(Len(answer) > room)
            BY <3>2, Zenon
        <3> QED BY <3>2, <3>3
    <2>2. CASE OtherAnswer
        BY <2>2 DEF OtherAnswer
    <2> QED BY <2>1, <2>2
<1>3. PICK answer \in Answers(code) : wire' = wire \o answer
    BY <1>2
<1>4. ASSUME pc = "recv", msg = "DESCRIBE" PROVE DescribesAll(wire)'
    <2>1. wire = <<>> /\ request = "DESCRIBE"
        BY <1>1, <1>4 DEF ServedInv, InStep
    <2>2. DescribesAll(answer) /\ answer \in Seq(Range(answer))
        BY <1>1, <1>3, <2>1, AnswersDescribe, AnswersForm DEF AnswerForm
    <2>3. wire' = answer
        BY <1>3, <2>1, <2>2
    <2> QED BY <1>1, <2>2, <2>3 DEF DescribesAll, Description
<1> QED BY <1>1, <1>4 DEF EndsInv

\* Every step keeps it.
LEMMA NextKeepsEnds ==
    ASSUME IInv, ServedInv, EndsInv, [Next]_vars
    PROVE  EndsInv'
<1> SUFFICES ASSUME ~cut' PROVE EndsInv'
    BY DEF EndsInv
<1>1. CASE InitFails
    BY <1>1 DEF InitFails, Return, EndsInv, serverVars, connectionVars
<1>2. CASE Connect
    BY <1>2 DEF Connect, Go, EndsInv
<1>3. CASE Send
    <2>1. CASE request' = msg /\ pc' = "recv" /\ UNCHANGED result
        <3>1. wire' = <<>>
            BY <1>3 DEF Send, ServedInv, InStep
        <3> QED BY <1>3, <2>1, <3>1 DEF Send, EndsInv, serverVars
    <2>2. CASE Return("false")
        BY <1>3, <2>2 DEF Send, Return, EndsInv, serverVars
    <2> QED BY <1>3, <2>1, <2>2 DEF Send
<1>4. CASE RecvFails
    BY <1>4 DEF RecvFails, Return, EndsInv, serverVars, connectionVars
<1>5. CASE Setup
    BY <1>5 DEF Setup, Go, EndsInv, serverVars, connectionVars
<1>6. CASE \E n \in 1 .. Len(wire) : Receive(n)
    BY <1>6, ReceiveKeepsEnds
<1>7. CASE OwnAnswer \/ OtherAnswer
    BY <1>7, AnswerKeepsEnds
<1>8. CASE UNCHANGED vars
    BY <1>8 DEF vars, serverVars, connectionVars, EndsInv, DescribesAll, Description
<1> QED BY <1>1, <1>2, <1>3, <1>4, <1>5, <1>6, <1>7, <1>8 DEF Next, Client

\* How init() ends (RtspClientHelper.cpp 127-181, 294-312): with a result only
\* without a stream, with true only from another server that has none; as long as
\* every answer is read in one piece, the program ends in it only at a description
\* with a stream.  For any programs, servers and inits.
THEOREM InitEnds == Spec => []InitEndsKnown
<1>1. Init => IInv /\ ServedInv /\ EndsInv
    <2> SUFFICES ASSUME Init PROVE IInv /\ ServedInv /\ EndsInv
        OBVIOUS
    <2>1. IInv
        BY DEF Init, IInv, StreamsInLoopOnly
    <2> QED BY <2>1 DEF Init, ServedInv, InStep, EndsInv, Requests
<1>2. IInv /\ ServedInv /\ EndsInv /\ [Next]_vars => (IInv /\ ServedInv /\ EndsInv)'
    BY NextKeeps, NextKeepsServed, NextKeepsEnds
<1>3. EndsInv /\ ReturnsWithoutStreams /\ TrueFromOthers => InitEndsKnown
    BY DEF EndsInv, InitEndsKnown
<1>4. QED BY <1>1, <1>2, <1>3, InitReturnsWithoutStreams, TrueNotFromOwn, PTL DEF Spec
=============================================================================
