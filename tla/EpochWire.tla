----------------------------- MODULE EpochWire -----------------------------
(***************************************************************************)
(* One connection between a client and a coordinator session, down to the  *)
(* bytes: requests and answers are framed, sent over a byte stream that    *)
(* may be cut anywhere or altered, and read back with the checks of        *)
(* read_frame, decode_frame and the payload decoders.                      *)
(*                                                                         *)
(* The client asks one question at a time and, when it refuses an answer,  *)
(* keeps the connection and may ask again; the server ends the session at  *)
(* the first frame it refuses.  What the runtime answers is left open: any *)
(* answer of the right type.                                               *)
(***************************************************************************)
EXTENDS WireMessages, FiniteSets

LOCAL INSTANCE SequencesExt

CONSTANTS
  MaxFramePayload,  \* limits.max_frame_payload
  MaxRequestSize,   \* limits.max_request_size
  MaxAsked,         \* bound: how many requests the client makes
  Questions,        \* the request types it makes
  MayAlter          \* whether bytes may be altered on the way

\* is_viable, for the limits that matter here.
ASSUME WireAssumption ==
  /\ MaxRequestSize \in Nat \ {0}
  /\ MaxFramePayload \in Nat \ {0}
  /\ MaxRequestSize <= MaxFramePayload
  /\ MaxAsked \in Nat
  /\ Questions \subseteq Requests \cup {"Shutdown"}
  /\ MayAlter \in BOOLEAN

VARIABLES
  stream,    \* the bytes on their way, to the "server" and to the "client"
  hashed,    \* what each integrity digest was computed over; a digest is
             \* the number of its frame
  asked,     \* the requests the client sent
  heard,     \* the requests the server decoded
  told,      \* the answers it sent, with the number of the request
  learnt,    \* the answers the client returned, with the number of the call
  client,    \* "ready" for a call, "waiting" in one, or "closed"
  server,    \* "serving", or how the session ended: "left", "stopped", "violation"
  greeted,   \* hello_seen of the server
  bound,     \* bound of the server's session
  helloDone, \* hello_done of the client
  net,       \* "fine", or what happened to the connection: "cut", "altered",
             \* or "length" when it was a frame's declared length
  own        \* ghost: what failed at the server itself: "nothing", the "runtime"
             \* (an exception), the "binding" of a registration, the "frame" of
             \* an answer too large for one, or an "explanation" with a detail
             \* too long for its encoder

vars == <<stream, hashed, asked, heard, told, learnt, client, server, greeted, bound, helloDone,
          net, own>>

Ends == {"server", "client"}

Init ==
  /\ stream = [e \in Ends |-> << >>]
  /\ hashed = << >>
  /\ asked = << >> /\ heard = << >> /\ told = << >> /\ learnt = << >>
  /\ client = "ready"
  /\ server = "serving"
  /\ greeted = FALSE /\ bound = FALSE /\ helloDone = FALSE
  /\ net = "fine"
  /\ own = "nothing"

-----------------------------------------------------------------------------
(* Frames. *)

\* The nine fields of a header are 78 bytes; the digest covers the first
\* eight, and the payload.
HeaderSize == 78
Covered(header, payload) == SubSeq(header, 1, 8) \o payload

TypeCode(type) == CHOOSE i \in DOMAIN MessageTypes : MessageTypes[i] = type

Header(type, length, digest) ==
  <<Cell(4, 1), Cell(2, 1), Cell(2, TypeCode(type)), Cell(2, 0), Cell(4, length),
    Cell(8, 0), Cell(8, 0), Cell(16, 0), Cell(32, digest)>>

\* The limits a payload of this type has to meet, for the writer and for the
\* reader.
Fits(type, length) ==
  /\ length <= MaxFramePayload
  /\ type \in Requests => length <= MaxRequestSize

\* encode_frame: whether it accepts a message, what its digest covers, and
\* the frame.  A message is its type, its record and its payload's bytes.
CanFrame(msg) == Fits(msg.type, Size(msg.payload))

HeaderOf(msg) == Header(msg.type, Size(msg.payload), Len(hashed) + 1)

Hashed(msg) == Append(hashed, Covered(HeaderOf(msg), msg.payload))

Frame(msg) == HeaderOf(msg) \o msg.payload

-----------------------------------------------------------------------------
(* Reading.  Bytes are taken from the stream without regard to the fields    *)
(* they were written as; a field that is cut in two is no field any more.    *)

RECURSIVE Bytes(_, _), After(_, _)

\* The first n bytes of a stream, and the stream after them.
Bytes(n, cells) ==
  CASE cells = << >> -> << >>
    [] Head(cells).w <= n -> <<Head(cells)>> \o Bytes(n - Head(cells).w, Tail(cells))
    [] OTHER -> IF n = 0 THEN << >> ELSE <<Cell(n, 0)>>

After(n, cells) ==
  CASE cells = << >> -> << >>
    [] Head(cells).w <= n -> After(n - Head(cells).w, Tail(cells))
    [] OTHER -> IF n = 0 THEN cells ELSE <<Cell(Head(cells).w - n, 0)>> \o Tail(cells)

\* The bytes are where a header was written.
IsHeader(cells) ==
  /\ Len(cells) = 9
  /\ \A i \in 1..9 : cells[i].w = Header("Hello", 0, 0)[i].w

\* decode_frame_header.
HeaderAccepted(h) ==
  /\ IsHeader(h)
  /\ h[1].v = 1 /\ h[2].v = 1
  /\ h[3].v \in DOMAIN MessageTypes
  /\ h[4].v = 0
  /\ Fits(MessageTypes[h[3].v], h[5].v)

\* A fault of DigestMatches: the digest is not compared.
DigestIgnored(h, payload) == TRUE

\* The digest is compared with one computed over the bytes received.
DigestMatches(h, payload) ==
  h[9].v \in DOMAIN hashed /\ hashed[h[9].v] = Covered(h, payload)

\* peek_payload_length: any number when the bytes are not a header; one that
\* is too large, one that leaves the rest of the stream where it is, and one
\* that shifts it by a byte stand for them.
Lengths(h) == IF IsHeader(h) THEN {h[5].v} ELSE {0, 1, MaxFramePayload + 1}

\* What reading a frame comes to: nothing yet, the peer's clean end, a frame,
\* or a refusal; and what is left of the stream.
Reading(s, closed, n) ==
  LET h == Bytes(HeaderSize, s)
      payload == Bytes(n, After(HeaderSize, s))
      rest == After(HeaderSize + n, s)
  IN CASE s = << >> -> [what |-> IF closed THEN "end" ELSE "wait", rest |-> s]
       [] Size(s) < HeaderSize -> [what |-> IF closed THEN "refuse" ELSE "stall", rest |-> << >>]
       [] n > MaxFramePayload -> [what |-> "refuse", rest |-> After(HeaderSize, s)]
       [] Size(s) < HeaderSize + n ->
            [what |-> IF closed THEN "refuse" ELSE "stall", rest |-> << >>]
       [] ~HeaderAccepted(h) \/ ~DigestMatches(h, payload) -> [what |-> "refuse", rest |-> rest]
       [] OTHER -> [what |-> "frame", type |-> MessageTypes[h[3].v], payload |-> payload, rest |-> rest]

Readings(s, closed) ==
  {Reading(s, closed, n) : n \in Lengths(Bytes(HeaderSize, s))}

-----------------------------------------------------------------------------
(* The messages that are tried: for every type a plain one, the fullest, and *)
(* the plain one with one field changed.                                     *)

RECURSIVE Least(_), Fullest(_)

LeastOf(layout) == [i \in DOMAIN layout |-> Least(layout[i])]
FullestOf(layout) == [i \in DOMAIN layout |-> Fullest(layout[i])]

Least(f) ==
  CASE f.kind = "num" -> 1
    [] f.kind = "code" -> CHOOSE v \in f.writes : \A w \in f.writes : v <= w
    [] f.kind = "text" -> <<1, 1>>
    [] OTHER -> << >>

\* Scopes are numbered so that they rise; other rows are alike, and at most
\* two of them, which is all that a full table of the small instance holds.
Fullest(f) ==
  CASE f.kind = "num" -> 2
    [] f.kind = "code" -> CHOOSE v \in f.writes : \A w \in f.writes : v >= w
    [] f.kind = "text" -> <<f.max, 2>>
    [] f.kind = "option" -> <<3>>
    [] f.kind = "rows" ->
         [i \in 1..(IF f.max < 2 THEN f.max ELSE 2) |->
            IF f.rising THEN <<5, <<128, i>>>> ELSE FullestOf(f.row)]

\* What a field is changed to.
Changes(f) ==
  CASE f.kind = "text" -> {<<f.min, 1>>, <<f.max, 2>>}
    [] f.kind = "code" -> f.writes
    [] OTHER -> {Fullest(f)}

RECURSIVE Excess(_)

\* What the encoder of a field writes and its decoder refuses.
Excess(f) ==
  CASE f.kind = "text" -> {<<n, 2>> : n \in f.excess}
    [] f.kind = "rows" ->
         {[i \in 1..n |-> <<5, <<128, i>>>>] : n \in f.excess}
           \cup UNION {{<<[LeastOf(f.row) EXCEPT ![j] = v]>> : v \in Excess(f.row[j])} :
                         j \in DOMAIN f.row}
    [] OTHER -> {}

\* The content of a message, and the message with its bytes.
Content(msg) == [type |-> msg.type, record |-> msg.record]

Message(type, record) ==
  [type |-> type, record |-> record, payload |-> PutAll(Payload[type], record)]

Plain == [type \in DOMAIN Payload |-> Message(type, LeastOf(Payload[type]))]

Messages ==
  [type \in DOMAIN Payload |->
     {Plain[type], Message(type, FullestOf(Payload[type]))}
       \cup UNION {{Message(type, [Plain[type].record EXCEPT ![i] = v]) :
                       v \in Changes(Payload[type][i])} : i \in DOMAIN Payload[type]}]

\* The plain message with one field its decoder refuses.
Excessive ==
  [type \in DOMAIN Payload |->
     UNION {{Message(type, [Plain[type].record EXCEPT ![i] = v]) :
                v \in Excess(Payload[type][i])} : i \in DOMAIN Payload[type]}]

IsPlain(content) == content.record = Plain[content.type].record

\* Bound: damage, further requests and varied answers are tried only as long
\* as every message so far is the least of its type.
AllPlain == /\ \A i \in DOMAIN asked : IsPlain(asked[i])
            /\ \A i \in DOMAIN told : IsPlain(told[i].msg)

-----------------------------------------------------------------------------
(* The client. *)

Ask(msg) ==
  /\ client = "ready"
  /\ net # "cut"
  /\ Len(asked) < MaxAsked
  /\ AllPlain
  /\ msg.type = "Hello" \/ helloDone
  /\ CanFrame(msg)
  /\ hashed' = Hashed(msg)
  /\ stream' = [stream EXCEPT !["server"] = @ \o Frame(msg)]
  /\ asked' = Append(asked, Content(msg))
  /\ client' = IF msg.type = "Shutdown" THEN "closed" ELSE "waiting"
  /\ UNCHANGED <<heard, told, learnt, server, greeted, bound, helloDone, net, own>>

\* close(), or the process ends.
Leave ==
  /\ client = "ready"
  /\ client' = "closed"
  /\ UNCHANGED <<stream, hashed, asked, heard, told, learnt, server, greeted, bound, helloDone,
                 net, own>>

\* What a query for an unknown participant is answered.
Unknown == Content(Plain["Error"])

\* What a call makes of a frame: the answer, if it has the expected type and
\* decodes, or none.  A query takes any ERROR for "unknown participant".
Learning(type, r) ==
  CASE r.what = "frame" /\ r.type = AnswerTo[type] -> Decode(Payload[r.type], r.payload)
    [] r.what = "frame" /\ r.type = "Error" /\ type = "QueryParticipant" -> Got(Unknown.record, << >>)
    [] OTHER -> Refused

\* receive and what the call makes of it.  A refused answer ends the call and
\* leaves the connection as it is; there is no receive timeout.  After the end
\* of the stream further calls cannot reach anyone.
ClientRead ==
  /\ client = "waiting"
  /\ \E r \in Readings(stream["client"], server # "serving" \/ net = "cut") :
       /\ r.what \in {"end", "refuse", "frame"}
       /\ stream' = [stream EXCEPT !["client"] = r.rest]
       /\ client' = IF r.what = "end" THEN "closed" ELSE "ready"
       /\ \E d \in {Learning(Last(asked).type, r)} :
            IF d.ok
              THEN /\ learnt' = Append(learnt, [to |-> Len(asked),
                                               msg |-> [type |-> r.type, record |-> d.got]])
                   /\ helloDone' = (helloDone \/ r.type = "HelloAck")
              ELSE UNCHANGED <<learnt, helloDone>>
  /\ UNCHANGED <<hashed, asked, heard, told, server, greeted, bound, net, own>>

\* One turn of wait_for_disconnect: a frame is read and dropped; the end of the
\* stream, or an error, ends the wait, and the former closes the socket.
WaitForDisconnect ==
  /\ client = "ready"
  /\ \E r \in Readings(stream["client"], server # "serving" \/ net = "cut") :
       /\ r.what \in {"end", "refuse", "frame"}
       /\ stream' = [stream EXCEPT !["client"] = r.rest]
       /\ client' = IF r.what = "end" THEN "closed" ELSE "ready"
  /\ UNCHANGED <<hashed, asked, heard, told, learnt, server, greeted, bound, helloDone, net, own>>

-----------------------------------------------------------------------------
(* The server's session. *)

\* A fault of EndInViolation: the error is lost and the session goes on.
GoOnSilently(rest) ==
  /\ stream' = [stream EXCEPT !["server"] = rest]
  /\ UNCHANGED <<server, hashed>>

\* The session ends; the peer is told with an ERROR frame if it can be.
EndInViolation(rest) ==
  /\ server' = "violation"
  /\ hashed' = Hashed(Plain["Error"])
  /\ stream' = [server |-> rest,
                client |-> stream["client"] \o (IF net = "cut" THEN << >> ELSE Frame(Plain["Error"]))]

\* After an exception that is no EpochError the peer is not told.
EndUntold(rest) ==
  /\ server' = "violation"
  /\ stream' = [stream EXCEPT !["server"] = rest]
  /\ UNCHANGED hashed

\* The runtime's answers to a request, which keep to the decoders' bounds; a
\* participant may be unknown, and options.product_version is as long as it is.
Answers(type) ==
  Messages[AnswerTo[type]]
    \cup (IF type = "QueryParticipant" THEN {Plain["Error"]} ELSE {})
    \cup (IF type = "Hello" THEN Excessive["HelloAck"] ELSE {})

\* Registered and Idempotent bind the session.
Binds(msg) == msg.type = "RegisterAck" /\ msg.record[1] \in {0, 1}

\* An accepted request is answered if the answer fits a frame.  On a broken
\* connection the answer is lost, or sending it fails.
Tell(msg, rest) ==
  /\ CanFrame(msg)
  /\ hashed' = Hashed(msg)
  /\ stream' = [server |-> rest,
                client |-> stream["client"] \o (IF net = "cut" THEN << >> ELSE Frame(msg))]
  /\ told' = Append(told, [to |-> Len(heard) + 1, msg |-> Content(msg)])
  /\ UNCHANGED <<server, own>>

\* write_frame throws; write_error, which says that a participant is unknown,
\* never does.
CannotTell(msg, rest) ==
  /\ msg.type # "Error"
  /\ ~CanFrame(msg) \/ net = "cut"
  /\ own' = IF CanFrame(msg) THEN own ELSE "frame"
  /\ EndInViolation(rest)
  /\ UNCHANGED told

Answer(type, rest) ==
  \E msg \in Answers(type) :
    /\ AllPlain \/ IsPlain(msg)
    /\ bound' = (bound \/ Binds(msg))
    /\ Tell(msg, rest) \/ CannotTell(msg, rest)

\* The answers that end in an explanation.
Explained == {type \in DOMAIN Payload : Last(Payload[type]) = Last(Explanation)}

\* The runtime throws, the incarnation it registered is not current any more or
\* its boot has a session when the session is bound to it, or the answer is
\* explained in more than its encoder writes, as by all the scopes registered.
FailToAnswer(type, rest) ==
  /\ \/ own' = "runtime" /\ (EndInViolation(rest) \/ EndUntold(rest))
     \/ type = "RegisterParticipant" /\ own' = "binding" /\ EndInViolation(rest)
     \/ AnswerTo[type] \in Explained /\ own' = "explanation" /\ EndInViolation(rest)
  /\ UNCHANGED <<told, bound>>

\* What serve refuses about a frame, besides what its decoder refuses.
Unexpected(type, d) ==
  \/ ~greeted /\ type # "Hello"
  \/ type \notin Requests
  \/ type = "RegisterParticipant" /\ bound
  \/ ~d.ok
  \/ type = "Hello" /\ d.ok /\ d.got[3][1] = 0

Refuse(type, d, rest) ==
  /\ type # "Shutdown" \/ ~greeted
  /\ Unexpected(type, d)
  /\ EndInViolation(rest)
  /\ UNCHANGED <<heard, told, greeted, bound, own>>

Serve(type, d, rest) ==
  /\ ~Unexpected(type, d)
  /\ heard' = Append(heard, [type |-> type, record |-> d.got])
  /\ greeted' = (greeted \/ type = "Hello")
  /\ Answer(type, rest) \/ (type # "Hello" /\ FailToAnswer(type, rest))

\* A shutdown's payload is not looked at.
ShutDown(type, rest) ==
  /\ type = "Shutdown" /\ greeted
  /\ server' = "stopped"
  /\ heard' = Append(heard, Content(Plain["Shutdown"]))
  /\ stream' = [stream EXCEPT !["server"] = rest]
  /\ UNCHANGED <<hashed, told, greeted, bound, own>>

\* The coordinator stops; a session notices between two frames.
Stop ==
  /\ server = "serving"
  /\ server' = "stopped"
  /\ UNCHANGED <<stream, hashed, asked, heard, told, learnt, client, greeted, bound, helloDone,
                 net, own>>

\* read_frame, then the frame.  A peer that stops in the middle of a frame has
\* used up the receive budget when the server gives up on it.
ServerRead ==
  /\ server = "serving"
  /\ \E r \in Readings(stream["server"], client = "closed" \/ net = "cut") :
       \/ /\ r.what = "end"
          /\ server' = "left"
          /\ UNCHANGED <<stream, hashed, heard, told, greeted, bound, own>>
       \/ /\ r.what \in {"refuse", "stall"}
          /\ EndInViolation(r.rest)
          /\ UNCHANGED <<heard, told, greeted, bound, own>>
       \/ /\ r.what = "frame"
          /\ \E d \in {Decode(Payload[r.type], r.payload)} :
               \/ ShutDown(r.type, r.rest)
               \/ Refuse(r.type, d, r.rest)
               \/ Serve(r.type, d, r.rest)
  /\ UNCHANGED <<asked, learnt, client, helloDone, net>>

-----------------------------------------------------------------------------
(* The network.  One thing happens to it at most. *)

\* The connection breaks; n bytes of those on the way still arrive.
Cut(e, n) ==
  /\ net = "fine"
  /\ AllPlain
  /\ net' = "cut"
  /\ stream' = [stream EXCEPT ![e] = Bytes(n, @)]
  /\ UNCHANGED <<hashed, asked, heard, told, learnt, client, server, greeted, bound, helloDone, own>>

\* The declared length of a frame stands before its 8, 8, 16 and 32 bytes.
IsLength(cells, i) == cells[i].w = 4 /\ i + 4 <= Len(cells) /\ cells[i + 4].w = 32

\* The bytes of one field change.
Alter(e, i, v) ==
  /\ MayAlter
  /\ net = "fine"
  /\ AllPlain
  /\ stream[e][i].w > 0
  /\ v # stream[e][i].v
  /\ net' = IF IsLength(stream[e], i) THEN "length" ELSE "altered"
  /\ stream' = [stream EXCEPT ![e][i].v = v]
  /\ UNCHANGED <<hashed, asked, heard, told, learnt, client, server, greeted, bound, helloDone, own>>

-----------------------------------------------------------------------------

Next ==
  \/ \E type \in Questions : \E msg \in Messages[type] \cup Excessive[type] : Ask(msg)
  \/ Leave
  \/ ClientRead
  \/ WaitForDisconnect
  \/ ServerRead
  \/ Stop
  \/ \E e \in Ends : \E n \in {0, 1, HeaderSize, Size(stream[e]) - 1} :
       n >= 0 /\ n < Size(stream[e]) /\ Cut(e, n)
  \/ \E e \in Ends : \E i \in DOMAIN stream[e] :
       \E v \in {0, stream[e][i].v + 1, MaxFramePayload + 1} : Alter(e, i, v)

Spec == Init /\ [][Next]_vars

-----------------------------------------------------------------------------
(* Properties. *)

\* The server acts on exactly what clients asked, in order, whatever happens
\* to the bytes: read_frame, the integrity digest and the decoders together
\* let no altered, cut or shifted request through.
HeardWasAsked ==
  /\ Len(heard) <= Len(asked)
  /\ \A i \in DOMAIN heard : heard[i] = asked[i]

\* An answer a call returns is one the server gave, with the content it gave
\* it, and to that very request, although the client never compares request
\* identifiers and keeps a connection whose last answer it refused.  Only a
\* changed length can shift the stream to where a later call takes an earlier
\* answer; and a query reports an unknown participant also when the session
\* ended in a violation.
AnswersPair ==
  \A i \in DOMAIN learnt :
    \/ \E j \in DOMAIN told : /\ learnt[i].msg = told[j].msg
                              /\ net # "length" => learnt[i].to = told[j].to
    \/ learnt[i].msg = Unknown /\ server = "violation"

\* The fields of requests that hold an identifier.
NamesOf ==
  [Hello |-> {}, RegisterParticipant |-> {3}, FenceWorker |-> {3}, ValidateAuthority |-> {2, 7},
   AdvanceEpoch |-> {}, EpochStateRequest |-> {}, RevokeAuthority |-> {}, QueryParticipant |-> {1},
   SnapshotRequest |-> {}, ExplainRequest |-> {1}, RetireParticipant |-> {3}, Shutdown |-> {}]

\* What a caller of the client can ask for that client and encoders let pass: a
\* greeting without a role, with one of more than 32 characters or a version of
\* more than 64, an identifier or a scope without a value, too many scopes.
Improper(m) ==
  \/ m.type = "Hello" /\ (m.record[2][1] > 64 \/ m.record[3][1] \notin 1..32)
  \/ m.type = "RegisterParticipant"
       /\ (Len(m.record[5]) > MaxScopes \/ \E i \in DOMAIN m.record[5] : m.record[5][i][2][1] = 0)
  \/ \E i \in NamesOf[m.type] : m.record[i][1] = 0

\* A session ends in a protocol violation, which fences its worker, only for
\* one of these reasons: the connection was damaged, the client was asked for
\* something improper or to register twice, or something failed at the
\* coordinator itself, such as an answer that did not fit a frame.  Any other
\* request a client can frame passes the server's decoders.
Blame ==
  server = "violation" =>
    \/ net # "fine"
    \/ own # "nothing"
    \/ \E i \in DOMAIN asked : Improper(asked[i])
    \/ bound /\ \E i, j \in DOMAIN asked : i < j /\ asked[i].type = "RegisterParticipant"
                                                /\ asked[j].type = "RegisterParticipant"

\* On an undamaged connection no answer of a serving coordinator is refused:
\* when the client is ready again, it has learnt every answer it was given.  Only
\* a greeting is answered in vain, by a coordinator whose product version has
\* more than 64 characters.
NothingRefused ==
  net = "fine" /\ client = "ready" /\ server = "serving" =>
    {learnt[i] : i \in DOMAIN learnt} =
      {told[j] : j \in {k \in DOMAIN told :
                          told[k].msg.type = "HelloAck" => told[k].msg.record[4][1] <= 64}}

\* A call the client waits in always has a next step: an answer or the end of
\* the connection to read, or a request the server has yet to read.  The
\* client sets no receive timeout, so every refusal, every break and every
\* answer too large to send must reach it.  Altered bytes are excepted: a
\* length raised on the way makes it wait for bytes nobody sends.
NobodyWaitsForNobody ==
  client = "waiting" /\ net \notin {"altered", "length"} =>
    \/ \E r \in Readings(stream["client"], server # "serving" \/ net = "cut") :
         r.what \notin {"wait", "stall"}
    \/ /\ server = "serving"
       /\ \E r \in Readings(stream["server"], net = "cut") : r.what # "wait"

=============================================================================
