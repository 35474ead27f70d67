----------------------------- MODULE FrameStream -----------------------------
(***************************************************************************)
(* SoupBinTCP framing (include/soupbin.hpp) over a byte stream: TCP hands  *)
(* the reader the bytes in pieces of any size, FrameReader puts the frames *)
(* together again, the codecs of Codecs turn them into messages.           *)
(*                                                                         *)
(* One channel, of one of the kinds the program has: "orders"              *)
(* (read_session of src/exchange.cpp), "reports" (connect_order_entry and  *)
(* read_oe of src/trader.cpp) and "snapshot" (snapshot of src/trader.cpp), *)
(* or "feed", where the messages come in one MoldUDP64 datagram instead.   *)
(* script is what the peer sends, frame by frame; got what was handled.    *)
(***************************************************************************)
EXTENDS Codecs

LOCAL SX == INSTANCE SequencesExt

CONSTANTS MaxFrame,  \* kMaxFrame
          BufSize,   \* kBufSize
          Scripts,   \* the connections: [chan, frames]
          Chunks     \* the pieces TCP delivers, besides "all there is"

ASSUME FrameAssumption ==
  /\ MaxFrame \in Nat \ {0}
  /\ BufSize \in Nat
  /\ BufSize > 2 * (MaxFrame + 3)

VARIABLES chan, script,
          todo,   \* the bytes not yet sent, in the segments they are sent in
          net,    \* bytes sent and not yet received
          eof,    \* the peer has closed, or is gone
          lost,   \* ... and bytes were lost with it
          buf,    \* FrameReader::buf_, up to wr_
          rd,     \* FrameReader::rd_
          busy,   \* between a recv and the next: frames are being handled
          phase,  \* "login", "session", "closing" (close_after_flush), "done"; "ended" when
                  \* recv returned 0, "failed" after an error
          got     \* the frames handled, with the message decoded from each
vars == <<chan, script, todo, net, eof, lost, buf, rd, busy, phase, got>>

\* Packet types: 'L' 'A' 'J' 'S' 'U' 'H' 'R' 'Z' 'O'.
LoginReq == 76
Accept == 65
Reject == 74
Sequenced == 83
Unsequenced == 85
ServerBeat == 72
ClientBeat == 82
EndSession == 90
Logout == 79

FrameItem(type, msg) == [type |-> type, msg |-> msg]
Empty == [type |-> 1]
----------------------------------------------------------------------------
(* What the peer puts on the stream. *)

Body(c, x) ==
  CASE x.type = LoginReq -> Encode(LoginRequest, x.msg)
    [] x.type = Accept -> Encode(LoginAccepted, x.msg)
    [] x.type = Reject -> <<65>>
    [] x.type = Unsequenced -> Encode(OuchWrite[x.msg.type], x.msg)
    [] x.type = Sequenced /\ c = "reports" -> Encode(OuchWrite[x.msg.type], x.msg)
    [] x.type = Sequenced /\ c \in {"snapshot", "feed"} -> Encode(ItchWrite[x.msg.type], x.msg)
    [] OTHER -> << >>

\* write_frame, append_frame: the length counts the type byte and the payload.
WriteFrame(type, payload) ==
  IF Len(payload) + 1 > MaxFrame THEN << >>
  ELSE PutInt(Len(payload) + 1, 2) \o <<type>> \o payload

StreamOf(c, frames) ==
  LET bytes[k \in 0 .. Len(frames)] ==
        IF k = 0 THEN << >> ELSE bytes[k - 1] \o WriteFrame(frames[k].type, Body(c, frames[k]))
  IN  bytes[Len(frames)]

\* MarketDataFeed::flush: the whole script as one packet, numbered from 1.
PacketOf(frames) == Packet(<<80, 70>>, 1, [k \in DOMAIN frames |-> Body("feed", frames[k])])

\* The reply to the login, or the login, comes first; the rest is sent once the
\* login has been answered.  A heartbeat does not wait for it.
Greeting(frames) == IF Len(frames) > 1 /\ frames[2].type = ServerBeat THEN 2 ELSE 1

Segments(c, frames) ==
  CASE c = "feed" -> <<PacketOf(frames)>>
    [] c = "snapshot" -> <<StreamOf(c, frames)>>
    [] OTHER -> LET n == Greeting(frames)
                IN  <<StreamOf(c, SubSeq(frames, 1, n)), StreamOf(c, SubSeq(frames, n + 1, Len(frames)))>>

Init ==
  /\ \E s \in Scripts :
       /\ chan = s.chan
       /\ script = s.frames
       /\ todo = Segments(s.chan, s.frames)
  /\ net = << >>
  /\ eof = FALSE
  /\ lost = FALSE
  /\ buf = << >>
  /\ rd = 0
  /\ busy = FALSE
  /\ phase = IF chan \in {"snapshot", "feed"} THEN "session" ELSE "login"
  /\ got = << >>

Send ==
  /\ ~eof
  /\ todo # << >>
  /\ phase = "login" => Len(todo) = 2
  /\ net' = net \o Head(todo)
  /\ todo' = Tail(todo)
  /\ UNCHANGED <<chan, script, eof, lost, buf, rd, busy, phase, got>>

\* The peer closes the connection when all is sent, or it dies: what is on the
\* way still arrives, or is lost with it.
PeerCloses ==
  /\ ~eof
  /\ eof' = TRUE
  /\ \/ todo = << >> /\ UNCHANGED <<net, lost>>
     \/ net' \in {net, << >>} /\ lost' = TRUE
  /\ UNCHANGED <<chan, script, todo, buf, rd, busy, phase, got>>
----------------------------------------------------------------------------
(* FrameReader.  A reader is a record of buf_[0 .. wr_) and rd_. *)

\* Faulty variant: the tail is never moved.
SlideNever(r) == r

\* write_ptr: slide the unparsed tail to the front once a frame of maximum size
\* no longer fits behind it.
WritePtr(r) ==
  IF BufSize - Len(r.buf) < MaxFrame + 3 /\ r.rd > 0
  THEN [buf |-> SubSeq(r.buf, r.rd + 1, Len(r.buf)), rd |-> 0]
  ELSE r

WriteSpace(r) == BufSize - Len(r.buf)
Commit(r, bytes) == [r EXCEPT !.buf = @ \o bytes]

FrameLen(r) == GetInt(SubSeq(r.buf, r.rd + 1, r.rd + 2), 0)

\* next: whether a whole frame is there ...
Status(r) ==
  LET avail == Len(r.buf) - r.rd
  IN  CASE avail < 2 -> "NeedMore"
        [] avail >= 2 /\ FrameLen(r) \notin 1 .. MaxFrame -> "Error"
        [] avail >= 2 /\ FrameLen(r) \in 1 .. MaxFrame /\ avail < 2 + FrameLen(r) -> "NeedMore"
        [] OTHER -> "Frame"

\* ... which one ...
FrameType(r) == r.buf[r.rd + 3]
Payload(r) == SubSeq(r.buf, r.rd + 4, r.rd + 2 + FrameLen(r))

\* ... and the reader after it, rewound when nothing is left.
AfterFrame(r) ==
  LET end == r.rd + 2 + FrameLen(r)
  IN  IF end = Len(r.buf) THEN [buf |-> << >>, rd |-> 0] ELSE [r EXCEPT !.rd = end]
----------------------------------------------------------------------------
(* The handlers: what was handled, and the phase after it. *)

Message(c, type, payload) ==
  CASE type = LoginReq -> DecodeLogin(LoginRequest, payload)
    [] type = Accept -> DecodeLogin(LoginAccepted, payload)
    [] type = Unsequenced -> DecodeInbound(payload)
    [] type = Sequenced /\ c = "reports" -> DecodeOutbound(payload)
    [] type = Sequenced /\ c \in {"snapshot", "feed"} -> DecodeItch(payload)
    [] OTHER -> Empty

\* handle_frame, handle_login.
PhaseOrders(ph, type, msg) ==
  CASE type = LoginReq /\ (ph # "login" \/ msg = None) -> "closing"
    [] type = LoginReq /\ ph = "login" /\ msg # None -> IF msg.username = << >> THEN "closing" ELSE "session"
    [] type = Unsequenced /\ ph = "login" -> "failed"
    [] type = Logout -> "closing"
    [] OTHER -> ph

\* connect_order_entry: any other answer is taken for a refusal.
PhaseLogin(type) == IF type = Accept THEN "session" ELSE "failed"

\* handle_oe_frame.
PhaseReports(ph, type) ==
  CASE ph = "login" -> PhaseLogin(type)
    [] ph # "login" /\ type = EndSession -> "closing"
    [] OTHER -> ph

\* snapshot: the end of the snapshot ends the wait.
PhaseSnapshot(ph, type, msg) ==
  CASE type = Reject -> "failed"
    [] type = Sequenced /\ msg # None -> IF msg.type = 71 THEN "done" ELSE ph
    [] OTHER -> ph

PhaseAfter(c, ph, type, msg) ==
  CASE c = "orders" -> PhaseOrders(ph, type, msg)
    [] c = "reports" -> PhaseReports(ph, type)
    [] c = "snapshot" -> PhaseSnapshot(ph, type, msg)
----------------------------------------------------------------------------
(* The read loops. *)

Reader1 == [buf |-> buf, rd |-> rd]
Reading == phase \in {"login", "session", "closing"}
Ready == Reading /\ ~busy /\ chan # "feed"

\* What write_space returns.  read_session asks write_ptr for the place first;
\* the trader's three calls have both as arguments of recv, and which of them is
\* evaluated first is the compiler's choice.
Rooms ==
  {WriteSpace(WritePtr(Reader1))}
    \cup (IF chan = "orders" THEN {} ELSE {WriteSpace(Reader1)})

Pieces(room) == {k \in Chunks \cup {Len(net), room} : k \in 1 .. Len(net) /\ k <= room}

\* recv returned n > 0 bytes; commit.
Recv ==
  /\ Ready
  /\ \E room \in Rooms : \E n \in Pieces(room) :
       LET r == Commit(WritePtr(Reader1), SubSeq(net, 1, n))
       IN  /\ net' = SubSeq(net, n + 1, Len(net))
           /\ buf' = r.buf
           /\ rd' = r.rd
  /\ busy' = TRUE
  /\ UNCHANGED <<chan, script, todo, eof, lost, phase, got>>

\* Faulty variant: one frame for every recv.
HandleFrameOnce ==
  /\ busy
  /\ Status(Reader1) = "Frame"
  /\ \E type \in {FrameType(Reader1)}, payload \in {Payload(Reader1)} :
     \E msg \in {Message(chan, type, payload)} :
         /\ got' = Append(got, FrameItem(type, msg))
         /\ phase' = PhaseAfter(chan, phase, type, msg)
         /\ busy' = FALSE
  /\ buf' = AfterFrame(Reader1).buf
  /\ rd' = AfterFrame(Reader1).rd
  /\ UNCHANGED <<chan, script, todo, net, eof, lost>>

\* One turn of the loop around next().  While the login is awaited,
\* connect_order_entry takes a single frame for a recv.
HandleFrame ==
  /\ busy
  /\ Status(Reader1) = "Frame"
  /\ \E type \in {FrameType(Reader1)}, payload \in {Payload(Reader1)} :
     \E msg \in {Message(chan, type, payload)} :
         /\ got' = Append(got, FrameItem(type, msg))
         /\ phase' = PhaseAfter(chan, phase, type, msg)
         /\ busy' = (phase' # "failed" /\ (chan = "reports" => phase # "login"))
  /\ buf' = AfterFrame(Reader1).buf
  /\ rd' = AfterFrame(Reader1).rd
  /\ UNCHANGED <<chan, script, todo, net, eof, lost>>

\* No whole frame is left: back to recv.  A framing error ends a session;
\* connect_order_entry and snapshot read on.
NeedMore ==
  /\ busy
  /\ Status(Reader1) # "Frame"
  /\ busy' = FALSE
  /\ phase' = IF Status(Reader1) = "Error" /\ chan # "snapshot" /\ (chan = "reports" => phase # "login")
              THEN "failed" ELSE phase
  /\ UNCHANGED <<chan, script, todo, net, eof, lost, buf, rd, got>>

\* recv returned 0: the peer has closed and everything was read, or there was no
\* room to read into (read_session looks before it asks).
RecvZero ==
  /\ Ready
  /\ \/ eof /\ net = << >>
     \/ net # << >> /\ 0 \in Rooms
  /\ phase' = "ended"
  /\ UNCHANGED <<chan, script, todo, net, eof, lost, buf, rd, busy, got>>

\* handle_packet: the datagram arrives whole.
RecvPacket ==
  /\ Reading
  /\ chan = "feed"
  /\ net # << >>
  /\ LET msgs == Unpack(net).msgs
     IN  got' = got \o [k \in DOMAIN msgs |-> FrameItem(Sequenced, Message(chan, Sequenced, msgs[k][2]))]
  /\ net' = << >>
  /\ phase' = "done"
  /\ UNCHANGED <<chan, script, todo, eof, lost, buf, rd, busy>>

\* The exchange closes the session once its last frame is flushed; the trader
\* leaves its loop when it was told that the session ends.
Close ==
  /\ ~busy
  /\ phase = "closing"
  /\ phase' = "done"
  /\ UNCHANGED <<chan, script, todo, net, eof, lost, buf, rd, busy, got>>

Over ==
  /\ ~busy
  /\ ~Reading \/ chan = "feed"
  /\ eof
  /\ UNCHANGED vars

Next == Send \/ PeerCloses \/ Recv \/ HandleFrame \/ NeedMore \/ RecvZero \/ RecvPacket \/ Close \/ Over

\* A peer sends what it has to send; the event loop comes back to a socket that
\* has bytes.  Nothing is promised of a datagram.
Fairness == WF_vars(Send) /\ WF_vars(Recv \/ HandleFrame \/ NeedMore)

Spec == Init /\ [][Next]_vars /\ Fairness
----------------------------------------------------------------------------
(* Properties. *)

\* The frame reader holds at most its buffer, and reads within what it holds.
TypeOK ==
  /\ Len(buf) <= BufSize
  /\ rd \in 0 .. Len(buf)
  /\ rd = Len(buf) => rd = 0
  /\ phase \in {"login", "session", "closing", "done", "ended", "failed"}
  /\ {eof, lost, busy} \subseteq BOOLEAN

\* However the stream is cut into pieces, the reader handles exactly the frames
\* that were sent, in order, each with the message that was encoded: what it has
\* handled, what it still holds and what is on the way are the script, and it never
\* holds more than its buffer (TypeOK).
Reassembled ==
  /\ TypeOK
  /\ got = SubSeq(script, 1, Len(got))
  /\ ~lost /\ chan # "feed" =>
       SubSeq(buf, rd + 1, Len(buf)) \o net \o SX!FlattenSeq(todo)
         = StreamOf(chan, SubSeq(script, Len(got) + 1, Len(script)))

\* A session of the exchange ends only because the peer closed it, because of a
\* logout, or because of a login it refused: never for want of room in the buffer
\* (the room = 0 test of read_session) and never because of the framing.
SessionEndsForAReason ==
  chan = "orders" /\ phase \in {"ended", "failed"} => eof /\ net = << >>

\* The same of every reader, the trader's included: recv returning 0 is taken for
\* the end of the connection ("connection ended early", "exchange closed the order
\* entry connection"), and it is.
EndsOnlyAtEof == phase = "ended" => eof /\ net = << >>

\* A message or a packet cut short, or a message with a byte too many, is never
\* half applied: its decoder refuses it (itch.hpp, "a truncated or corrupt message
\* must never be half-applied to the book"); of a packet only whole messages are
\* taken, and for_each_message tells that some are missing.
WholeMessagesOnly ==
  /\ \A x \in {got[k] : k \in DOMAIN got} : x.type \in {LoginReq, Accept, Sequenced, Unsequenced} =>
       LET b == Body(chan, x)
       IN  /\ \A k \in 0 .. Len(b) - 1 : Message(chan, x.type, SubSeq(b, 1, k)) = None
           /\ Message(chan, x.type, Append(b, 0)) = None
  /\ chan = "feed" => \A k \in 0 .. Len(net) - 1 :
       LET u == Unpack(SubSeq(net, 1, k))
       IN  ~u.ok /\ u.msgs = SubSeq(Unpack(net).msgs, 1, Len(u.msgs))

\* No frame waits in the buffer for bytes that need not come: while the peer lives
\* everything it sent is handled in the end, unless the reader stops.
Delivered == chan # "feed" => <>(got = script \/ eof \/ ~Reading)
============================================================================
