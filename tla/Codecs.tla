------------------------------- MODULE Codecs -------------------------------
(***************************************************************************)
(* The messages of the protocols: OUCH (include/ouch.hpp), ITCH and        *)
(* MoldUDP64 (include/itch.hpp), and the logins of SoupBinTCP              *)
(* (include/soupbin.hpp).  Encoders and decoders are separate code, so     *)
(* each has its own table of layouts, by the byte that tells the type.     *)
(***************************************************************************)
EXTENDS Wire

U(name, width) == Field(name, "u", width)
Ch(name) == Field(name, "u", 1)
I64(name) == Field(name, "i", 8)
Bytes(name, width) == Field(name, "bytes", width)

\* Nothing was decoded (std::nullopt).
None == [type |-> 0]

Buy == 66
Sell == 83
ValidSide(m) == "side" \in DOMAIN m => m.side \in {Buy, Sell}
ValidTif(m) == "tif" \in DOMAIN m => m.tif \in {48, 51}

\* Faulty variant: a longer message than expected is accepted.
DecodeAsAtLeast(lens, layouts, b) ==
  IF b = << >> \/ b[1] \notin DOMAIN lens \/ Len(b) < lens[b[1]] \/ ~Readable(layouts[b[1]], b) THEN None
  ELSE LET m == Decode(layouts[b[1]], b) IN IF ValidSide(m) /\ ValidTif(m) THEN m ELSE None

\* The type byte chooses the layout; the length must be exact; side and time in
\* force must be legal.
DecodeAs(lens, layouts, b) ==
  IF b = << >> \/ b[1] \notin DOMAIN lens \/ Len(b) # lens[b[1]] \/ ~Readable(layouts[b[1]], b) THEN None
  ELSE LET m == Decode(layouts[b[1]], b) IN IF ValidSide(m) /\ ValidTif(m) THEN m ELSE None
----------------------------------------------------------------------------
(* OUCH.  79 'O' EnterOrder, 88 'X' CancelOrder; 65 'A' OrderAccepted,      *)
(* 69 'E' OrderExecuted, 67 'C' OrderCanceled, 74 'J' OrderRejected.        *)

OuchIn == {79, 88}
OuchOut == {65, 69, 67, 74}

OuchLen ==
  [t \in OuchIn \cup OuchOut |->
     CASE t = 79 -> 41 [] t = 88 -> 9 [] t = 65 -> 58 [] t = 69 -> 34 [] t = 67 -> 18 [] t = 74 -> 28]

OuchWrite ==
  [t \in OuchIn \cup OuchOut |->
     CASE t = 79 -> <<Ch("type"), U("user_ref", 4), Ch("side"), U("qty", 4), Bytes("symbol", 8),
                      I64("price"), Ch("tif"), Bytes("clordid", 14)>>
       [] t = 88 -> <<Ch("type"), U("user_ref", 4), U("qty", 4)>>
       [] t = 65 -> <<Ch("type"), U("timestamp", 8), U("user_ref", 4), Ch("side"), U("qty", 4),
                      Bytes("symbol", 8), I64("price"), Ch("tif"), U("order_ref", 8),
                      Bytes("clordid", 14), Ch("state")>>
       [] t = 69 -> <<Ch("type"), U("timestamp", 8), U("user_ref", 4), U("qty", 4), I64("price"),
                      Ch("liquidity"), U("match_number", 8)>>
       [] t = 67 -> <<Ch("type"), U("timestamp", 8), U("user_ref", 4), U("qty", 4), Ch("reason")>>
       [] t = 74 -> <<Ch("type"), U("timestamp", 8), U("user_ref", 4), Ch("reason"), Bytes("clordid", 14)>>]

OuchReadIn ==
  [t \in OuchIn |->
     CASE t = 79 -> <<Ch("type"), U("user_ref", 4), Ch("side"), U("qty", 4), Bytes("symbol", 8),
                      I64("price"), Ch("tif"), Bytes("clordid", 14)>>
       [] t = 88 -> <<Ch("type"), U("user_ref", 4), U("qty", 4)>>]

OuchReadOut ==
  [t \in OuchOut |->
     CASE t = 65 -> <<Ch("type"), U("timestamp", 8), U("user_ref", 4), Ch("side"), U("qty", 4),
                      Bytes("symbol", 8), I64("price"), Ch("tif"), U("order_ref", 8),
                      Bytes("clordid", 14), Ch("state")>>
       [] t = 69 -> <<Ch("type"), U("timestamp", 8), U("user_ref", 4), U("qty", 4), I64("price"),
                      Ch("liquidity"), U("match_number", 8)>>
       [] t = 67 -> <<Ch("type"), U("timestamp", 8), U("user_ref", 4), U("qty", 4), Ch("reason")>>
       [] t = 74 -> <<Ch("type"), U("timestamp", 8), U("user_ref", 4), Ch("reason"), Bytes("clordid", 14)>>]

DecodeInbound(b) == DecodeAs([t \in OuchIn |-> OuchLen[t]], OuchReadIn, b)
DecodeOutbound(b) == DecodeAs([t \in OuchOut |-> OuchLen[t]], OuchReadOut, b)
----------------------------------------------------------------------------
(* ITCH.  83 'S' SystemEvent, 82 'R' StockDirectory, 65 'A' AddOrder,       *)
(* 69 'E' OrderExecuted, 88 'X' OrderCancel, 68 'D' OrderDelete,            *)
(* 71 'G' EndOfSnapshot.                                                    *)

ItchTypes == {83, 82, 65, 69, 88, 68, 71}

ItchLen ==
  [t \in ItchTypes |->
     CASE t = 83 -> 12 [] t = 82 -> 39 [] t = 65 -> 36 [] t = 69 -> 31 [] t = 88 -> 23
       [] t = 68 -> 19 [] t = 71 -> 21]

\* detail::header: type, locate, a tracking number of 0, a 48-bit time.
Header == <<Ch("type"), U("locate", 2), Filler(<<0, 0>>), U("timestamp", 6)>>

ItchWrite ==
  [t \in ItchTypes |->
     CASE t = 83 -> Header \o <<Ch("event_code")>>
       [] t = 82 -> Header \o <<Bytes("stock", 8), Filler(<<81, 78>>), U("round_lot_size", 4),
                      Filler(<<78, 67>> \o PutAlpha(<<90>>, 2) \o <<80, 32, 32, 49, 78, 0, 0, 0, 0, 78>>)>>
       [] t = 65 -> Header \o <<U("order_ref", 8), Ch("side"), U("shares", 4), Bytes("stock", 8), U("price", 4)>>
       [] t = 69 -> Header \o <<U("order_ref", 8), U("executed_shares", 4), U("match_number", 8)>>
       [] t = 88 -> Header \o <<U("order_ref", 8), U("cancelled_shares", 4)>>
       [] t = 68 -> Header \o <<U("order_ref", 8)>>
       [] t = 71 -> <<Ch("type"), Field("next_sequence", "seq", 20)>>]

Common == <<Ch("type"), U("locate", 2), Skip(2), U("timestamp", 6)>>

\* Faulty variant: the market category and the status are not skipped.
ItchReadNoSkip ==
  [t \in ItchTypes |->
     CASE t = 83 -> Common \o <<Ch("event_code")>>
       [] t = 82 -> Common \o <<Bytes("stock", 8), Skip(4), U("round_lot_size", 4)>>
       [] t = 65 -> Common \o <<U("order_ref", 8), Ch("side"), U("shares", 4), Bytes("stock", 8), U("price", 4)>>
       [] t = 69 -> Common \o <<U("order_ref", 8), U("executed_shares", 4), U("match_number", 8)>>
       [] t = 88 -> Common \o <<U("order_ref", 8), U("cancelled_shares", 4)>>
       [] t = 68 -> Common \o <<U("order_ref", 8)>>
       [] t = 71 -> <<Ch("type"), Field("next_sequence", "seq", 20)>>]

ItchRead ==
  [t \in ItchTypes |->
     CASE t = 83 -> Common \o <<Ch("event_code")>>
       [] t = 82 -> Common \o <<Bytes("stock", 8), Skip(2), U("round_lot_size", 4)>>
       [] t = 65 -> Common \o <<U("order_ref", 8), Ch("side"), U("shares", 4), Bytes("stock", 8), U("price", 4)>>
       [] t = 69 -> Common \o <<U("order_ref", 8), U("executed_shares", 4), U("match_number", 8)>>
       [] t = 88 -> Common \o <<U("order_ref", 8), U("cancelled_shares", 4)>>
       [] t = 68 -> Common \o <<U("order_ref", 8)>>
       [] t = 71 -> <<Ch("type"), Field("next_sequence", "seq", 20)>>]

DecodeItch(b) == DecodeAs(ItchLen, ItchRead, b)
----------------------------------------------------------------------------
(* MoldUDP64 packets (include/itch.hpp). *)

\* PacketBuilder: the session, the number of the first message, their count, and
\* each message after its length.
Packet(session, first, msgs) ==
  LET blocks[k \in 0 .. Len(msgs)] ==
        IF k = 0 THEN << >> ELSE blocks[k - 1] \o PutInt(Len(msgs[k]), 2) \o msgs[k]
  IN  PutAlpha(session, 10) \o PutInt(first, 8) \o PutInt(Len(msgs), 2) \o blocks[Len(msgs)]

\* parse_header and for_each_message: the messages with their numbers, as far as
\* no length runs past the end of the packet, and whether none did.
Unpack(pkt) ==
  LET n == Len(pkt)
      first == GetInt(SubSeq(pkt, 11, 18), 0)
      count == GetInt(SubSeq(pkt, 19, 20), 0)
      Len16(pos) == GetInt(SubSeq(pkt, pos + 1, pos + 2), 0)
      walk[k \in 0 .. count] ==
        IF k = 0 THEN [pos |-> 20, msgs |-> << >>, ok |-> TRUE]
        ELSE LET w == walk[k - 1]
             IN  IF ~w.ok \/ n - w.pos < 2 \/ n - (w.pos + 2) < Len16(w.pos) THEN [w EXCEPT !.ok = FALSE]
                 ELSE [w EXCEPT !.pos = @ + 2 + Len16(w.pos),
                                !.msgs = Append(@, <<first + k - 1, SubSeq(pkt, w.pos + 3, w.pos + 2 + Len16(w.pos))>>)]
  IN  CASE n < 20 -> [msgs |-> << >>, ok |-> FALSE]
        [] n >= 20 /\ count = 65535 -> [msgs |-> << >>, ok |-> TRUE]
        [] OTHER -> [msgs |-> walk[count].msgs, ok |-> walk[count].ok]
----------------------------------------------------------------------------
(* SoupBinTCP logins. *)

LoginRequest == <<Field("username", "alpha", 6), Field("password", "alpha", 10),
                  Field("requested_session", "alpha", 10), Field("requested_sequence", "num", 20)>>
LoginAccepted == <<Field("session", "alpha", 10), Field("sequence", "num", 20)>>

DecodeLogin(layout, b) == IF Len(b) # Width(layout) \/ ~Readable(layout, b) THEN None ELSE Decode(layout, b)
============================================================================
