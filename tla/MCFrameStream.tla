---------------------------- MODULE MCFrameStream ----------------------------
(***************************************************************************)
(* The connections FrameStream is checked on: every message of every       *)
(* protocol, with fields of more than one byte and a negative price.       *)
(***************************************************************************)
EXTENDS FrameStream

Sym == <<80, 76, 83, 69, 32, 32, 32, 32>>
Cl == [k \in 1 .. 14 |-> 47 + k]
Pulse == <<80, 85, 76, 83, 69>>

Login == FrameItem(LoginReq, [username |-> <<84, 49>>, password |-> <<112, 117, 108, 115, 101>>,
                              requested_session |-> << >>, requested_sequence |-> 1])
LoggedIn == FrameItem(Accept, [session |-> Pulse, sequence |-> 120])

Enter == FrameItem(Unsequenced,
  [type |-> 79, user_ref |-> 258, side |-> Buy, qty |-> 65537, symbol |-> Sym, price |-> -300, tif |-> 48, clordid |-> Cl])
Cancel == FrameItem(Unsequenced, [type |-> 88, user_ref |-> 258, qty |-> 1])

Accepted == FrameItem(Sequenced,
  [type |-> 65, timestamp |-> 70000, user_ref |-> 258, side |-> Sell, qty |-> 300, symbol |-> Sym, price |-> 1999900,
   tif |-> 51, order_ref |-> 77000, clordid |-> Cl, state |-> 76])
Executed == FrameItem(Sequenced,
  [type |-> 69, timestamp |-> 70001, user_ref |-> 258, qty |-> 200, price |-> 1999900, liquidity |-> 65, match_number |-> 513])
Canceled == FrameItem(Sequenced, [type |-> 67, timestamp |-> 70002, user_ref |-> 258, qty |-> 100, reason |-> 85])
Rejected == FrameItem(Sequenced, [type |-> 74, timestamp |-> 70003, user_ref |-> 259, reason |-> 83, clordid |-> Cl])

Itch(m) == FrameItem(Sequenced, m)
Listing(loc) == Itch([type |-> 82, locate |-> loc, timestamp |-> 4711, stock |-> Sym, round_lot_size |-> 100])
Resting(ref, side) ==
  Itch([type |-> 65, locate |-> 1, timestamp |-> 4711, order_ref |-> ref, side |-> side, shares |-> 300, stock |-> Sym,
        price |-> 1000100])
Resume == Itch([type |-> 71, next_sequence |-> 1042])
Opening == Itch([type |-> 83, locate |-> 0, timestamp |-> 4700, event_code |-> 79])
Filled == Itch([type |-> 69, locate |-> 1, timestamp |-> 4712, order_ref |-> 300, executed_shares |-> 256, match_number |-> 9])
Reduced == Itch([type |-> 88, locate |-> 1, timestamp |-> 4713, order_ref |-> 300, cancelled_shares |-> 44])
Deleted == Itch([type |-> 68, locate |-> 1, timestamp |-> 4714, order_ref |-> 301])

Bare(type) == FrameItem(type, Empty)

MCScripts ==
  {[chan |-> "orders", frames |-> <<Login, Enter, Bare(ClientBeat), Cancel, Enter, Cancel, Enter, Bare(Logout)>>],
   [chan |-> "orders", frames |-> <<Login, Login>>],
   [chan |-> "reports", frames |-> <<LoggedIn, Bare(ServerBeat), Accepted, Executed, Canceled, Rejected, Bare(EndSession)>>],
   [chan |-> "reports", frames |-> <<Bare(Reject)>>],
   [chan |-> "snapshot", frames |-> <<Listing(1), Resting(300, Buy), Resting(301, Sell), Resting(302, Buy), Resume, Bare(EndSession)>>],
   [chan |-> "feed", frames |-> <<Opening, Listing(1), Resting(300, Buy), Filled, Reduced, Deleted>>]}
============================================================================
