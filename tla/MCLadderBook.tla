---------------------------- MODULE MCLadderBook ----------------------------
(***************************************************************************)
(* LadderBook for TLC: bids and asks at three of four prices each, so that *)
(* the scans leave out levels and cross words; one id has a single share.  *)
(* Ids 1 and 2 hash to the last slot of the table and id 3 to the first:   *)
(* clusters form, wrap around, and shift past an entry that must stay.     *)
(***************************************************************************)
EXTENDS LadderBook

CONSTANT MCIds

MCRequests ==
  {o \in [id : MCIds, side : Sides, price : Prices, qty : Qtys, owner : {0}, user_ref : {0}] :
     /\ o.qty = IF o.id = 1 THEN 1 ELSE 2
     /\ IF o.side = "Buy" THEN o.price # 14 ELSE o.id < 3 /\ o.price # 12}

MCHomes == {[i \in MCIds |-> IF i = 3 THEN 0 ELSE 15]}
============================================================================
