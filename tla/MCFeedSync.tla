----------------------------- MODULE MCFeedSync -----------------------------
(***************************************************************************)
(* FeedSync with the real book.  The assumption that a snapshot rebuilds   *)
(* the book is evaluated for every book of two orders over two sides and   *)
(* two prices.                                                             *)
(***************************************************************************)
EXTENDS FeedSync, FiniteSets, TLC

CONSTANTS MinPrice, MaxPrice, TickSize, MaxOrders, MCIds, MCQtys

B == INSTANCE OrderBook

MCBook0 == B!EmptyBook
MCValid(b, m) == B!Consistent(b, m)
MCApply(b, m) == B!ApplyItch(b, m)
MCDump(b) == B!Orders(b)
MCLoad(s) == B!LoadOrders(s)

\* Orders arrive at one price, so that their order in the queue matters; an "X"
\* does to the replica what an "E" does.
MCMsgs ==
  [type : {"A"}, id : MCIds, side : {"Buy"}, price : {MinPrice}, qty : {2}]
    \cup [type : {"E"}, id : MCIds, qty : {1}]
    \cup [type : {"D"}, id : MCIds]
    \cup [type : {"-"}]

\* Every book over these ids and quantities.
MCQueues ==
  {<< >>} \cup {<<e>> : e \in [id : MCIds, qty : MCQtys, owner : {0}, user_ref : {0}]}
    \cup {q \in [1 .. 2 -> [id : MCIds, qty : MCQtys, owner : {0}, user_ref : {0}]] : q[1].id # q[2].id}

MCBooks ==
  {b \in [B!Sides -> [B!Prices -> MCQueues]] :
     Cardinality(B!LiveIds(b)) = Cardinality({<<o.id, o.side, o.price>> : o \in B!Resting(b)})}
============================================================================
