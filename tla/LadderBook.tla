----------------------------- MODULE LadderBook -----------------------------
(***************************************************************************)
(* How src/order_book.cpp keeps the queues of OrderBook: a pool of nodes   *)
(* linked into one doubly linked list per price level, a free list through *)
(* the same links, a bitmap of the levels in use, a cached best level, and *)
(* the id map.  Every structure is updated by hand in every operation;     *)
(* BookRefined shows that together they are the abstract book.             *)
(***************************************************************************)
EXTENDS OrderBook, FlatIdMap

CONSTANTS
  Requests,      \* the orders the callers add
  Qtys,          \* the quantities they take off
  Homes,         \* hash functions: slots for the ids
  WordBits       \* bits of a word of the bitmap; 64 in the code

LOCAL FX == INSTANCE FiniteSetsExt
LOCAL SX == INSTANCE SequencesExt

Ids == {o.id : o \in Requests}

ASSUME LadderAssumption ==
  /\ WordBits \in Nat \ {0}
  /\ MaxEntries = MaxOrders
  /\ \A h \in Homes : h \in [Ids -> Slots]

VARIABLES
  nodes,       \* nodes_
  free_head,   \* free_head_
  live,        \* live_
  ladder,      \* bids_ and asks_: [levels, bits, best]
  ids,         \* ids_
  home         \* FlatIdMap::home

vars == <<nodes, free_head, live, ladder, ids, home>>

Nil == -1
Nodes == 0 .. MaxOrders - 1
Levels == 0 .. (MaxPrice - MinPrice) \div TickSize
Words == 0 .. (Cardinality(Levels) + WordBits - 1) \div WordBits - 1
IndexOf(p) == (p - MinPrice) \div TickSize
PriceOf(i) == MinPrice + i * TickSize

NoLevel == [qty |-> 0, head |-> Nil, tail |-> Nil, count |-> 0]
NoOrder == [id |-> 0, side |-> "Buy", price |-> MinPrice, qty |-> 0, owner |-> 0, user_ref |-> 0]

\* A node carries an order and its two links.  What a free node keeps of its
\* last order is never read: it carries NoOrder.
Node(o, before, after) == [order |-> o, prev |-> before, next |-> after]
----------------------------------------------------------------------------
(* The bitmap: a word is the set of its bits that are 1. *)

\* Faulty variant: the mask of the first word stays on the lower ones.
FindPrevMasked(bits, idx) ==
  LET kept(w) == {b \in bits[w] : b <= idx % WordBits}
      hits == {w \in 0 .. idx \div WordBits : kept(w) # {}}
  IN  IF idx < 0 \/ hits = {} THEN -1 ELSE FX!Max(hits) * WordBits + FX!Max(kept(FX!Max(hits)))

\* bitmap_find_prev: the bits of the first word up to idx, then lower words.
FindPrev(bits, idx) ==
  LET first == idx \div WordBits
      kept(w) == IF w = first THEN {b \in bits[w] : b <= idx % WordBits} ELSE bits[w]
      hits == {w \in 0 .. first : kept(w) # {}}
  IN  IF idx < 0 \/ hits = {} THEN -1 ELSE FX!Max(hits) * WordBits + FX!Max(kept(FX!Max(hits)))

\* bitmap_find_next: the bits of the first word from idx on, then higher words.
FindNext(bits, idx) ==
  LET first == idx \div WordBits
      kept(w) == IF w = first THEN {b \in bits[w] : b >= idx % WordBits} ELSE bits[w]
      hits == {w \in Words : w >= first /\ kept(w) # {}}
  IN  IF hits = {} THEN -1 ELSE FX!Min(hits) * WordBits + FX!Min(kept(FX!Min(hits)))

SetBit(bits, i) == [bits EXCEPT ![i \div WordBits] = @ \cup {i % WordBits}]
ClearBit(bits, i) == [bits EXCEPT ![i \div WordBits] = @ \ {i % WordBits}]

NextWorse(side, bits, i) == IF side = "Buy" THEN FindPrev(bits, i - 1) ELSE FindNext(bits, i + 1)
----------------------------------------------------------------------------
EmptyLadder == [levels |-> [i \in Levels |-> NoLevel], bits |-> [w \in Words |-> {}], best |-> -1]
FreshNodes == [n \in Nodes |-> Node(NoOrder, Nil, IF n + 1 < MaxOrders THEN n + 1 ELSE Nil)]

\* The constructor ends in clear().
Init ==
  /\ nodes = FreshNodes
  /\ free_head = 0
  /\ live = 0
  /\ ladder = [s \in Sides |-> EmptyLadder]
  /\ ids = EmptyMap
  /\ home \in Homes

\* The levels clear() resets: the ones its scan of the bitmap visits.
Visited(bits) ==
  LET scan[k \in Levels] == IF k = 0 THEN FindNext(bits, 0)
                            ELSE IF scan[k - 1] < 0 THEN -1 ELSE FindNext(bits, scan[k - 1] + 1)
  IN  {scan[k] : k \in Levels}

\* Faulty variant: the levels are left as they are.
ClearKeepsLevels ==
  /\ ladder' = [s \in Sides |-> [EmptyLadder EXCEPT !.levels = ladder[s].levels]]
  /\ nodes' = FreshNodes
  /\ free_head' = 0
  /\ live' = 0
  /\ ids' = EmptyMap
  /\ UNCHANGED home

Clear ==
  /\ ladder' = [s \in Sides |->
       [EmptyLadder EXCEPT !.levels = [i \in Levels |->
          IF i \in Visited(ladder[s].bits) THEN NoLevel ELSE ladder[s].levels[i]]]]
  /\ nodes' = FreshNodes
  /\ free_head' = 0
  /\ live' = 0
  /\ ids' = EmptyMap
  /\ UNCHANGED home

\* add's answer, in the order of the code's checks.
Outcome(o) ==
  IF o.price \notin Prices THEN "BadPrice"
  ELSE IF o.qty = 0 THEN "BadQty"
  ELSE IF free_head = Nil THEN "Full"
  ELSE IF ~CanInsert(ids, home, o.id) THEN "DuplicateId"
  ELSE "Ok"

\* The pool with order o in node n behind the node tail.
LinkAtTail(o, n, tail) ==
  [k \in Nodes |->
     IF k = n THEN Node(o, tail, Nil)
     ELSE IF k = tail THEN [nodes[k] EXCEPT !.next = n]
     ELSE nodes[k]]

\* add: a node from the free list goes to the tail of its level.
AddOrder(o) ==
  /\ Outcome(o) = "Ok"
  /\ LET n == free_head
         i == IndexOf(o.price)
         l == ladder[o.side]
         lv == l.levels[i]
     IN  /\ free_head' = nodes[n].next
         /\ nodes' = LinkAtTail(o, n, lv.tail)
         /\ ids' = Insert(ids, home, o.id, n)
         /\ ladder' = [ladder EXCEPT ![o.side] =
              [levels |-> [l.levels EXCEPT ![i] =
                 [qty |-> lv.qty + o.qty, head |-> IF lv.tail = Nil THEN n ELSE lv.head,
                  tail |-> n, count |-> lv.count + 1]],
               bits |-> IF lv.tail = Nil THEN SetBit(l.bits, i) ELSE l.bits,
               best |-> IF l.best < 0 \/ Better(o.side, i, l.best) THEN i ELSE l.best]]
         /\ live' = live + 1
         /\ UNCHANGED home

\* Level lv after the order o of node nd left it.
LevelWithout(lv, nd) ==
  IF lv.count = 1 THEN NoLevel
  ELSE [qty |-> lv.qty - nd.order.qty, head |-> IF nd.prev = Nil THEN nd.next ELSE lv.head,
        tail |-> IF nd.next = Nil THEN nd.prev ELSE lv.tail, count |-> lv.count - 1]

\* Its ladder: an empty level leaves the bitmap, and the best level is looked up
\* again when it was this one.
LadderWithout(l, nd) ==
  LET i == IndexOf(nd.order.price)
      lv == LevelWithout(l.levels[i], nd)
      bits == IF lv.count = 0 THEN ClearBit(l.bits, i) ELSE l.bits
  IN  [levels |-> [l.levels EXCEPT ![i] = lv], bits |-> bits,
       best |-> IF lv.count = 0 /\ l.best = i THEN NextWorse(nd.order.side, bits, i) ELSE l.best]

\* unlink_and_free
UnlinkAndFree(n) ==
  LET nd == nodes[n]
  IN  /\ nodes' = [k \in Nodes |->
           IF k = n THEN Node(NoOrder, Nil, free_head)
           ELSE [nodes[k] EXCEPT !.next = IF k = nd.prev THEN nd.next ELSE @,
                                 !.prev = IF k = nd.next THEN nd.prev ELSE @]]
      /\ ladder' = [ladder EXCEPT ![nd.order.side] = LadderWithout(@, nd)]
      /\ ids' = Erase(ids, home, nd.order.id)
      /\ free_head' = n
      /\ live' = live - 1
      /\ UNCHANGED home

\* The common part of reduce and reduce_front when shares remain.
Shrink(n, by) ==
  LET o == nodes[n].order
  IN  /\ nodes' = [nodes EXCEPT ![n].order.qty = @ - by]
      /\ ladder' = [ladder EXCEPT ![o.side].levels[IndexOf(o.price)].qty = @ - by]
      /\ UNCHANGED <<free_head, live, ids, home>>

Known(id) == Has(ids, home, id)
NodeOf(id) == ValueOf(ids, home, id)

Reducible(id, by) == Known(id) /\ by <= nodes[NodeOf(id)].order.qty

ReduceOrder(id, by) ==
  /\ Reducible(id, by)
  /\ IF by = nodes[NodeOf(id)].order.qty THEN UnlinkAndFree(NodeOf(id)) ELSE Shrink(NodeOf(id), by)

RemoveOrder(id) == Known(id) /\ UnlinkAndFree(NodeOf(id))

\* front and reduce_front: no look-up of the id.
FrontNode(side) == ladder[side].levels[ladder[side].best].head

ReduceFront(side, by) ==
  /\ ladder[side].best >= 0
  /\ LET n == FrontNode(side)
     IN  /\ by <= nodes[n].order.qty
         /\ IF by >= nodes[n].order.qty THEN UnlinkAndFree(n) ELSE Shrink(n, by)

Next ==
  \/ \E o \in Requests : AddOrder(o)
  \/ \E id \in Ids, by \in Qtys : ReduceOrder(id, by)
  \/ \E id \in Ids : RemoveOrder(id)
  \/ \E side \in Sides, by \in Qtys : ReduceFront(side, by)
  \/ Clear

Spec == Init /\ [][Next]_vars
----------------------------------------------------------------------------
(* The queries. *)

\* The nodes met from n along next, in order.
Chain(n) ==
  LET walk[x \in Nodes \cup {Nil}, left \in 0 .. MaxOrders] ==
        IF x = Nil \/ left = 0 THEN << >> ELSE <<x>> \o walk[nodes[x].next, left - 1]
  IN  walk[n, MaxOrders]

OrdersFrom(n) == LET c == Chain(n) IN [k \in DOMAIN c |-> nodes[c[k]].order]

\* for_each_level and for_each_order: the levels in the order of next_worse.
LevelPath(side) ==
  LET walk[i \in Levels \cup {-1}] ==
        IF i < 0 THEN << >> ELSE <<i>> \o walk[NextWorse(side, ladder[side].bits, i)]
  IN  walk[ladder[side].best]

ForEachOrder ==
  LET shown(o) == [side |-> o.side, price |-> o.price, id |-> o.id, qty |-> o.qty]
      at(s, i) == LET q == OrdersFrom(ladder[s].levels[i].head) IN [k \in DOMAIN q |-> shown(q[k])]
      all(s) == LET path == LevelPath(s) IN SX!FlattenSeq([k \in DOMAIN path |-> at(s, path[k])])
  IN  all("Buy") \o all("Sell")

\* best_qty, best_count, level_at
LevelAt(side, p) == [qty |-> ladder[side].levels[IndexOf(p)].qty, orders |-> ladder[side].levels[IndexOf(p)].count]
BestLevel(side) ==
  IF ladder[side].best < 0 THEN [qty |-> 0, orders |-> 0] ELSE LevelAt(side, PriceOf(ladder[side].best))
----------------------------------------------------------------------------
(* The abstract book: each level's list from head to tail. *)
Book ==
  [s \in Sides |-> [p \in Prices |->
     LET q == OrdersFrom(ladder[s].levels[IndexOf(p)].head)
     IN  [k \in DOMAIN q |-> Entry(q[k])]]]

Service == INSTANCE BookService WITH book <- Book

\* The hand-linked structures implement the abstract book: read from head to
\* tail, the lists of order_book.cpp change exactly as the queues of BookService
\* do under add, reduce, remove, reduce_front and clear.
BookRefined == Service!Spec

\* Orders a caller may try to add, those that add refuses for their price, their
\* quantity or their id among them.
Attempts ==
  [id : Ids \cup {0}, side : {"Buy"}, price : {MinPrice, MaxPrice + TickSize}, qty : {0, 1},
   owner : {0}, user_ref : {0}]

Shares(q) ==
  LET sum[k \in 0 .. Len(q)] == IF k = 0 THEN 0 ELSE sum[k - 1] + q[k].qty
  IN  sum[Len(q)]
QueueView(q) == [qty |-> Shares(q), orders |-> Len(q)]

\* Every answer of the concrete book is the abstract one: add's verdict for any
\* order (a free node means room in the id map, whatever the ids in use), find,
\* what reduce accepts, front, the best level's price, shares and count,
\* level_at, and the whole traversal a snapshot is made of.
AnswersAgree ==
  LET b == Book
  IN  /\ \A o \in Attempts : Outcome(o) = AddResult(b, o)
      /\ \A id \in Ids :
           /\ Known(id) <=> id \in LiveIds(b)
           /\ Known(id) => nodes[NodeOf(id)].order = Find(b, id)
           /\ \A by \in Qtys : Reducible(id, by) <=> CanReduce(b, id, by)
      /\ \A s \in Sides :
           /\ ladder[s].best < 0 <=> Occupied(b, s) = {}
           /\ ladder[s].best >= 0 =>
                /\ PriceOf(ladder[s].best) = BestPrice(b, s)
                /\ nodes[FrontNode(s)].order = FrontOrder(b, s)
                /\ BestLevel(s) = QueueView(b[s][BestPrice(b, s)])
           /\ \A p \in Prices : LevelAt(s, p) = QueueView(b[s][p])
      /\ ForEachOrder = Orders(b)

Range(q) == {q[k] : k \in DOMAIN q}
Linked == UNION {Range(Chain(ladder[s].levels[i].head)) : s \in Sides, i \in Levels}

\* The node pool leaks nothing and lends nothing twice: the free list and the
\* levels' lists share no node, hold every node, and live_ counts the used ones.
PoolExact ==
  /\ Len(Chain(free_head)) + live = MaxOrders
  /\ Range(Chain(free_head)) \cap Linked = {}
  /\ Range(Chain(free_head)) \cup Linked = Nodes
  /\ Cardinality(Linked) = live

\* The redundant parts of a ladder agree with its lists after every operation:
\* the back links mirror the forward ones, the tail is the last node, the totals
\* are sums, a bit says that its level is in use, and best is the best such level.
LadderExact ==
  \A s \in Sides : \A i \in Levels :
    LET lv == ladder[s].levels[i]
        c == Chain(lv.head)
    IN  /\ lv.tail = (IF c = << >> THEN Nil ELSE c[Len(c)])
        /\ \A k \in DOMAIN c : nodes[c[k]].prev = IF k = 1 THEN Nil ELSE c[k - 1]
        /\ \A k \in DOMAIN c : nodes[c[k]].order.side = s /\ nodes[c[k]].order.price = PriceOf(i)
        /\ lv.count = Len(c)
        /\ lv.qty = Shares(OrdersFrom(lv.head))
        /\ (i % WordBits \in ladder[s].bits[i \div WordBits]) <=> c # << >>
        /\ c # << >> => ladder[s].best >= 0 /\ ~Better(s, i, ladder[s].best)

\* The id map holds exactly the resting orders, each where a probe finds it: no
\* slot between an entry's home and its place is empty, however the clusters
\* were merged, shifted and wrapped around the end of the table.
MapExact ==
  /\ Entries(ids) = {[key |-> nodes[n].order.id, val |-> n] : n \in Linked}
  /\ ids.size = live
  /\ Cardinality({i \in Slots : ids.slots[i].key # 0}) = live
  /\ \A i \in Slots : ids.slots[i].key # 0 =>
       \A k \in 0 .. Distance(home[ids.slots[i].key], i) :
         ids.slots[Past(home[ids.slots[i].key], k)].key # 0

\* Every redundant structure is kept by hand in every operation and is exact
\* after each of them: the pool, the ladders and the id map.
StructuresExact == PoolExact /\ LadderExact /\ MapExact
============================================================================
