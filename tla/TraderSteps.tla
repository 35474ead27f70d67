---------------------------- MODULE TraderSteps ----------------------------
(***************************************************************************)
(* The inductive invariant behind the trader's theorems: the risk gate,    *)
(* the order table, the frames and reports on their way and the position   *)
(* at the exchange, for every limit, every number of orders and every      *)
(* behaviour of the connection; and that every step of the exchange and of *)
(* the trader keeps it.                                                    *)
(***************************************************************************)
EXTENDS TraderOrders, TLAPS

Entries == [side : Sides, leaves : Nat \ {0}]
Frames == [type : {"O"}, ref : Nat, side : Sides, qty : Nat \ {0}] \cup [type : {"X"}, ref : Nat]
Reports == [type : {"A", "J", "E", "C"}, ref : Nat, qty : Nat]
Gates == [position : Int, open : [Sides -> Nat], open_orders : 0 .. max_open_orders,
          sent_times : [0 .. max_orders_per_sec - 1 -> Nat],
          next_slot : 0 .. max_orders_per_sec - 1, sent_count : Nat]

\* Every frame that has not reached the exchange, in the order of sending.
Way == to_exch \o oe_pending

TypeInv ==
  /\ next_user_ref \in Nat \ {0} /\ DOMAIN orders \subseteq 1 .. next_user_ref - 1
  /\ orders \in [DOMAIN orders -> Entries]
  /\ risk \in Gates
  /\ now \in Nat /\ xpos \in Int /\ sends \in Seq(Nat)
  /\ oe_up \in BOOLEAN /\ conn \in BOOLEAN /\ phase \in {"run", "wind", "gone"}
  /\ to_exch \in Seq(Frames) /\ oe_pending \in Seq(Frames)
  /\ from_exch \in Seq(Reports)
  /\ exch \in [DOMAIN exch -> [side : Sides, left : Nat \ {0}]]

\* The order table and the gate's counters.
GateInv ==
  /\ risk.open_orders = Cardinality(DOMAIN orders)
  /\ \A s \in Sides : risk.open[s] = Leaves(orders, s)

\* An order on its way is whole, and nowhere else.
WayInv ==
  /\ \A i \in DOMAIN Way : Way[i].type = "O" =>
       /\ Way[i].ref \in DOMAIN orders
       /\ orders[Way[i].ref] = [side |-> Way[i].side, leaves |-> Way[i].qty]
       /\ Way[i].ref \notin DOMAIN exch
       /\ \A j \in DOMAIN from_exch : from_exch[j].ref # Way[i].ref
  /\ \A i, j \in DOMAIN Way :
       i # j /\ Way[i].type = "O" /\ Way[j].type = "O" => Way[i].ref # Way[j].ref

\* The exchange's order is the trader's.
ExchInv == \A r \in DOMAIN exch : r \in DOMAIN orders /\ exch[r].side = orders[r].side

\* Reports about an order come in order: an acceptance is the first, a rejection
\* the only one.
ReportInv ==
  /\ \A i \in DOMAIN from_exch :
       /\ from_exch[i].ref \in DOMAIN orders
       /\ from_exch[i].type \in {"E", "C"} <=> from_exch[i].qty > 0
       /\ from_exch[i].type = "J" => from_exch[i].ref \notin DOMAIN exch
  /\ \A i, j \in DOMAIN from_exch :
       i < j /\ from_exch[i].ref = from_exch[j].ref =>
         from_exch[i].type # "J" /\ from_exch[j].type \in {"E", "C"}

\* Executed and cancelled shares on their way fit in what is left.
FitInv == \A r \in DOMAIN orders : Told(from_exch, {"E", "C"}, r) + Left(r) <= orders[r].leaves

\* While the connection is up the reports explain the real position; after it is
\* lost the orders in the table bound what was not told.
PositionInv ==
  /\ conn => xpos = risk.position + Untold(orders, from_exch, "Buy") - Untold(orders, from_exch, "Sell")
  /\ ~conn => phase = "gone" \/ from_exch = << >>
  /\ xpos <= risk.position + risk.open["Buy"] /\ xpos >= risk.position - risk.open["Sell"]
  /\ risk.position + risk.open["Buy"] <= max_position
  /\ risk.position - risk.open["Sell"] >= 0 - max_position

\* The ring of send times holds the last max_orders_per_sec of them.
RingInv ==
  /\ risk.sent_count = Len(sends)
  /\ risk.next_slot = Len(sends) % max_orders_per_sec
  /\ \A i \in DOMAIN sends : i > Len(sends) - max_orders_per_sec =>
       risk.sent_times[(i - 1) % max_orders_per_sec] = sends[i]

IInv == /\ TypeInv /\ GateInv /\ WayInv /\ ExchInv /\ ReportInv /\ FitInv /\ PositionInv
        /\ RingInv /\ RateLimit
----------------------------------------------------------------------------
(* Sequences.                                                               *)

\* What the operators on sequences return: a sequence itself,
LEMMA SeqLen ==
  ASSUME NEW S, NEW s \in Seq(S)
  PROVE  Len(s) \in Nat /\ DOMAIN s = 1 .. Len(s) /\ (s # << >> => Len(s) \in Nat \ {0})
         /\ \A i \in 1 .. Len(s) : s[i] \in S
  OBVIOUS

\* the empty sequence,
LEMMA SeqEmpty == ASSUME NEW S PROVE << >> \in Seq(S) /\ DOMAIN << >> = {}
  OBVIOUS

\* one element more,
LEMMA SeqAppend ==
  ASSUME NEW S, NEW s \in Seq(S), NEW e \in S
  PROVE  LET t == Append(s, e)
         IN  /\ t \in Seq(S) /\ Len(t) = Len(s) + 1 /\ t[Len(s) + 1] = e
             /\ DOMAIN t = 1 .. Len(s) + 1 /\ \A i \in 1 .. Len(s) : t[i] = s[i]
  OBVIOUS

\* two sequences joined,
LEMMA SeqConcat ==
  ASSUME NEW S, NEW s \in Seq(S), NEW t \in Seq(S)
  PROVE  /\ s \o t \in Seq(S) /\ Len(s \o t) = Len(s) + Len(t)
         /\ \A i \in 1 .. Len(s) + Len(t) : (s \o t)[i] = IF i <= Len(s) THEN s[i] ELSE t[i - Len(s)]
  OBVIOUS

\* the first element taken off,
LEMMA SeqTail ==
  ASSUME NEW S, NEW s \in Seq(S), s # << >>
  PROVE  /\ Head(s) \in S /\ Head(s) = s[1] /\ Tail(s) \in Seq(S) /\ Len(Tail(s)) = Len(s) - 1
         /\ \A i \in 1 .. Len(s) - 1 : Tail(s)[i] = s[i + 1]
  OBVIOUS

\* and a part of one.
LEMMA SeqPart ==
  ASSUME NEW S, NEW s, NEW a \in Int, NEW b \in Int, \A i \in a .. b : s[i] \in S
  PROVE  /\ SubSeq(s, a, b) \in Seq(S) /\ Len(SubSeq(s, a, b)) = (IF a <= b THEN b - a + 1 ELSE 0)
         /\ \A i \in 1 .. b - a + 1 : SubSeq(s, a, b)[i] = s[a + i - 1]
  OBVIOUS
----------------------------------------------------------------------------
(* What the proofs of the steps use of finite sets and of the sums; module  *)
(* TraderOrdersProofs proves it.                                            *)

FiniteLaws ==
  /\ \A n \in Int : IsFiniteSet(1 .. n)
  /\ \A S, T : IsFiniteSet(S) /\ T \subseteq S => IsFiniteSet(T)
  /\ Cardinality({}) = 0
  /\ \A S : IsFiniteSet(S) =>
       /\ Cardinality(S) \in Nat
       /\ \E f \in [1 .. Cardinality(S) -> S] : \A i, j \in DOMAIN f : f[i] = f[j] => i = j
       /\ \A x : x \notin S => IsFiniteSet(S \cup {x}) /\ Cardinality(S \cup {x}) = Cardinality(S) + 1
       /\ \A x \in S : Cardinality(S) # 0 /\ Cardinality(S \ {x}) = Cardinality(S) - 1

ToldLaws ==
  \A s \in Seq(Reports) : \A types, ref :
    /\ Told(s, types, ref) \in Nat
    /\ (\A i \in DOMAIN s : s[i].ref # ref) => Told(s, types, ref) = 0
    /\ \A i \in DOMAIN s : s[i].type \in types /\ s[i].ref = ref => Told(s, types, ref) >= s[i].qty
    /\ \A e \in Reports : Told(Append(s, e), types, ref) =
         Told(s, types, ref) + (IF e.type \in types /\ e.ref = ref THEN e.qty ELSE 0)
    /\ s # << >> => Told(s, types, ref) =
         Told(Tail(s), types, ref) + (IF Head(s).type \in types /\ Head(s).ref = ref THEN Head(s).qty ELSE 0)

IsTable(os) == IsFiniteSet(DOMAIN os) /\ os \in [DOMAIN os -> Entries]

\* The table with what is left of one order changed.
Resized(new, os, k, n) ==
  /\ new \in [DOMAIN os -> Entries] /\ \A r \in DOMAIN os : r # k => new[r] = os[r]
  /\ new[k].side = os[k].side /\ new[k].leaves = n

TableLaw(os, s, rs) ==
  /\ Leaves(os, s) \in Nat /\ Untold(os, rs, s) \in Nat
  /\ (\A r \in DOMAIN os : Told(rs, {"E", "C"}, r) <= os[r].leaves) => Untold(os, rs, s) <= Leaves(os, s)
  /\ \A k \in DOMAIN os :
       /\ Leaves(os, s) = Leaves(Drop(os, k), s) + (IF os[k].side = s THEN os[k].leaves ELSE 0)
       /\ Untold(os, rs, s) = Untold(Drop(os, k), rs, s) + (IF os[k].side = s THEN Told(rs, {"E"}, k) ELSE 0)
  /\ \A k, o : k \notin DOMAIN os /\ o \in Entries /\ Told(rs, {"E"}, k) = 0 =>
       /\ Leaves(Put(os, k, o), s) = Leaves(os, s) + (IF o.side = s THEN o.leaves ELSE 0)
       /\ Untold(Put(os, k, o), rs, s) = Untold(os, rs, s)
  /\ \A k \in DOMAIN os : \A n \in Nat : \A new : Resized(new, os, k, n) =>
       /\ Leaves(new, s) = Leaves(os, s) + (IF os[k].side = s THEN n - os[k].leaves ELSE 0)
       /\ Untold(new, rs, s) = Untold(os, rs, s)
  /\ \A e \in Reports : e.ref \in DOMAIN os =>
       Untold(os, Append(rs, e), s) = Untold(os, rs, s)
         + (IF e.type = "E" /\ os[e.ref].side = s THEN e.qty ELSE 0)
  /\ rs # << >> /\ Head(rs).ref \in DOMAIN os =>
       Untold(os, rs, s) = Untold(os, Tail(rs), s)
         + (IF Head(rs).type = "E" /\ os[Head(rs).ref].side = s THEN Head(rs).qty ELSE 0)

TableLaws ==
  /\ \A os, s : DOMAIN os = {} => Leaves(os, s) = 0
  /\ \A os, rs, s : DOMAIN os = {} => Untold(os, rs, s) = 0
  /\ \A os, s : \A rs \in Seq(Reports) : IsTable(os) => TableLaw(os, s, rs)

Laws == FiniteLaws /\ ToldLaws /\ TableLaws

\* The laws, one by one: the shares of an order in a sequence of reports,
LEMMA ToldType ==
  ASSUME Laws, NEW s \in Seq(Reports), NEW types, NEW ref
  PROVE  Told(s, types, ref) \in Nat
  BY DEF Laws, ToldLaws

\* none when no report is about it,
LEMMA ToldNothing ==
  ASSUME Laws, NEW s \in Seq(Reports), NEW types, NEW ref, \A i \in DOMAIN s : s[i].ref # ref
  PROVE  Told(s, types, ref) = 0
  BY DEF Laws, ToldLaws

\* at least those of one of its reports,
LEMMA ToldAtLeast ==
  ASSUME Laws, NEW s \in Seq(Reports), NEW types, NEW ref, NEW i \in DOMAIN s, s[i].type \in types, s[i].ref = ref
  PROVE  Told(s, types, ref) >= s[i].qty
  BY DEF Laws, ToldLaws

\* more by a report's when it arrives,
LEMMA ToldAppend ==
  ASSUME Laws, NEW s \in Seq(Reports), NEW e \in Reports, NEW types, NEW ref
  PROVE  Told(Append(s, e), types, ref) =
           Told(s, types, ref) + (IF e.type \in types /\ e.ref = ref THEN e.qty ELSE 0)
  BY DEF Laws, ToldLaws

\* and fewer when it is read.
LEMMA ToldTail ==
  ASSUME Laws, NEW s \in Seq(Reports), s # << >>, NEW types, NEW ref
  PROVE  Told(s, types, ref) =
           Told(Tail(s), types, ref) + (IF Head(s).type \in types /\ Head(s).ref = ref THEN Head(s).qty ELSE 0)
  BY DEF Laws, ToldLaws

\* and the sums over the orders of one side.
LEMMA SideType ==
  ASSUME Laws, NEW os, IsFiniteSet(DOMAIN os), os \in [DOMAIN os -> Entries], NEW rs \in Seq(Reports), NEW s
  PROVE  Leaves(os, s) \in Nat /\ Untold(os, rs, s) \in Nat
  BY DEF Laws, TableLaws, TableLaw, IsTable

\* No more is untold than is left,
LEMMA UntoldBound ==
  ASSUME Laws, NEW os, IsFiniteSet(DOMAIN os), os \in [DOMAIN os -> Entries], NEW s,
         NEW rs \in Seq(Reports), \A r \in DOMAIN os : Told(rs, {"E", "C"}, r) <= os[r].leaves
  PROVE  Untold(os, rs, s) <= Leaves(os, s)
  BY DEF Laws, TableLaws, TableLaw, IsTable

\* and both sums follow the table: an order removed,
LEMMA SideDrop ==
  ASSUME Laws, NEW os, IsFiniteSet(DOMAIN os), os \in [DOMAIN os -> Entries], NEW s, NEW k \in DOMAIN os,
         NEW rs \in Seq(Reports)
  PROVE  /\ Leaves(os, s) = Leaves(Drop(os, k), s) + (IF os[k].side = s THEN os[k].leaves ELSE 0)
         /\ Untold(os, rs, s) = Untold(Drop(os, k), rs, s) + (IF os[k].side = s THEN Told(rs, {"E"}, k) ELSE 0)
  BY DEF Laws, TableLaws, TableLaw, IsTable

\* with nothing left to tell of it;
LEMMA UntoldDrop ==
  ASSUME Laws, NEW os, IsFiniteSet(DOMAIN os), os \in [DOMAIN os -> Entries], NEW s, NEW k \in DOMAIN os,
         NEW rs \in Seq(Reports), Told(rs, {"E"}, k) = 0
  PROVE  Untold(Drop(os, k), rs, s) = Untold(os, rs, s)
  <1>1. Drop(os, k) \in [DOMAIN Drop(os, k) -> Entries] /\ DOMAIN Drop(os, k) \in SUBSET DOMAIN os
    BY DEF Drop
  <1>2. IsFiniteSet(DOMAIN Drop(os, k))
    BY <1>1 DEF Laws, FiniteLaws
  <1>3. Untold(Drop(os, k), rs, s) \in Nat
    BY <1>1, <1>2, SideType
  <1>4. Untold(os, rs, s) = Untold(Drop(os, k), rs, s) + (IF os[k].side = s THEN Told(rs, {"E"}, k) ELSE 0)
    BY DEF Laws, TableLaws, TableLaw, IsTable
  <1> QED BY <1>3, <1>4

\* an order more;
LEMMA SidePut ==
  ASSUME Laws, NEW os, IsFiniteSet(DOMAIN os), os \in [DOMAIN os -> Entries], NEW s,
         NEW k, k \notin DOMAIN os, NEW o \in Entries,
         NEW rs \in Seq(Reports), Told(rs, {"E"}, k) = 0
  PROVE  /\ Leaves(Put(os, k, o), s) = Leaves(os, s) + (IF o.side = s THEN o.leaves ELSE 0)
         /\ Untold(Put(os, k, o), rs, s) = Untold(os, rs, s)
  BY DEF Laws, TableLaws, TableLaw, IsTable

\* an order resized;
LEMMA SideSet ==
  ASSUME Laws, NEW os, IsFiniteSet(DOMAIN os), os \in [DOMAIN os -> Entries], NEW s, NEW k \in DOMAIN os,
         NEW n \in Nat, NEW rs \in Seq(Reports), NEW new, Resized(new, os, k, n)
  PROVE  /\ Leaves(new, s) = Leaves(os, s) + (IF os[k].side = s THEN n - os[k].leaves ELSE 0)
         /\ Untold(new, rs, s) = Untold(os, rs, s)
  <1>1. IsTable(os)
    BY DEF IsTable
  <1>2. \A kk \in DOMAIN os : \A nn \in Nat : \A tt : Resized(tt, os, kk, nn) =>
            /\ Leaves(tt, s) = Leaves(os, s) + (IF os[kk].side = s THEN nn - os[kk].leaves ELSE 0)
            /\ Untold(tt, rs, s) = Untold(os, rs, s)
    BY <1>1 DEF Laws, TableLaws, TableLaw
  <1> QED BY <1>2

\* a report more;
LEMMA UntoldAppend ==
  ASSUME Laws, NEW os, IsFiniteSet(DOMAIN os), os \in [DOMAIN os -> Entries], NEW s,
         NEW rs \in Seq(Reports), NEW e \in Reports, e.ref \in DOMAIN os
  PROVE  Untold(os, Append(rs, e), s) = Untold(os, rs, s)
            + (IF e.type = "E" /\ os[e.ref].side = s THEN e.qty ELSE 0)
  BY DEF Laws, TableLaws, TableLaw, IsTable

\* a report read.
LEMMA UntoldTail ==
  ASSUME Laws, NEW os, IsFiniteSet(DOMAIN os), os \in [DOMAIN os -> Entries], NEW s,
         NEW rs \in Seq(Reports), rs # << >>, Head(rs).ref \in DOMAIN os
  PROVE  Untold(os, rs, s) = Untold(os, Tail(rs), s)
            + (IF Head(rs).type = "E" /\ os[Head(rs).ref].side = s THEN Head(rs).qty ELSE 0)
  BY DEF Laws, TableLaws, TableLaw, IsTable

\* Finite sets.
LEMMA FinInterval == ASSUME Laws, NEW n \in Int PROVE IsFiniteSet(1 .. n)
  BY DEF Laws, FiniteLaws

\* The subset of a finite set,
LEMMA FinSubset == ASSUME Laws, NEW S, IsFiniteSet(S), NEW T \in SUBSET S PROVE IsFiniteSet(T)
  BY DEF Laws, FiniteLaws

\* the empty set,
LEMMA FinEmpty == ASSUME Laws PROVE Cardinality({}) = 0
  BY DEF Laws, FiniteLaws

\* an enumeration without repetition, which cancel_all's frames need,
LEMMA FinCount ==
  ASSUME Laws, NEW S, IsFiniteSet(S)
  PROVE  /\ Cardinality(S) \in Nat
         /\ \E f \in [1 .. Cardinality(S) -> S] : \A i, j \in DOMAIN f : f[i] = f[j] => i = j
  BY Zenon DEF Laws, FiniteLaws

\* an element more,
LEMMA FinAdd ==
  ASSUME Laws, NEW S, NEW x, IsFiniteSet(S), x \notin S
  PROVE  IsFiniteSet(S \cup {x}) /\ Cardinality(S \cup {x}) = Cardinality(S) + 1
  BY DEF Laws, FiniteLaws

\* and one fewer.
LEMMA FinRemove ==
  ASSUME Laws, NEW S, NEW x \in S, IsFiniteSet(S)
  PROVE  /\ IsFiniteSet(S \ {x}) /\ Cardinality(S \ {x}) = Cardinality(S) - 1
         /\ Cardinality(S) # 0
  <1>1. S \ {x} \in SUBSET S
    OBVIOUS
  <1> QED BY <1>1, FinSubset DEF Laws, FiniteLaws
----------------------------------------------------------------------------
(* The start, and the steps that leave orders, reports and exchange alone.  *)

\* References are handed out in order, so the table is finite.
LEMMA TableFinite ==
  ASSUME Laws, TypeInv
  PROVE  IsFiniteSet(DOMAIN orders)
  <1>1. IsFiniteSet(1 .. next_user_ref - 1) /\ DOMAIN orders \in SUBSET (1 .. next_user_ref - 1)
    <2>1. next_user_ref - 1 \in Int /\ DOMAIN orders \in SUBSET (1 .. next_user_ref - 1)
      BY DEF TypeInv
    <2> QED BY <2>1, FinInterval
  <1> QED BY <1>1, FinSubset, Zenon

\* The trader starts with an empty table, nothing on its way and a clean gate.
LEMMA InitIInv == ASSUME Laws PROVE Init => IInv
  <1> SUFFICES ASSUME Init PROVE IInv
    OBVIOUS
  <1> USE DEF Init
  <1>1. TypeInv
    <2>1. risk \in Gates
      BY TraderAssumption DEF Gates
    <2>2. orders \in [DOMAIN orders -> Entries] /\ exch \in [DOMAIN exch -> [side : Sides, left : Nat \ {0}]]
      OBVIOUS
    <2> QED BY <2>1, <2>2 DEF TypeInv
  <1>2. DOMAIN orders = {}
    OBVIOUS
  <1>3. \A s : Leaves(orders, s) = 0 /\ Untold(orders, from_exch, s) = 0
    BY <1>2 DEF Laws, TableLaws
  <1>4. GateInv
    BY <1>3, FinEmpty DEF GateInv
  <1>5. WayInv /\ ExchInv /\ ReportInv /\ FitInv
    BY DEF WayInv, ExchInv, ReportInv, FitInv, Way
  <1>6. PositionInv
    BY <1>3, TraderAssumption DEF PositionInv, Sides
  <1>7. RingInv /\ RateLimit
    BY TraderAssumption DEF RingInv, RateLimit
  <1> QED BY <1>1, <1>4, <1>5, <1>6, <1>7 DEF IInv

\* Frames stay on their way, the first may have arrived, and only cancels join them.
WayKeeps == \E d \in {0, 1} : \A i \in DOMAIN Way' :
              i \in Nat /\ ((i + d \in DOMAIN Way /\ Way'[i] = Way[i + d]) \/ Way'[i].type = "X")

\* Such a step keeps the invariant when it leaves table, gate, exchange and reports alone.
LEMMA SteadyIInv ==
  ASSUME Laws, IInv, UNCHANGED <<orders, next_user_ref, risk, exch, xpos, from_exch, sends>>,
         now' \in Nat, oe_up' \in BOOLEAN, to_exch' \in Seq(Frames), oe_pending' \in Seq(Frames),
         phase' \in {"run", "wind", "gone"}, WayKeeps,
         (conn' = conn /\ phase # "gone") \/ (conn' = FALSE /\ phase' = "gone") \/ UNCHANGED <<conn, phase>>
  PROVE  IInv'
  <1>i. /\ TypeInv /\ GateInv /\ WayInv /\ ExchInv /\ ReportInv /\ FitInv /\ PositionInv
        /\ RingInv /\ RateLimit
    BY DEF IInv
  <1>1. TypeInv'
    BY <1>i, Zenon DEF TypeInv
  <1>2. GateInv' /\ ExchInv' /\ ReportInv'
    BY <1>i DEF GateInv, ExchInv, ReportInv
  <1>3. FitInv'
    BY <1>i DEF FitInv, Left
  <1>4. WayInv'
    <2>1. PICK d \in {0, 1} : \A i \in DOMAIN Way' :
            i \in Nat /\ ((i + d \in DOMAIN Way /\ Way'[i] = Way[i + d]) \/ Way'[i].type = "X")
      BY DEF WayKeeps
    <2>2. ASSUME NEW i \in DOMAIN Way', Way'[i].type = "O"
          PROVE  i \in Nat /\ i + d \in DOMAIN Way /\ Way'[i] = Way[i + d]
      BY <2>1, <2>2
    <2>3. ASSUME NEW i \in DOMAIN Way', NEW j \in DOMAIN Way', i # j, Way'[i].type = "O", Way'[j].type = "O"
          PROVE  Way'[i].ref # Way'[j].ref
      <3>1. i + d # j + d
        BY <2>2, <2>3
      <3> QED BY <1>i, <2>2, <2>3, <3>1 DEF WayInv
    <2> QED BY <1>i, <2>2, <2>3 DEF WayInv
  <1>5. PositionInv'
    BY <1>i DEF PositionInv, TypeInv
  <1>6. RingInv' /\ RateLimit'
    BY <1>i DEF RingInv, RateLimit
  <1> QED BY <1>1, <1>2, <1>3, <1>4, <1>5, <1>6 DEF IInv

\* The way is a sequence of frames: those sent, then those pending.
LEMMA WayType ==
  ASSUME Laws, to_exch \in Seq(Frames), oe_pending \in Seq(Frames)
  PROVE  /\ Way \in Seq(Frames) /\ DOMAIN Way = 1 .. Len(Way) /\ Len(Way) \in Nat
         /\ Len(Way) = Len(to_exch) + Len(oe_pending)
         /\ \A i \in 1 .. Len(to_exch) : Way[i] = to_exch[i]
         /\ \A i \in 1 .. Len(oe_pending) : Way[Len(to_exch) + i] = oe_pending[i]
  <1>1. Len(to_exch) \in Nat /\ Len(oe_pending) \in Nat
    BY SeqLen
  <1>2. Way \in Seq(Frames) /\ Len(Way) = Len(to_exch) + Len(oe_pending)
        /\ \A i \in 1 .. Len(to_exch) + Len(oe_pending) :
             Way[i] = IF i <= Len(to_exch) THEN to_exch[i] ELSE oe_pending[i - Len(to_exch)]
    BY SeqConcat DEF Way
  <1>3. DOMAIN Way = 1 .. Len(Way)
    BY <1>2, SeqLen
  <1>4. ASSUME NEW i \in 1 .. Len(oe_pending) PROVE Way[Len(to_exch) + i] = oe_pending[i]
    <2>1. Len(to_exch) + i \in 1 .. Len(to_exch) + Len(oe_pending) /\ ~(Len(to_exch) + i <= Len(to_exch))
          /\ (Len(to_exch) + i) - Len(to_exch) = i
      BY <1>1
    <2> QED BY <1>2, <2>1
  <1>5. ASSUME NEW i \in 1 .. Len(to_exch) PROVE Way[i] = to_exch[i]
    BY <1>1, <1>2
  <1> QED BY <1>1, <1>2, <1>3, <1>4, <1>5

\* oe_send: a prefix of the frames joins the others, in order.
LEMMA OeSendWay ==
  ASSUME Laws, to_exch \in Seq(Frames), oe_pending \in Seq(Frames), oe_up \in BOOLEAN,
         NEW frames \in Seq(Frames), NEW k \in 0 .. Len(frames), NEW broken \in BOOLEAN,
         OeSend(frames, k, broken)
  PROVE  /\ to_exch' \in Seq(Frames) /\ oe_pending' \in Seq(Frames) /\ oe_up' \in BOOLEAN
         /\ UNCHANGED <<conn, from_exch>>
         /\ \A i \in DOMAIN Way' :
              \/ i \in DOMAIN Way /\ Way'[i] = Way[i]
              \/ /\ i \notin DOMAIN Way /\ i - Len(Way) \in 1 .. Len(frames)
                 /\ Way'[i] = frames[i - Len(Way)]
  <1> DEFINE rest == SubSeq(frames, k + 1, Len(frames))
             sent == SubSeq(frames, 1, k)
             m == Len(to_exch)
             p == Len(oe_pending)
             n == Len(frames)
  <1>0. n \in Nat /\ k \in Nat /\ k <= n /\ m \in Nat /\ p \in Nat /\ \A i \in 1 .. n : frames[i] \in Frames
    BY SeqLen
  <1>1. /\ Way \in Seq(Frames) /\ DOMAIN Way = 1 .. m + p /\ Len(Way) = m + p
        /\ \A i \in 1 .. m : Way[i] = to_exch[i]
        /\ \A i \in 1 .. p : Way[m + i] = oe_pending[i]
    BY WayType, Zenon
  <1>2. rest \in Seq(Frames) /\ Len(rest) = n - k /\ \A i \in 1 .. n - k : rest[i] = frames[k + i]
    <2>1. /\ rest \in Seq(Frames) /\ Len(rest) = (IF k + 1 <= n THEN n - (k + 1) + 1 ELSE 0)
          /\ \A i \in 1 .. n - (k + 1) + 1 : rest[i] = frames[k + 1 + i - 1]
      BY <1>0, SeqPart
    <2> QED BY <1>0, <2>1
  <1>3. sent \in Seq(Frames) /\ Len(sent) = k /\ \A i \in 1 .. k : sent[i] = frames[i]
    <2>1. /\ sent \in Seq(Frames) /\ Len(sent) = (IF 1 <= k THEN k - 1 + 1 ELSE 0)
          /\ \A i \in 1 .. k - 1 + 1 : sent[i] = frames[1 + i - 1]
      BY <1>0, SeqPart
    <2> QED BY <1>0, <2>1
  <1>4. CASE UNCHANGED linkVars
    BY <1>4 DEF linkVars, Way
  <1>5. CASE oe_pending' = oe_pending \o frames /\ UNCHANGED <<oe_up, conn, to_exch, from_exch>>
    <2>1. oe_pending' \in Seq(Frames) /\ Len(oe_pending') = p + n
          /\ \A i \in 1 .. p + n : oe_pending'[i] = IF i <= p THEN oe_pending[i] ELSE frames[i - p]
      BY <1>5, SeqConcat
    <2>2. Way' = to_exch \o oe_pending'
      BY <1>5 DEF Way
    <2>3. DOMAIN Way' = 1 .. m + p + n /\ \A i \in 1 .. m + p + n :
            Way'[i] = IF i <= m THEN to_exch[i] ELSE oe_pending'[i - m]
      <3>1. Way' \in Seq(Frames) /\ Len(Way') = m + (p + n) /\ \A i \in 1 .. m + (p + n) :
            Way'[i] = IF i <= m THEN to_exch[i] ELSE oe_pending'[i - m]
        <4>1. Way' \in Seq(Frames) /\ Len(Way') = Len(to_exch) + Len(oe_pending')
              /\ \A i \in 1 .. Len(to_exch) + Len(oe_pending') :
                   Way'[i] = IF i <= Len(to_exch) THEN to_exch[i] ELSE oe_pending'[i - Len(to_exch)]
          <5>1. oe_pending' \in Seq(Frames)
            BY <2>1
          <5> QED BY <2>2, <5>1, SeqConcat
        <4> QED BY <2>1, <4>1
      <3> QED BY <1>0, <3>1, SeqLen
    <2>4. ASSUME NEW i \in 1 .. m + p + n
          PROVE  \/ i \in 1 .. m + p /\ Way'[i] = Way[i]
                 \/ i \notin 1 .. m + p /\ i - (m + p) \in 1 .. n /\ Way'[i] = frames[i - (m + p)]
      <3>1. CASE i <= m
        BY <1>0, <1>1, <2>3, <3>1
      <3>2. CASE i > m /\ i <= m + p
        <4>1. i - m \in 1 .. p /\ m + (i - m) = i
          BY <1>0, <3>2
        <4>2. Way[i] = oe_pending[i - m]
          BY <1>1, <4>1
        <4>3. Way'[i] = oe_pending'[i - m] /\ oe_pending'[i - m] = oe_pending[i - m]
          BY <1>0, <2>1, <2>3, <3>2, <4>1
        <4> QED BY <1>0, <3>2, <4>2, <4>3
      <3>3. CASE i > m + p
        <4>1. i - m \in 1 .. p + n /\ ~(i - m <= p) /\ (i - m) - p = i - (m + p) /\ ~(i <= m)
          BY <1>0, <3>3
        <4>2. Way'[i] = frames[i - (m + p)]
          BY <2>1, <2>3, <4>1
        <4> QED BY <1>0, <3>3, <4>2
      <3> QED BY <1>0, <3>1, <3>2, <3>3
    <2> HIDE DEF m, p, n
    <2> QED BY <1>1, <1>5, <2>1, <2>3, <2>4 DEF m, p, n
  <1>6. CASE /\ oe_pending = << >>
             /\ to_exch' = to_exch \o sent
             /\ oe_pending' = IF broken THEN << >> ELSE rest
             /\ oe_up' = ~broken
             /\ UNCHANGED <<conn, from_exch>>
    <2> DEFINE q == IF broken THEN 0 ELSE n - k
    <2>0. p = 0 /\ q \in Nat /\ k + q <= n
      BY <1>0, <1>6
    <2>1. to_exch' \in Seq(Frames) /\ Len(to_exch') = m + k
          /\ \A i \in 1 .. m + k : to_exch'[i] = IF i <= m THEN to_exch[i] ELSE sent[i - m]
      BY <1>3, <1>6, SeqConcat
    <2>2. oe_pending' \in Seq(Frames) /\ Len(oe_pending') = q /\ \A i \in 1 .. q : oe_pending'[i] = frames[k + i]
      <3>1. CASE broken
        BY <1>6, <3>1
      <3>2. CASE ~broken
        BY <1>2, <1>6, <3>2
      <3> QED BY <3>1, <3>2
    <2> HIDE DEF q
    <2>3. DOMAIN Way' = 1 .. m + k + q /\ \A i \in 1 .. m + k + q :
            Way'[i] = IF i <= m + k THEN to_exch'[i] ELSE oe_pending'[i - (m + k)]
      <3>1. Way' \in Seq(Frames) /\ Len(Way') = (m + k) + q /\ \A i \in 1 .. (m + k) + q :
            Way'[i] = IF i <= m + k THEN to_exch'[i] ELSE oe_pending'[i - (m + k)]
        <4>1. Way' \in Seq(Frames) /\ Len(Way') = Len(to_exch') + Len(oe_pending')
              /\ \A i \in 1 .. Len(to_exch') + Len(oe_pending') :
                   Way'[i] = IF i <= Len(to_exch') THEN to_exch'[i] ELSE oe_pending'[i - Len(to_exch')]
          <5>1. to_exch' \in Seq(Frames) /\ oe_pending' \in Seq(Frames)
            BY <2>1, <2>2
          <5> QED BY <5>1, SeqConcat DEF Way
        <4> QED BY <2>1, <2>2, <4>1
      <3> QED BY <1>0, <2>0, <3>1, SeqLen
    <2>4. ASSUME NEW i \in 1 .. m + k + q
          PROVE  \/ i \in 1 .. m + p /\ Way'[i] = Way[i]
                 \/ i \notin 1 .. m + p /\ i - (m + p) \in 1 .. n /\ Way'[i] = frames[i - (m + p)]
      <3>1. CASE i <= m
        <4>1. i \in 1 .. m /\ i \in 1 .. m + k /\ i \in 1 .. m + p
          BY <1>0, <2>0, <3>1
        <4>2. Way'[i] = to_exch'[i] /\ to_exch'[i] = to_exch[i] /\ Way[i] = to_exch[i]
          BY <1>0, <1>1, <2>1, <2>3, <3>1, <4>1
        <4> QED BY <4>1, <4>2
      <3>2. CASE i > m /\ i <= m + k
        <4>1. i - m \in 1 .. k
          BY <1>0, <3>2
        <4>2. Way'[i] = sent[i - m] /\ sent[i - m] = frames[i - m]
          BY <1>0, <1>3, <2>1, <2>3, <3>2, <4>1
        <4> QED BY <1>0, <2>0, <3>2, <4>1, <4>2
      <3>3. CASE i > m + k
        <4>1. i - (m + k) \in 1 .. q /\ k + (i - (m + k)) = i - m /\ ~(i <= m + k)
          BY <1>0, <2>0, <3>3
        <4>2. Way'[i] = oe_pending'[i - (m + k)]
          BY <2>3, <4>1
        <4>3. oe_pending'[i - (m + k)] = frames[k + (i - (m + k))]
          BY <2>2, <4>1
        <4> QED BY <1>0, <2>0, <3>3, <4>1, <4>2, <4>3
      <3> QED BY <1>0, <3>1, <3>2, <3>3
    <2>5. oe_up' \in BOOLEAN
      BY <1>6
    <2> HIDE DEF m, p, n, q
    <2> QED BY <1>1, <1>6, <2>1, <2>2, <2>3, <2>4, <2>5 DEF m, p, n
  <1> QED BY <1>4, <1>5, <1>6 DEF OeSend

\* cancel_all builds cancels.
LEMMA CancelsType ==
  ASSUME Laws, TypeInv
  PROVE  Cancels \in Seq(Frames) /\ \A i \in DOMAIN Cancels : Cancels[i].type = "X"
  <1> DEFINE live == {r \in DOMAIN orders : orders[r].leaves > 0}
             n == Cardinality(live)
             Inj(f) == \A i, j \in DOMAIN f : f[i] = f[j] => i = j
             refs == CHOOSE f \in [1 .. n -> live] : Inj(f)
  <1>1. live \in SUBSET DOMAIN orders /\ live \subseteq Nat
    BY DEF TypeInv
  <1>2. IsFiniteSet(live)
    BY <1>1, TableFinite, FinSubset
  <1>3. n \in Nat
    BY <1>2, FinCount
  <1>4. \E f \in [1 .. n -> live] : Inj(f)
    BY <1>2, FinCount, Zenon
  <1>5. refs \in [1 .. n -> live]
    BY <1>4, Zenon
  <1>6. Cancels = [i \in DOMAIN refs |-> [type |-> "X", ref |-> refs[i]]]
    BY DEF Cancels
  <1> HIDE DEF refs, live, n
  <1>7. DOMAIN Cancels = 1 .. n /\ \A i \in 1 .. n : Cancels[i] = [type |-> "X", ref |-> refs[i]] /\ refs[i] \in Nat
    BY <1>1, <1>5, <1>6
  <1>8. Cancels \in [1 .. n -> Frames]
    BY <1>5, <1>6, <1>7 DEF Frames
  <1> QED BY <1>3, <1>7, <1>8
----------------------------------------------------------------------------
(* The exchange's steps.                                                    *)

\* The frames on their way stay (d = 0), or the first has arrived (d = 1).
WayShifts(d) == \A i \in DOMAIN Way' : i \in Nat \ {0} /\ i + d \in DOMAIN Way /\ Way'[i] = Way[i + d]
WayArrives == \E d \in {0, 1} : WayShifts(d)

\* The exchange takes a frame.
LEMMA WayHead ==
  ASSUME Laws, to_exch \in Seq(Frames), oe_pending \in Seq(Frames), to_exch # << >>,
         to_exch' = Tail(to_exch), oe_pending' = oe_pending
  PROVE  /\ 1 \in DOMAIN Way /\ Way[1] = Head(to_exch) /\ Head(to_exch) \in Frames
         /\ to_exch' \in Seq(Frames) /\ oe_pending' \in Seq(Frames) /\ WayShifts(1)
  <1> DEFINE m == Len(to_exch)
             p == Len(oe_pending)
  <1>1. /\ m \in Nat \ {0} /\ p \in Nat /\ Head(to_exch) = to_exch[1] /\ Head(to_exch) \in Frames
        /\ to_exch' \in Seq(Frames) /\ Len(to_exch') = m - 1
        /\ \A i \in 1 .. m - 1 : to_exch'[i] = to_exch[i + 1]
    BY SeqTail, SeqLen, SeqEmpty
  <1>2. /\ DOMAIN Way = 1 .. m + p
        /\ \A i \in 1 .. m : Way[i] = to_exch[i]
        /\ \A i \in 1 .. p : Way[m + i] = oe_pending[i]
    BY WayType, Zenon
  <1>3. /\ DOMAIN Way' = 1 .. m - 1 + p
        /\ \A i \in 1 .. m - 1 + p : Way'[i] = IF i <= m - 1 THEN to_exch'[i] ELSE oe_pending[i - (m - 1)]
    <2>1. /\ to_exch' \o oe_pending' \in Seq(Frames) /\ Len(to_exch' \o oe_pending') = Len(to_exch') + Len(oe_pending')
          /\ \A i \in 1 .. Len(to_exch') + Len(oe_pending') :
               (to_exch' \o oe_pending')[i] = IF i <= Len(to_exch') THEN to_exch'[i] ELSE oe_pending'[i - Len(to_exch')]
      <3>1. to_exch' \in Seq(Frames) /\ oe_pending' \in Seq(Frames)
        BY <1>1
      <3> QED BY <3>1, SeqConcat
    <2>2. Way' = to_exch' \o oe_pending'
      BY DEF Way
    <2> QED BY <1>1, <2>1, <2>2, SeqLen
  <1> HIDE DEF m, p
  <1>4. ASSUME NEW i \in 1 .. m - 1 + p PROVE i + 1 \in 1 .. m + p /\ Way'[i] = Way[i + 1]
    <2>1. CASE i <= m - 1
      BY <1>1, <1>2, <1>3, <2>1
    <2>2. CASE i > m - 1
      <3>1. i - (m - 1) \in 1 .. p /\ m + (i - (m - 1)) = i + 1
        BY <1>1, <2>2
      <3>2. Way[i + 1] = oe_pending[i - (m - 1)]
        BY <1>2, <3>1
      <3>3. Way'[i] = oe_pending[i - (m - 1)]
        BY <1>1, <1>3, <2>2
      <3> QED BY <1>1, <3>2, <3>3
    <2> QED BY <1>1, <2>1, <2>2
  <1>5. WayShifts(1)
    BY <1>1, <1>2, <1>3, <1>4 DEF WayShifts
  <1> QED BY <1>1, <1>2, <1>5

\* Nothing arrives.
LEMMA WaySame ==
  ASSUME Laws, to_exch \in Seq(Frames), oe_pending \in Seq(Frames), Way' = Way
  PROVE  WayShifts(0)
  <1>1. DOMAIN Way = 1 .. Len(Way) /\ Len(Way) \in Nat
    BY WayType
  <1>2. DOMAIN Way' = DOMAIN Way
    OBVIOUS
  <1> QED BY <1>1, <1>2 DEF WayShifts

\* One report about order e.ref is sent, and the exchange's entry for that order
\* changes with it.
Tells(e) ==
  /\ conn /\ e \in Reports /\ from_exch' = Append(from_exch, e) /\ e.ref \in DOMAIN orders
  /\ UNCHANGED <<orders, next_user_ref, risk, now, sends, phase, conn, oe_up>>
  /\ to_exch' \in Seq(Frames) /\ oe_pending' \in Seq(Frames) /\ WayArrives
  /\ \A i \in DOMAIN Way' : Way'[i].type = "O" => Way'[i].ref # e.ref
  /\ e.type \in {"E", "C"} <=> e.qty > 0
  /\ e.type = "J" => e.ref \notin DOMAIN exch'
  /\ e.type \in {"A", "J"} => \A i \in DOMAIN from_exch : from_exch[i].ref # e.ref
  /\ \A i \in DOMAIN from_exch : from_exch[i].ref = e.ref => from_exch[i].type # "J"
  /\ exch' \in [DOMAIN exch' -> [side : Sides, left : Nat \ {0}]]
  /\ \A r \in DOMAIN exch' : r = e.ref \/ (r \in DOMAIN exch /\ exch'[r] = exch[r])
  /\ e.ref \in DOMAIN exch' => exch'[e.ref].side = orders[e.ref].side
  /\ Told(from_exch, {"E", "C"}, e.ref) + e.qty + Left(e.ref)' <= orders[e.ref].leaves
  /\ xpos' = xpos + (IF e.type = "E" THEN Sign(orders[e.ref].side) * e.qty ELSE 0)

\* Such a step keeps the invariant.
LEMMA TellIInv ==
  ASSUME Laws, IInv, NEW e, Tells(e)
  PROVE  IInv'
  <1> USE DEF Tells
  <1>i. /\ TypeInv /\ GateInv /\ WayInv /\ ExchInv /\ ReportInv /\ FitInv /\ PositionInv
        /\ RingInv /\ RateLimit
    BY DEF IInv
  <1>0. /\ from_exch \in Seq(Reports) /\ from_exch' \in Seq(Reports)
        /\ DOMAIN from_exch = 1 .. Len(from_exch) /\ Len(from_exch) \in Nat
        /\ DOMAIN from_exch' = 1 .. Len(from_exch) + 1
        /\ from_exch'[Len(from_exch) + 1] = e
        /\ \A i \in 1 .. Len(from_exch) : from_exch'[i] = from_exch[i]
    <2>1. from_exch \in Seq(Reports)
      BY <1>i DEF TypeInv
    <2> QED BY <2>1, SeqAppend, SeqLen
  <1>1. IsFiniteSet(DOMAIN orders) /\ orders \in [DOMAIN orders -> Entries]
    BY <1>i, TableFinite DEF TypeInv
  <1>2. e.qty \in Nat /\ e.type \in {"A", "J", "E", "C"} /\ xpos \in Int
        /\ orders[e.ref].side \in {"Buy", "Sell"}
    BY <1>i, <1>1 DEF Reports, TypeInv, Entries, Sides
  <1>3. \A T, r : Told(from_exch', T, r) = Told(from_exch, T, r) + (IF e.type \in T /\ e.ref = r THEN e.qty ELSE 0)
    BY <1>0, ToldAppend
  <1>4. \A T, r : Told(from_exch, T, r) \in Nat /\ Told(from_exch', T, r) \in Nat
    <2>1. from_exch \in Seq(Reports) /\ from_exch' \in Seq(Reports)
      BY <1>0
    <2> QED BY <2>1, ToldType, Zenon
  <1>5. TypeInv'
    <2>1. xpos' \in Int
      BY <1>2 DEF Sign
    <2> QED BY <1>i, <1>0, <2>1 DEF TypeInv
  <1>6. GateInv' /\ RingInv' /\ RateLimit'
    BY <1>i DEF GateInv, RingInv, RateLimit
  <1>7. ExchInv'
    BY <1>i DEF ExchInv
  <1>8. WayInv'
    <2>1. PICK d \in {0, 1} : \A i \in DOMAIN Way' : i \in Nat /\ i + d \in DOMAIN Way /\ Way'[i] = Way[i + d]
      BY DEF WayArrives, WayShifts
    <2>2. ASSUME NEW i \in DOMAIN Way', Way'[i].type = "O"
          PROVE  /\ Way'[i].ref \in DOMAIN orders
                 /\ orders[Way'[i].ref] = [side |-> Way'[i].side, leaves |-> Way'[i].qty]
                 /\ Way'[i].ref \notin DOMAIN exch'
                 /\ \A j \in DOMAIN from_exch' : from_exch'[j].ref # Way'[i].ref
      <3>1. Way'[i].ref # e.ref
        BY <2>2
      <3>2. /\ Way'[i].ref \in DOMAIN orders
            /\ orders[Way'[i].ref] = [side |-> Way'[i].side, leaves |-> Way'[i].qty]
            /\ Way'[i].ref \notin DOMAIN exch
            /\ \A j \in DOMAIN from_exch : from_exch[j].ref # Way'[i].ref
        BY <1>i, <2>1, <2>2 DEF WayInv
      <3>3. Way'[i].ref \notin DOMAIN exch'
        BY <3>1, <3>2
      <3>4. \A j \in DOMAIN from_exch' : from_exch'[j].ref # Way'[i].ref
        BY <1>0, <3>1, <3>2
      <3> QED BY <3>2, <3>3, <3>4
    <2>3. ASSUME NEW i \in DOMAIN Way', NEW j \in DOMAIN Way',
                 i # j, Way'[i].type = "O", Way'[j].type = "O"
          PROVE  Way'[i].ref # Way'[j].ref
      <3>1. i + d # j + d /\ i + d \in DOMAIN Way /\ j + d \in DOMAIN Way
        BY <2>1, <2>3
      <3> QED BY <1>i, <2>1, <2>3, <3>1 DEF WayInv
    <2>4. UNCHANGED orders
      OBVIOUS
    <2> QED BY <1>i, <2>2, <2>3, <2>4 DEF WayInv
  <1>9. ReportInv'
    <2>1. ASSUME NEW i \in DOMAIN from_exch'
          PROVE  /\ from_exch'[i].ref \in DOMAIN orders
                 /\ from_exch'[i].type \in {"E", "C"} <=> from_exch'[i].qty > 0
                 /\ from_exch'[i].type = "J" => from_exch'[i].ref \notin DOMAIN exch'
      <3>1. CASE i \in DOMAIN from_exch
        <4>1. from_exch'[i] = from_exch[i]
          BY <1>0, <3>1
        <4>2. /\ from_exch[i].ref \in DOMAIN orders
              /\ from_exch[i].type \in {"E", "C"} <=> from_exch[i].qty > 0
              /\ from_exch[i].type = "J" => from_exch[i].ref \notin DOMAIN exch
          BY <1>i, <3>1 DEF ReportInv
        <4>3. from_exch[i].type = "J" => from_exch[i].ref # e.ref
          BY <3>1
        <4> QED BY <4>1, <4>2, <4>3
      <3>2. CASE i \notin DOMAIN from_exch
        BY <1>0, <3>2
      <3> QED BY <3>1, <3>2
    <2>2. ASSUME NEW i \in DOMAIN from_exch', NEW j \in DOMAIN from_exch', i < j,
                 from_exch'[i].ref = from_exch'[j].ref
          PROVE  from_exch'[i].type # "J" /\ from_exch'[j].type \in {"E", "C"}
      <3>1. i \in DOMAIN from_exch /\ from_exch'[i] = from_exch[i]
        BY <1>0, <2>2
      <3>2. CASE j \in DOMAIN from_exch
        BY <1>i, <1>0, <2>2, <3>1, <3>2 DEF ReportInv
      <3>3. CASE j \notin DOMAIN from_exch
        <4>1. from_exch'[j] = e
          BY <1>0, <3>3
        <4> QED BY <1>2, <2>2, <3>1, <4>1
      <3> QED BY <3>2, <3>3
    <2> QED BY <1>i, <2>1, <2>2 DEF ReportInv
  <1>10. FitInv'
    <2> SUFFICES ASSUME NEW r \in DOMAIN orders
                 PROVE  Told(from_exch', {"E", "C"}, r) + Left(r)' <= orders[r].leaves
      BY <1>i DEF FitInv
    <2>1. CASE r = e.ref
      <3>1. Left(e.ref)' \in Nat
        BY DEF Left
      <3>2. Told(from_exch', {"E", "C"}, r) <= Told(from_exch, {"E", "C"}, e.ref) + e.qty
        BY <1>2, <1>3, <1>4, <2>1
      <3>3. orders[r].leaves \in Nat /\ Told(from_exch', {"E", "C"}, r) \in Nat
        BY <1>1, <1>4 DEF Entries
      <3> QED BY <1>2, <1>4, <2>1, <3>1, <3>2, <3>3
    <2>2. CASE r # e.ref
      <3>1. Told(from_exch', {"E", "C"}, r) = Told(from_exch, {"E", "C"}, r)
        BY <1>3, <1>4, <2>2
      <3>2. Told(from_exch, {"E", "C"}, r) + Left(r) <= orders[r].leaves
        BY <1>i DEF FitInv
      <3>3. Left(r)' = Left(r) \/ Left(r)' = 0
        BY <2>2 DEF Left
      <3>4. Left(r) \in Nat /\ orders[r].leaves \in Nat
        BY <1>i, <1>1 DEF Left, TypeInv, Entries
      <3> QED BY <1>4, <3>1, <3>2, <3>3, <3>4
    <2> QED BY <2>1, <2>2
  <1>11. PositionInv'
    <2> DEFINE S == orders[e.ref].side
               U(s) == Untold(orders, from_exch, s)
               V(s) == Untold(orders, from_exch', s)
    <2>1. \A s : Untold(orders, Append(from_exch, e), s) = Untold(orders, from_exch, s)
            + (IF e.type = "E" /\ orders[e.ref].side = s THEN e.qty ELSE 0)
      <3>1. from_exch \in Seq(Reports) /\ e.ref \in DOMAIN orders
        BY <1>0
      <3> QED BY <1>1, <3>1, UntoldAppend
    <2>2. \A s : U(s) \in Nat /\ V(s) \in Nat
      <3>1. from_exch \in Seq(Reports) /\ from_exch' \in Seq(Reports)
        BY <1>0
      <3> QED BY <1>1, <3>1, SideType, Zenon
    <2>3. \A s : V(s) = U(s) + (IF S = s /\ e.type = "E" THEN e.qty ELSE 0)
      BY <2>1
    <2>4. xpos = risk.position + U("Buy") - U("Sell") /\ risk.position \in Int
      BY <1>i DEF PositionInv, TypeInv, Gates
    <2>5. xpos' = risk.position + V("Buy") - V("Sell")
      <3>1. V("Buy") = U("Buy") + (IF S = "Buy" /\ e.type = "E" THEN e.qty ELSE 0)
            /\ V("Sell") = U("Sell") + (IF S = "Sell" /\ e.type = "E" THEN e.qty ELSE 0)
        BY <2>3
      <3>2. xpos' = xpos + (IF e.type = "E" THEN Sign(S) * e.qty ELSE 0) /\ S \in {"Buy", "Sell"}
        BY <1>2
      <3>3. U("Buy") \in Nat /\ U("Sell") \in Nat
        BY <2>2
      <3> HIDE DEF S, U, V
      <3>4. CASE e.type = "E" /\ S = "Buy"
        <4>1. Sign(S) * e.qty = e.qty
          BY <1>2, <3>4 DEF Sign
        <4>2. V("Buy") = U("Buy") + e.qty /\ V("Sell") = U("Sell")
          BY <3>1, <3>3, <3>4
        <4>3. xpos' = xpos + e.qty
          BY <3>2, <3>4, <4>1
        <4> QED BY <1>2, <2>4, <3>3, <4>2, <4>3
      <3>5. CASE e.type = "E" /\ S = "Sell"
        <4>1. Sign(S) * e.qty = 0 - e.qty
          BY <1>2, <3>5 DEF Sign
        <4>2. V("Buy") = U("Buy") /\ V("Sell") = U("Sell") + e.qty
          BY <3>1, <3>3, <3>5
        <4>3. xpos' = xpos + (0 - e.qty)
          BY <3>2, <3>5, <4>1
        <4>4. e.qty \in Nat
          BY <1>2
        <4> QED BY <2>4, <3>3, <4>2, <4>3, <4>4
      <3>6. CASE e.type # "E"
        BY <1>2, <2>4, <3>1, <3>2, <3>3, <3>6
      <3> QED BY <3>2, <3>4, <3>5, <3>6
    <2>6. ASSUME NEW s \in Sides PROVE V(s) <= risk.open[s] /\ risk.open[s] \in Nat
      <3>1. ASSUME NEW r \in DOMAIN orders PROVE Told(from_exch', {"E", "C"}, r) <= orders[r].leaves
        <4>1. Told(from_exch', {"E", "C"}, r) + Left(r)' <= orders[r].leaves
          BY <1>i, <1>10 DEF FitInv
        <4>2. Left(r)' \in Nat /\ Told(from_exch', {"E", "C"}, r) \in Nat /\ orders[r].leaves \in Nat
          BY <1>1, <1>4 DEF Left, Entries
        <4> QED BY <4>1, <4>2
      <3>2. V(s) <= Leaves(orders, s)
        <4>1. from_exch' \in Seq(Reports)
          BY <1>0
        <4> QED BY <1>1, <3>1, <4>1, UntoldBound, Zenon
      <3>3. risk.open[s] = Leaves(orders, s) /\ risk.open[s] \in Nat
        BY <1>i DEF GateInv, TypeInv, Gates
      <3> QED BY <3>2, <3>3
    <2>7. xpos' <= risk.position + risk.open["Buy"] /\ xpos' >= risk.position - risk.open["Sell"]
      <3>1. V("Buy") <= risk.open["Buy"] /\ V("Sell") <= risk.open["Sell"]
            /\ risk.open["Buy"] \in Nat /\ risk.open["Sell"] \in Nat /\ V("Buy") \in Nat /\ V("Sell") \in Nat
        BY <2>2, <2>6 DEF Sides
      <3> HIDE DEF V
      <3> QED BY <2>4, <2>5, <3>1
    <2>8. xpos' = risk.position + Untold(orders, from_exch', "Buy") - Untold(orders, from_exch', "Sell")
      BY <2>5
    <2> HIDE DEF U, V, S
    <2> QED BY <1>i, <2>7, <2>8 DEF PositionInv
  <1> QED BY <1>5, <1>6, <1>7, <1>8, <1>9, <1>10, <1>11 DEF IInv

\* Shares of an order leave the exchange's book, traded or cancelled, and are
\* reported.
LEMMA LeaveIInv ==
  ASSUME Laws, IInv, conn, NEW r \in DOMAIN exch, NEW q \in 1 .. exch[r].left, NEW T \in {"E", "C"},
         Tell(T, r, q),
         exch' = IF q = exch[r].left THEN Drop(exch, r) ELSE [exch EXCEPT ![r].left = @ - q],
         xpos' = xpos + (IF T = "E" THEN Sign(exch[r].side) * q ELSE 0),
         UNCHANGED <<orders, next_user_ref, risk, now, sends, phase, conn, oe_up>>,
         to_exch' \in Seq(Frames), oe_pending' \in Seq(Frames), WayArrives
  PROVE  IInv'
  <1>i. /\ TypeInv /\ GateInv /\ WayInv /\ ExchInv /\ ReportInv /\ FitInv /\ PositionInv
        /\ RingInv /\ RateLimit
    BY DEF IInv
  <1> DEFINE e == [type |-> T, ref |-> r, qty |-> q]
  <1>1. /\ r \in DOMAIN orders /\ exch[r].side = orders[r].side /\ r \in Nat
        /\ exch[r].left \in Nat \ {0} /\ exch[r] \in [side : Sides, left : Nat \ {0}]
    <2>1. r \in DOMAIN orders /\ exch[r].side = orders[r].side
      BY <1>i DEF ExchInv
    <2>2. exch[r] \in [side : Sides, left : Nat \ {0}]
      BY <1>i DEF TypeInv
    <2>3. r \in Nat
      BY <1>i, <2>1 DEF TypeInv
    <2> QED BY <2>1, <2>2, <2>3
  <1>2. q \in Nat \ {0} /\ q <= exch[r].left
    BY <1>1
  <1>3. e \in Reports /\ e.type = T /\ e.ref = r /\ e.qty = q
    BY <1>1, <1>2 DEF Reports
  <1>4. from_exch' = Append(from_exch, e)
    BY DEF Tell
  <1>5. \A i \in DOMAIN Way' : Way'[i].type = "O" => Way'[i].ref # r
    <2>1. PICK d \in {0, 1} : WayShifts(d)
      BY DEF WayArrives
    <2> SUFFICES ASSUME NEW i \in DOMAIN Way', Way'[i].type = "O" PROVE Way'[i].ref # r
      OBVIOUS
    <2>2. i + d \in DOMAIN Way /\ Way'[i] = Way[i + d]
      BY <2>1 DEF WayShifts
    <2>3. \A j \in DOMAIN Way : Way[j].type = "O" => Way[j].ref \notin DOMAIN exch
      BY <1>i, Zenon DEF WayInv
    <2> QED BY <2>2, <2>3
  <1>6. \A i \in DOMAIN from_exch : from_exch[i].ref = r => from_exch[i].type # "J"
    BY <1>i DEF ReportInv
  <1>7. /\ exch' \in [DOMAIN exch' -> [side : Sides, left : Nat \ {0}]]
        /\ \A x \in DOMAIN exch' : x = r \/ (x \in DOMAIN exch /\ exch'[x] = exch[x])
        /\ r \in DOMAIN exch' => exch'[r].side = orders[r].side
        /\ Left(r)' = exch[r].left - q
    <2>0. exch \in [DOMAIN exch -> [side : Sides, left : Nat \ {0}]]
      BY <1>i DEF TypeInv
    <2>1. CASE q = exch[r].left
      <3>1. exch' = [x \in DOMAIN exch \ {r} |-> exch[x]]
        BY <2>1 DEF Drop
      <3>2. DOMAIN exch' = DOMAIN exch \ {r} /\ \A x \in DOMAIN exch \ {r} : exch'[x] = exch[x]
        BY <3>1
      <3>3. exch' \in [DOMAIN exch' -> [side : Sides, left : Nat \ {0}]]
        BY <2>0, <3>1
      <3> QED BY <1>1, <1>2, <2>1, <3>2, <3>3 DEF Left
    <2>2. CASE q # exch[r].left
      <3>1. exch' = [exch EXCEPT ![r].left = @ - q]
        BY <2>2
      <3>2. exch[r].left - q \in Nat \ {0}
        BY <1>1, <1>2, <2>2
      <3>3. DOMAIN exch' = DOMAIN exch /\ exch'[r] = [exch[r] EXCEPT !.left = @ - q]
            /\ \A x \in DOMAIN exch \ {r} : exch'[x] = exch[x]
        BY <3>1
      <3>4. exch'[r] \in [side : Sides, left : Nat \ {0}] /\ exch'[r].side = exch[r].side
            /\ exch'[r].left = exch[r].left - q
        BY <1>1, <3>2, <3>3, Zenon
      <3>5. exch' \in [DOMAIN exch' -> [side : Sides, left : Nat \ {0}]]
        BY <2>0, <3>1, <3>3, <3>4
      <3> QED BY <1>1, <3>3, <3>4, <3>5 DEF Left
    <2> QED BY <2>1, <2>2
  <1>8. Told(from_exch, {"E", "C"}, r) + q + Left(r)' <= orders[r].leaves
    <2>1. Told(from_exch, {"E", "C"}, r) \in Nat
      BY <1>i, ToldType DEF TypeInv
    <2>2. Told(from_exch, {"E", "C"}, r) + exch[r].left <= orders[r].leaves
      BY <1>i, <1>1 DEF FitInv, Left
    <2>3. orders[r].leaves \in Nat
      BY <1>i, <1>1 DEF TypeInv, Entries
    <2> QED BY <1>1, <1>2, <1>7, <2>1, <2>2, <2>3
  <1> HIDE DEF e
  <1>9. Tells(e)
    BY <1>1, <1>2, <1>3, <1>4, <1>5, <1>6, <1>7, <1>8 DEF Tells
  <1> QED BY <1>9, TellIInv

\* XFill, XExpire and XCancel of an order in the exchange's book are such steps.
LEMMA XFillIInv ==
  ASSUME Laws, IInv, NEW r \in DOMAIN exch, NEW q \in 1 .. exch[r].left, XFill(r, q)
  PROVE  IInv'
  <1>1. to_exch \in Seq(Frames) /\ oe_pending \in Seq(Frames)
    BY DEF IInv, TypeInv
  <1>2. /\ conn /\ Tell("E", r, q) /\ exch' = (IF q = exch[r].left THEN Drop(exch, r) ELSE [exch EXCEPT ![r].left = @ - q])
        /\ xpos' = xpos + Sign(exch[r].side) * q
        /\ UNCHANGED <<orders, next_user_ref, risk, now, sends, phase, conn, oe_up, to_exch, oe_pending>>
    BY DEF XFill, tradeVars
  <1>3. WayArrives
    BY <1>1, <1>2, WaySame DEF WayArrives, Way
  <1>4. xpos' = xpos + (IF "E" = "E" THEN Sign(exch[r].side) * q ELSE 0) /\ "E" \in {"E", "C"}
        /\ to_exch' \in Seq(Frames) /\ oe_pending' \in Seq(Frames)
    BY <1>1, <1>2
  <1> QED BY <1>2, <1>3, <1>4, LeaveIInv

\* The whole of what the exchange has of an order is cancelled.
LEMMA WithdrawIInv ==
  ASSUME Laws, IInv, conn, NEW r \in DOMAIN exch, Tell("C", r, exch[r].left), exch' = Drop(exch, r),
         UNCHANGED <<orders, next_user_ref, risk, now, sends, phase, conn, oe_up, xpos>>,
         to_exch' \in Seq(Frames), oe_pending' \in Seq(Frames), WayArrives
  PROVE  IInv'
  <1> DEFINE q == exch[r].left
  <1>1. q \in 1 .. exch[r].left /\ xpos \in Int
    BY DEF IInv, TypeInv
  <1>2. Tell("C", r, q) /\ "C" \in {"E", "C"}
        /\ exch' = (IF q = exch[r].left THEN Drop(exch, r) ELSE [exch EXCEPT ![r].left = @ - q])
        /\ xpos' = xpos + (IF "C" = "E" THEN Sign(exch[r].side) * q ELSE 0)
    BY <1>1
  <1> HIDE DEF q
  <1> QED BY <1>1, <1>2, LeaveIInv

\* The exchange cancels an order of its own accord.
LEMMA XExpireIInv ==
  ASSUME Laws, IInv, NEW r \in DOMAIN exch, XExpire(r)
  PROVE  IInv'
  <1>1. to_exch \in Seq(Frames) /\ oe_pending \in Seq(Frames)
    BY DEF IInv, TypeInv
  <1>2. /\ conn /\ Tell("C", r, exch[r].left) /\ exch' = Drop(exch, r)
        /\ UNCHANGED <<orders, next_user_ref, risk, now, sends, phase, conn, oe_up, xpos, to_exch, oe_pending>>
    BY DEF XExpire, tradeVars
  <1>3. WayArrives
    BY <1>1, <1>2, WaySame DEF WayArrives, Way
  <1>4. to_exch' \in Seq(Frames) /\ oe_pending' \in Seq(Frames)
    BY <1>1, <1>2
  <1> QED BY <1>2, <1>3, <1>4, WithdrawIInv

\* A cancel that comes too late only leaves the way.
LEMMA XCancelIInv ==
  ASSUME Laws, IInv, XCancel
  PROVE  IInv'
  <1>1. to_exch \in Seq(Frames) /\ oe_pending \in Seq(Frames) /\ now \in Nat /\ oe_up \in BOOLEAN
        /\ phase \in {"run", "wind", "gone"}
    BY DEF IInv, TypeInv
  <1>2. /\ conn /\ to_exch # << >> /\ to_exch' = Tail(to_exch)
        /\ UNCHANGED <<orders, next_user_ref, risk, now, sends, phase, conn, oe_up, xpos, oe_pending>>
    BY DEF XCancel, tradeVars
  <1>3. to_exch' \in Seq(Frames) /\ oe_pending' \in Seq(Frames) /\ WayShifts(1)
    <2>1. oe_pending' = oe_pending
      BY <1>2
    <2> QED BY <1>1, <1>2, <2>1, WayHead
  <1>4. WayArrives
    BY <1>3 DEF WayArrives
  <1> DEFINE r == Head(to_exch).ref
  <1>5. CASE r \in DOMAIN exch
    <2>1. exch' = Drop(exch, r) /\ Tell("C", r, exch[r].left)
      BY <1>5 DEF XCancel
    <2> HIDE DEF r
    <2> QED BY <1>2, <1>3, <1>4, <1>5, <2>1, WithdrawIInv
  <1>6. CASE r \notin DOMAIN exch
    <2>1. UNCHANGED <<exch, from_exch>>
      BY <1>6 DEF XCancel
    <2>2. WayKeeps
      BY <1>3 DEF WayShifts, WayKeeps
    <2>3. UNCHANGED <<orders, next_user_ref, risk, exch, xpos, from_exch, sends>> /\ UNCHANGED <<conn, phase>>
          /\ now' \in Nat /\ oe_up' \in BOOLEAN /\ phase' \in {"run", "wind", "gone"}
      BY <1>1, <1>2, <2>1
    <2> QED BY <1>3, <2>2, <2>3, SteadyIInv
  <1> QED BY <1>5, <1>6

\* An order comes in: its first report.
LEMMA XEnterIInv ==
  ASSUME Laws, IInv, NEW ok \in BOOLEAN, XEnter(ok)
  PROVE  IInv'
  <1>i. /\ TypeInv /\ GateInv /\ WayInv /\ ExchInv /\ ReportInv /\ FitInv /\ PositionInv
        /\ RingInv /\ RateLimit
    BY DEF IInv
  <1>0. PICK f : f = Head(to_exch)
    OBVIOUS
  <1> DEFINE r == f.ref
             e == [type |-> IF ok THEN "A" ELSE "J", ref |-> r, qty |-> 0]
  <1>1. to_exch \in Seq(Frames) /\ oe_pending \in Seq(Frames) /\ xpos \in Int
    BY <1>i DEF TypeInv
  <1>2. /\ conn /\ to_exch # << >> /\ f.type = "O" /\ to_exch' = Tail(to_exch) /\ from_exch' = Append(from_exch, e)
        /\ exch' = (IF ok THEN Put(exch, r, [side |-> f.side, left |-> f.qty]) ELSE exch)
        /\ UNCHANGED <<orders, next_user_ref, risk, now, sends, phase, conn, oe_up, xpos, oe_pending>>
    BY <1>0 DEF XEnter, Tell, tradeVars
  <1>3. /\ 1 \in DOMAIN Way /\ Way[1] = f /\ f \in Frames
        /\ to_exch' \in Seq(Frames) /\ oe_pending' \in Seq(Frames) /\ WayShifts(1)
    <2>1. oe_pending' = oe_pending
      BY <1>2
    <2> QED BY <1>0, <1>1, <1>2, <2>1, WayHead
  <1>4. r \in Nat /\ f.side \in Sides /\ f.qty \in Nat \ {0}
    BY <1>2, <1>3 DEF Frames
  <1>5. e \in Reports /\ e.type = (IF ok THEN "A" ELSE "J") /\ e.ref = r /\ e.qty = 0
    BY <1>4 DEF Reports
  <1> HIDE DEF e
  <1>6. /\ r \in DOMAIN orders /\ orders[r] = [side |-> f.side, leaves |-> f.qty] /\ r \notin DOMAIN exch
        /\ \A j \in DOMAIN from_exch : from_exch[j].ref # r
    BY <1>i, <1>2, <1>3 DEF WayInv
  <1>7. \A i \in DOMAIN Way' : Way'[i].type = "O" => Way'[i].ref # r
    <2> SUFFICES ASSUME NEW i \in DOMAIN Way', Way'[i].type = "O" PROVE Way'[i].ref # r
      OBVIOUS
    <2>1. i + 1 \in DOMAIN Way /\ Way'[i] = Way[i + 1] /\ i + 1 # 1
      BY <1>3 DEF WayShifts
    <2> QED BY <1>i, <1>2, <1>3, <2>1 DEF WayInv
  <1>8. /\ exch' \in [DOMAIN exch' -> [side : Sides, left : Nat \ {0}]]
        /\ \A x \in DOMAIN exch' : x = r \/ (x \in DOMAIN exch /\ exch'[x] = exch[x])
        /\ r \in DOMAIN exch' => exch'[r].side = orders[r].side
        /\ ~ok => r \notin DOMAIN exch'
        /\ Left(r)' = 0 \/ Left(r)' = f.qty
    <2>1. exch \in [DOMAIN exch -> [side : Sides, left : Nat \ {0}]]
      BY <1>i DEF TypeInv
    <2>2. CASE ok
      <3> DEFINE n == [side |-> f.side, left |-> f.qty]
      <3>1. n \in [side : Sides, left : Nat \ {0}] /\ n.side = orders[r].side /\ n.left = f.qty
        BY <1>4, <1>6
      <3> HIDE DEF n, r
      <3>2. exch' = [x \in DOMAIN exch \cup {r} |-> IF x = r THEN n ELSE exch[x]]
        BY <1>2, <2>2 DEF Put, n, r
      <3>3. DOMAIN exch' = DOMAIN exch \cup {r} /\ exch'[r] = n /\ \A x \in DOMAIN exch \ {r} : exch'[x] = exch[x]
        BY <3>2
      <3>4. exch' \in [DOMAIN exch' -> [side : Sides, left : Nat \ {0}]]
        BY <2>1, <3>1, <3>2
      <3> QED BY <2>2, <3>1, <3>3, <3>4 DEF Left
    <2>3. CASE ~ok
      BY <1>2, <1>6, <2>1, <2>3 DEF Left
    <2> QED BY <2>2, <2>3
  <1>9. Told(from_exch, {"E", "C"}, r) + 0 + Left(r)' <= orders[r].leaves
    <2>1. Told(from_exch, {"E", "C"}, r) = 0
      BY <1>i, <1>6, ToldNothing DEF TypeInv
    <2> QED BY <1>4, <1>6, <1>8, <2>1
  <1>10. WayArrives
    BY <1>3 DEF WayArrives
  <1> HIDE DEF r
  <1>11. Tells(e)
    BY <1>1, <1>2, <1>3, <1>5, <1>6, <1>7, <1>8, <1>9, <1>10 DEF Tells
  <1> QED BY <1>11, TellIInv

\* The connection breaks: the orders in the table still bound what was not told.
LEMMA BreakIInv ==
  ASSUME Laws, IInv, Break
  PROVE  IInv'
  <1>i. /\ TypeInv /\ GateInv /\ WayInv /\ ExchInv /\ ReportInv /\ FitInv /\ PositionInv
        /\ RingInv /\ RateLimit
    BY DEF IInv
  <1>1. /\ conn /\ conn' = FALSE /\ exch' = << >> /\ from_exch' = << >>
        /\ UNCHANGED <<orders, next_user_ref, risk, now, oe_up, oe_pending, to_exch, xpos, phase, sends>>
    BY DEF Break, tradeVars
  <1>2. DOMAIN exch' = {} /\ DOMAIN from_exch' = {} /\ from_exch' \in Seq(Reports)
    BY <1>1, SeqEmpty
  <1>3. TypeInv'
    <2>1. exch' \in [DOMAIN exch' -> [side : Sides, left : Nat \ {0}]]
      BY <1>1
    <2> QED BY <1>i, <1>1, <1>2, <2>1, Zenon DEF TypeInv
  <1>4. GateInv' /\ RingInv' /\ RateLimit'
    BY <1>i, <1>1 DEF GateInv, RingInv, RateLimit
  <1>5. ExchInv' /\ ReportInv'
    BY <1>2 DEF ExchInv, ReportInv
  <1>6. WayInv'
    <2>1. Way' = Way
      BY <1>1 DEF Way
    <2> QED BY <1>i, <1>1, <1>2, <2>1 DEF WayInv
  <1>7. FitInv'
    <2> SUFFICES ASSUME NEW r \in DOMAIN orders PROVE Told(from_exch', {"E", "C"}, r) + Left(r)' <= orders[r].leaves
      BY <1>1 DEF FitInv
    <2>1. Told(from_exch', {"E", "C"}, r) = 0
      BY <1>2, ToldNothing, Zenon
    <2>2. Left(r)' = 0
      BY <1>2 DEF Left
    <2>3. orders[r].leaves \in Nat
      BY <1>i DEF TypeInv, Entries
    <2> QED BY <2>1, <2>2, <2>3
  <1>8. PositionInv'
    BY <1>i, <1>1 DEF PositionInv
  <1> QED BY <1>3, <1>4, <1>5, <1>6, <1>7, <1>8 DEF IInv
----------------------------------------------------------------------------
(* The trader's steps.                                                      *)

\* flush_oe_pending moves frames along their way.
LEMMA FlushIInv ==
  ASSUME Laws, IInv, NEW k \in 0 .. Len(oe_pending), NEW broken \in BOOLEAN, FlushOePending(k, broken)
  PROVE  IInv'
  <1> DEFINE rest == SubSeq(oe_pending, k + 1, Len(oe_pending))
             sent == SubSeq(oe_pending, 1, k)
             m == Len(to_exch)
             p == Len(oe_pending)
  <1>1. /\ to_exch \in Seq(Frames) /\ oe_pending \in Seq(Frames) /\ now \in Nat
        /\ phase \in {"run", "wind", "gone"}
    BY DEF IInv, TypeInv
  <1>2. m \in Nat /\ p \in Nat /\ k \in Nat /\ k <= p /\ \A i \in 1 .. p : oe_pending[i] \in Frames
    BY <1>1, SeqLen
  <1>3. /\ to_exch' = to_exch \o sent /\ oe_pending' = rest /\ oe_up' = ~broken
        /\ UNCHANGED <<orders, next_user_ref, risk, exch, xpos, from_exch, sends>> /\ UNCHANGED <<conn, phase>>
        /\ now' = now
    BY DEF FlushOePending, tradeVars, exchVars
  <1>4. rest \in Seq(Frames) /\ Len(rest) = p - k /\ \A i \in 1 .. p - k : rest[i] = oe_pending[k + i]
    <2>1. /\ rest \in Seq(Frames) /\ Len(rest) = (IF k + 1 <= p THEN p - (k + 1) + 1 ELSE 0)
          /\ \A i \in 1 .. p - (k + 1) + 1 : rest[i] = oe_pending[k + 1 + i - 1]
      BY <1>1, <1>2, SeqPart
    <2> QED BY <1>2, <2>1
  <1>5. sent \in Seq(Frames) /\ Len(sent) = k /\ \A i \in 1 .. k : sent[i] = oe_pending[i]
    <2>1. /\ sent \in Seq(Frames) /\ Len(sent) = (IF 1 <= k THEN k - 1 + 1 ELSE 0)
          /\ \A i \in 1 .. k - 1 + 1 : sent[i] = oe_pending[1 + i - 1]
      BY <1>1, <1>2, SeqPart
    <2> QED BY <1>2, <2>1
  <1>6. /\ DOMAIN Way = 1 .. m + p
        /\ \A i \in 1 .. m : Way[i] = to_exch[i]
        /\ \A i \in 1 .. p : Way[m + i] = oe_pending[i]
    BY <1>1, WayType, Zenon
  <1> HIDE DEF sent, rest
  <1>7. /\ to_exch' \in Seq(Frames) /\ Len(to_exch') = m + k
        /\ \A i \in 1 .. m + k : to_exch'[i] = IF i <= m THEN to_exch[i] ELSE sent[i - m]
    BY <1>1, <1>3, <1>5, SeqConcat
  <1>8. DOMAIN Way' = 1 .. m + p /\ \A i \in 1 .. m + p :
          Way'[i] = IF i <= m + k THEN to_exch'[i] ELSE rest[i - (m + k)]
    <2>1. to_exch' \in Seq(Frames) /\ rest \in Seq(Frames)
      BY <1>4, <1>7
    <2>2. to_exch' \o rest \in Seq(Frames) /\ Len(to_exch' \o rest) = Len(to_exch') + Len(rest)
          /\ \A i \in 1 .. Len(to_exch') + Len(rest) :
               (to_exch' \o rest)[i] = IF i <= Len(to_exch') THEN to_exch'[i] ELSE rest[i - Len(to_exch')]
      BY <2>1, SeqConcat
    <2>3. Way' = to_exch' \o rest
      BY <1>3 DEF Way
    <2>4. Len(to_exch') + Len(rest) = m + p
      BY <1>2, <1>4, <1>7
    <2> QED BY <1>7, <2>2, <2>3, <2>4, SeqLen
  <1> HIDE DEF m, p
  <1>9. ASSUME NEW i \in 1 .. m + p PROVE Way'[i] = Way[i]
    <2>1. CASE i <= m
      <3>1. Way'[i] = to_exch'[i]
        BY <1>2, <1>8, <2>1
      <3>2. to_exch'[i] = to_exch[i]
        BY <1>2, <1>7, <2>1
      <3> QED BY <1>2, <1>6, <2>1, <3>1, <3>2
    <2>2. CASE i > m /\ i <= m + k
      <3>1. i - m \in 1 .. k /\ i - m \in 1 .. p /\ m + (i - m) = i
        BY <1>2, <2>2
      <3>2. Way'[i] = to_exch'[i] /\ to_exch'[i] = sent[i - m]
        BY <1>2, <1>7, <1>8, <2>2
      <3>3. sent[i - m] = oe_pending[i - m]
        BY <1>5, <3>1
      <3> QED BY <1>6, <3>1, <3>2, <3>3
    <2>3. CASE i > m + k
      <3>1. i - (m + k) \in 1 .. p - k /\ k + (i - (m + k)) = i - m /\ i - m \in 1 .. p /\ m + (i - m) = i
        BY <1>2, <2>3
      <3>2. Way'[i] = rest[i - (m + k)]
        BY <1>2, <1>8, <2>3
      <3>3. rest[i - (m + k)] = oe_pending[i - m]
        BY <1>4, <3>1
      <3> QED BY <1>6, <3>1, <3>2, <3>3
    <2> QED BY <1>2, <2>1, <2>2, <2>3
  <1>10. WayKeeps
    <2>1. \A i \in DOMAIN Way' : i \in Nat /\ i + 0 \in DOMAIN Way /\ Way'[i] = Way[i + 0]
      BY <1>2, <1>6, <1>8, <1>9
    <2> QED BY <2>1 DEF WayKeeps
  <1>11. now' \in Nat /\ oe_up' \in BOOLEAN /\ to_exch' \in Seq(Frames) /\ oe_pending' \in Seq(Frames)
         /\ phase' \in {"run", "wind", "gone"}
    BY <1>1, <1>3, <1>4, <1>7
  <1> QED BY <1>3, <1>10, <1>11, SteadyIInv

\* cancel_all only adds cancels.
LEMMA PullWay ==
  ASSUME Laws, IInv, NEW k \in 0 .. Len(Cancels), NEW broken \in BOOLEAN, OeSend(Cancels, k, broken)
  PROVE  /\ to_exch' \in Seq(Frames) /\ oe_pending' \in Seq(Frames) /\ oe_up' \in BOOLEAN
         /\ UNCHANGED <<conn, from_exch>> /\ WayKeeps
  <1>1. TypeInv /\ to_exch \in Seq(Frames) /\ oe_pending \in Seq(Frames) /\ oe_up \in BOOLEAN
    BY DEF IInv, TypeInv
  <1>0. PICK frames : frames = Cancels
    OBVIOUS
  <1>2. frames \in Seq(Frames) /\ \A i \in DOMAIN frames : frames[i].type = "X"
    BY <1>0, <1>1, CancelsType
  <1>3. k \in 0 .. Len(frames) /\ OeSend(frames, k, broken)
    BY <1>0
  <1>4. /\ to_exch' \in Seq(Frames) /\ oe_pending' \in Seq(Frames) /\ oe_up' \in BOOLEAN
        /\ UNCHANGED <<conn, from_exch>>
        /\ \A i \in DOMAIN Way' :
              \/ i \in DOMAIN Way /\ Way'[i] = Way[i]
              \/ /\ i \notin DOMAIN Way /\ i - Len(Way) \in 1 .. Len(frames)
                 /\ Way'[i] = frames[i - Len(Way)]
    BY <1>1, <1>2, <1>3, OeSendWay
  <1>5. DOMAIN Way' \subseteq Nat /\ DOMAIN Way \subseteq Nat
    <2>1. to_exch' \o oe_pending' \in Seq(Frames) /\ Way' = to_exch' \o oe_pending'
      BY <1>4, SeqConcat DEF Way
    <2>2. DOMAIN Way = 1 .. Len(Way)
      BY <1>1, WayType, Zenon
    <2> QED BY <2>1, <2>2, SeqLen
  <1>6. ASSUME NEW i \in DOMAIN Way'
        PROVE  i \in Nat /\ ((i + 0 \in DOMAIN Way /\ Way'[i] = Way[i + 0]) \/ Way'[i].type = "X")
    <2>1. CASE i \in DOMAIN Way /\ Way'[i] = Way[i]
      BY <1>5, <2>1
    <2>2. CASE i - Len(Way) \in 1 .. Len(frames) /\ Way'[i] = frames[i - Len(Way)]
      <3>1. i - Len(Way) \in DOMAIN frames
        BY <1>2, <2>2, SeqLen
      <3> QED BY <1>2, <1>5, <2>2, <3>1
    <2> QED BY <1>4, <2>1, <2>2
  <1>7. WayKeeps
    BY <1>6 DEF WayKeeps
  <1> QED BY <1>4, <1>7

\* resync, the wind-down, the logout and the clock.
LEMMA IdleIInv ==
  ASSUME Laws, IInv,
         \/ \E k \in 0 .. Len(Cancels), broken \in BOOLEAN : Resync(k, broken) \/ WindDown(k, broken)
         \/ Logout
         \/ Tick
         \/ UNCHANGED vars
  PROVE  IInv'
  <1>1. /\ to_exch \in Seq(Frames) /\ oe_pending \in Seq(Frames) /\ oe_up \in BOOLEAN /\ now \in Nat
        /\ phase \in {"run", "wind", "gone"}
    BY DEF IInv, TypeInv
  <1>2. ASSUME UNCHANGED <<to_exch, oe_pending>> PROVE WayKeeps /\ to_exch' \in Seq(Frames) /\ oe_pending' \in Seq(Frames)
    <2>1. Way' = Way
      BY <1>2 DEF Way
    <2>2. WayShifts(0)
      BY <1>1, <2>1, WaySame
    <2> QED BY <1>1, <1>2, <2>2 DEF WayShifts, WayKeeps
  <1>3. ASSUME NEW k \in 0 .. Len(Cancels), NEW broken \in BOOLEAN, Resync(k, broken) PROVE IInv'
    <2>1. OeSend(Cancels, k, broken) /\ UNCHANGED <<orders, next_user_ref, risk, now, exch, xpos, phase, sends>>
      BY <1>3 DEF Resync, tradeVars, exchVars
    <2>2. /\ to_exch' \in Seq(Frames) /\ oe_pending' \in Seq(Frames) /\ oe_up' \in BOOLEAN
          /\ UNCHANGED <<conn, from_exch>> /\ WayKeeps
      BY <2>1, PullWay
    <2> QED BY <1>1, <2>1, <2>2, SteadyIInv
  <1>4. ASSUME NEW k \in 0 .. Len(Cancels), NEW broken \in BOOLEAN, WindDown(k, broken) PROVE IInv'
    <2>1. phase = "run" /\ phase' = "wind" /\ UNCHANGED <<orders, next_user_ref, risk, now, exch, xpos, sends>>
      BY <1>4 DEF WindDown, tradeVars, exchVars
    <2>2. /\ to_exch' \in Seq(Frames) /\ oe_pending' \in Seq(Frames) /\ oe_up' \in BOOLEAN
          /\ UNCHANGED <<conn, from_exch>> /\ WayKeeps
      <3>1. CASE OeSend(Cancels, k, broken)
        BY <3>1, PullWay
      <3>2. CASE oe_up' = FALSE /\ UNCHANGED <<oe_pending, conn, to_exch, from_exch>>
        BY <1>2, <3>2, Zenon
      <3> QED BY <1>4, <3>1, <3>2, Zenon DEF WindDown
    <2> QED BY <1>1, <2>1, <2>2, SteadyIInv
  <1>5. CASE Logout
    <2>1. /\ phase' = "gone" /\ conn' = FALSE /\ UNCHANGED <<to_exch, oe_pending>>
          /\ UNCHANGED <<orders, next_user_ref, risk, exch, xpos, from_exch, sends>> /\ UNCHANGED <<now, oe_up>>
      BY <1>5 DEF Logout, tradeVars, exchVars
    <2>2. WayKeeps /\ to_exch' \in Seq(Frames) /\ oe_pending' \in Seq(Frames)
      BY <1>2, <2>1
    <2> QED BY <1>1, <2>1, <2>2, SteadyIInv, Zenon
  <1>6. CASE Tick \/ UNCHANGED vars
    <2>1. /\ now' \in Nat /\ UNCHANGED <<to_exch, oe_pending>>
          /\ UNCHANGED <<orders, next_user_ref, risk, exch, xpos, from_exch, sends>> /\ UNCHANGED <<conn, phase, oe_up>>
      BY <1>1, <1>6 DEF Tick, vars, tradeVars, linkVars, exchVars
    <2>2. WayKeeps /\ to_exch' \in Seq(Frames) /\ oe_pending' \in Seq(Frames)
      BY <1>2, <2>1
    <2> QED BY <1>1, <2>1, <2>2, SteadyIInv
  <1> QED BY <1>3, <1>4, <1>5, <1>6

\* Counting round a ring of C slots: what a remainder is,
LEMMA ModUnique ==
  ASSUME Laws, NEW C \in Nat \ {0}, NEW n \in Nat, NEW q \in Int, NEW r \in 0 .. C - 1, n = C * q + r
  PROVE  n % C = r
  <1>1. n = C * (n \div C) + (n % C) /\ n % C \in 0 .. C - 1 /\ n \div C \in Int
    OBVIOUS
  <1> DEFINE d == q - (n \div C)
  <1>2. C * d = (n % C) - r /\ d \in Int
    BY <1>1
  <1> HIDE DEF d
  <1>3. CASE d <= -1
    <2>1. C * d <= 0 - C
      BY <1>2, <1>3
    <2> QED BY <2>1, <1>1, <1>2
  <1>4. CASE d >= 1
    <2>1. C * d >= C
      BY <1>2, <1>4
    <2> QED BY <2>1, <1>1, <1>2
  <1>5. CASE d = 0
    <2>1. C * d = 0
      BY <1>5
    <2> QED BY <2>1, <1>1, <1>2
  <1> QED BY <1>2, <1>3, <1>4, <1>5

\* the slot after a slot, and the slot one round earlier,
LEMMA RingStep ==
  ASSUME Laws, NEW C \in Nat \ {0}, NEW n \in Nat
  PROVE  /\ n % C \in 0 .. C - 1
         /\ ((n % C) + 1) % C = (n + 1) % C
         /\ n >= C => (n - C) % C = n % C
  <1> DEFINE q == n \div C
             r == n % C
  <1>1. n = C * q + r /\ r \in 0 .. C - 1 /\ q \in Int
    OBVIOUS
  <1> HIDE DEF q, r
  <1>4. (r + 1) % C = (n + 1) % C
    <2>1. CASE r = C - 1
      <3>1. n + 1 = C * (q + 1) + 0 /\ r + 1 = C * 1 + 0
        BY <1>1, <2>1
      <3>2. (n + 1) % C = 0
        BY <1>1, <3>1, ModUnique
      <3>3. (r + 1) % C = 0
        BY <1>1, <3>1, ModUnique
      <3> QED BY <3>2, <3>3
    <2>2. CASE r < C - 1
      <3>1. n + 1 = C * q + (r + 1) /\ r + 1 = C * 0 + (r + 1)
        BY <1>1, <2>2
      <3>2. (n + 1) % C = r + 1
        BY <1>1, <2>2, <3>1, ModUnique
      <3>3. (r + 1) % C = r + 1
        BY <1>1, <2>2, <3>1, ModUnique
      <3> QED BY <3>2, <3>3
    <2> QED BY <1>1, <2>1, <2>2
  <1>5. ASSUME n >= C PROVE (n - C) % C = r
    <2>1. n - C \in Nat /\ n - C = C * (q - 1) + r /\ q - 1 \in Int
      BY <1>1, <1>5
    <2> QED BY <1>1, <2>1, ModUnique
  <1> QED BY <1>1, <1>4, <1>5 DEF r

\* and that positions less than C apart are kept in different slots.
LEMMA SlotsApart ==
  ASSUME Laws, NEW C \in Nat \ {0}, NEW a \in Nat, NEW b \in Nat, a < b, b < a + C
  PROVE  a % C # b % C
  <1> SUFFICES ASSUME a % C = b % C PROVE FALSE
    OBVIOUS
  <1>1. a = C * (a \div C) + (a % C) /\ a \div C \in Int /\ a % C \in Int
    OBVIOUS
  <1>2. b = C * (b \div C) + (b % C) /\ b \div C \in Int /\ b % C \in Int
    OBVIOUS
  <1> DEFINE d == (b \div C) - (a \div C)
  <1>3. b - a = C * d /\ d \in Int
    BY <1>1, <1>2
  <1> HIDE DEF d
  <1>4. CASE d <= 0
    <2>1. C * d <= 0
      BY <1>3, <1>4
    <2> QED BY <2>1, <1>3
  <1>5. CASE d >= 1
    <2>1. C * d >= C
      BY <1>3, <1>5
    <2> QED BY <2>1, <1>3
  <1> QED BY <1>3, <1>4, <1>5

\* on_order_sent writes over the oldest time of the ring, which check has found to
\* be a second old.
LEMMA RingSend ==
  ASSUME Laws, TypeInv, RingInv, RateLimit,
         ~ (risk.sent_count >= max_orders_per_sec /\ now - risk.sent_times[risk.next_slot] < Second),
         sends' = Append(sends, now),
         risk'.sent_times = [risk.sent_times EXCEPT ![risk.next_slot] = now],
         risk'.next_slot = (risk.next_slot + 1) % max_orders_per_sec,
         risk'.sent_count = risk.sent_count + 1
  PROVE  RingInv' /\ RateLimit'
         /\ risk'.next_slot \in 0 .. max_orders_per_sec - 1
         /\ risk'.sent_times \in [0 .. max_orders_per_sec - 1 -> Nat]
  <1> DEFINE m == max_orders_per_sec
             n == Len(sends)
             times == risk.sent_times
  <1>1. m \in Nat \ {0} /\ Second \in Nat
    BY TraderAssumption
  <1>2. sends \in Seq(Nat) /\ now \in Nat /\ times \in [0 .. m - 1 -> Nat]
    BY DEF TypeInv, Gates
  <1>3. /\ n \in Nat /\ DOMAIN sends = 1 .. n /\ \A i \in 1 .. n : sends[i] \in Nat
        /\ DOMAIN sends' = 1 .. n + 1 /\ Len(sends') = n + 1 /\ sends'[n + 1] = now
        /\ \A i \in 1 .. n : sends'[i] = sends[i]
    BY <1>2, SeqLen, SeqAppend
  <1>4. /\ risk.sent_count = n /\ risk.next_slot = n % m
        /\ \A i \in 1 .. n : i > n - m => times[(i - 1) % m] = sends[i]
        /\ \A i \in 1 .. n : i + m \in 1 .. n => sends[i + m] - sends[i] >= Second
    BY <1>3, Zenon DEF RingInv, RateLimit
  <1>5. risk'.sent_times = [times EXCEPT ![n % m] = now] /\ risk'.next_slot = ((n % m) + 1) % m
        /\ risk'.sent_count = n + 1
    BY <1>4
  <1>6. ~ (n >= m /\ now - times[n % m] < Second)
    BY <1>4
  <1> HIDE DEF m, n, times
  <1>7. n % m \in 0 .. m - 1 /\ ((n % m) + 1) % m = (n + 1) % m /\ (n + 1) % m \in 0 .. m - 1
        /\ (n >= m => (n - m) % m = n % m)
    <2>1. n \in Nat /\ n + 1 \in Nat
      BY <1>3
    <2>2. n % m \in 0 .. m - 1 /\ ((n % m) + 1) % m = (n + 1) % m /\ (n >= m => (n - m) % m = n % m)
      BY <1>1, <2>1, RingStep, Zenon
    <2>3. (n + 1) % m \in 0 .. m - 1
      BY <1>1, <2>1, RingStep, Zenon
    <2> QED BY <2>2, <2>3
  <1>8. ASSUME NEW i \in 1 .. n + 1, i > (n + 1) - m
        PROVE  risk'.sent_times[(i - 1) % m] = sends'[i]
    <2>0. i - 1 \in Nat /\ (i - 1) % m \in 0 .. m - 1
      <3>1. i - 1 \in Nat
        BY <1>3
      <3> QED BY <1>1, <3>1, RingStep, Zenon
    <2>1. CASE i = n + 1
      <3>1. i - 1 = n
        BY <1>3, <2>1
      <3>2. risk'.sent_times[n % m] = now
        BY <1>2, <1>5, <1>7, Zenon
      <3> QED BY <1>3, <2>1, <3>1, <3>2
    <2>2. CASE i < n + 1
      <3>1. i \in 1 .. n /\ i > n - m /\ i - 1 < n /\ n < (i - 1) + m
        BY <1>1, <1>3, <1>8, <2>2
      <3>2. (i - 1) % m # n % m
        <4>1. n \in Nat
          BY <1>3
        <4> QED BY <1>1, <2>0, <3>1, <4>1, SlotsApart, Zenon
      <3>3. risk'.sent_times[(i - 1) % m] = times[(i - 1) % m]
        BY <1>2, <1>5, <2>0, <3>2, Zenon
      <3> QED BY <1>3, <1>4, <3>1, <3>3
    <2> QED BY <1>3, <2>1, <2>2
  <1>9. ASSUME NEW i \in 1 .. n + 1, i + m \in 1 .. n + 1
        PROVE  sends'[i + m] - sends'[i] >= Second
    <2>1. i \in 1 .. n
      BY <1>1, <1>3, <1>9
    <2>2. CASE i + m \in 1 .. n
      BY <1>3, <1>4, <2>1, <2>2
    <2>3. CASE i + m = n + 1
      <3>1. n >= m /\ i > n - m /\ i - 1 = n - m
        BY <1>1, <1>3, <2>1, <2>3
      <3>2. times[n % m] = sends[i]
        BY <1>4, <1>7, <2>1, <3>1
      <3>3. sends'[i + m] = now /\ sends'[i] = sends[i] /\ sends[i] \in Nat
        BY <1>3, <2>1, <2>3
      <3> QED BY <1>1, <1>2, <1>6, <3>1, <3>2, <3>3
    <2>4. i + m \in 1 .. n \/ i + m = n + 1
      <3>1. i + m \in Nat /\ i + m >= 1 /\ i + m <= n + 1
        BY <1>1, <1>3, <1>9
      <3> QED BY <1>3, <3>1
    <2> QED BY <2>2, <2>3, <2>4, Zenon
  <1>10. RingInv'
    <2>1. risk'.sent_count = Len(sends') /\ risk'.next_slot = Len(sends') % m
      BY <1>3, <1>5, <1>7
    <2>2. \A i \in DOMAIN sends' : i > Len(sends') - m => risk'.sent_times[(i - 1) % m] = sends'[i]
      BY <1>3, <1>8
    <2> QED BY <2>1, <2>2 DEF RingInv, m
  <1>11. RateLimit'
    <2>1. \A i \in DOMAIN sends' : i + m \in DOMAIN sends' => sends'[i + m] - sends'[i] >= Second
      BY <1>3, <1>9
    <2> QED BY <2>1 DEF RateLimit, m
  <1>12. risk'.next_slot \in 0 .. m - 1 /\ risk'.sent_times \in [0 .. m - 1 -> Nat]
    BY <1>2, <1>5, <1>7, Zenon
  <1> QED BY <1>10, <1>11, <1>12 DEF m

\* maybe_trade: a new order fits the limits whatever becomes of it.
LEMMA TradeIInv ==
  ASSUME Laws, IInv, NEW side \in Sides, NEW qty \in Nat, NEW k \in 0 .. 1, NEW broken \in BOOLEAN,
         Trade(side, qty, k, broken)
  PROVE  IInv'
  <1>i. /\ TypeInv /\ GateInv /\ WayInv /\ ExchInv /\ ReportInv /\ FitInv /\ PositionInv
        /\ RingInv /\ RateLimit
    BY DEF IInv
  <1>0. PICK r : r = next_user_ref
    OBVIOUS
  <1> DEFINE o == [side |-> side, leaves |-> qty]
             F == [type |-> "O", ref |-> r, side |-> side, qty |-> qty]
             frames == <<F>>
             table == Put(orders, r, o)
  <1>1. /\ phase # "gone" /\ oe_up
        /\ Check(side, qty) /\ OeSend(frames, k, broken) /\ orders' = table /\ next_user_ref' = r + 1
        /\ risk' = OnOrderSent(side, qty) /\ sends' = Append(sends, now)
        /\ UNCHANGED <<now, exch, xpos, phase>>
    BY <1>0 DEF Trade, exchVars
  <1>2. /\ qty \in Nat \ {0} /\ risk.open_orders < max_open_orders
        /\ Sign(side) * risk.position + risk.open[side] + qty <= max_position
        /\ ~ (risk.sent_count >= max_orders_per_sec /\ now - risk.sent_times[risk.next_slot] < Second)
    BY <1>1 DEF Check
  <1>3. /\ r \in Nat \ {0} /\ r \notin DOMAIN orders /\ DOMAIN orders \subseteq 1 .. r - 1
        /\ orders \in [DOMAIN orders -> Entries] /\ IsFiniteSet(DOMAIN orders)
        /\ from_exch \in Seq(Reports) /\ oe_up \in BOOLEAN
        /\ to_exch \in Seq(Frames) /\ oe_pending \in Seq(Frames)
    BY <1>i, <1>0, TableFinite DEF TypeInv
  <1>4. o \in Entries /\ o.side = side /\ o.leaves = qty /\ F \in Frames /\ F.ref = r /\ F.type = "O" /\ F.side = side /\ F.qty = qty
    BY <1>2, <1>3 DEF Entries, Frames
  <1>5. frames \in Seq(Frames) /\ Len(frames) = 1 /\ frames[1] = F
    BY <1>4
  <1> HIDE DEF o, F, frames, table
  <1>6. /\ DOMAIN table = DOMAIN orders \cup {r} /\ table[r] = o
        /\ (\A x \in DOMAIN orders : table[x] = orders[x])
        /\ table \in [DOMAIN table -> Entries]
    <2>1. table = [x \in DOMAIN orders \cup {r} |-> IF x = r THEN o ELSE orders[x]]
      BY DEF table, Put
    <2> QED BY <1>3, <1>4, <2>1
  <1>7. /\ risk.position \in Int /\ risk.open \in [Sides -> Nat] /\ risk.open_orders \in 0 .. max_open_orders
        /\ risk.sent_count \in Nat /\ max_open_orders \in Nat /\ max_position \in Nat /\ risk \in Gates
    BY <1>i, TraderAssumption, Zenon DEF TypeInv, Gates
  <1>8. /\ risk'.position = risk.position /\ risk'.open_orders = risk.open_orders + 1
        /\ risk'.open = [risk.open EXCEPT ![side] = @ + qty]
        /\ risk'.sent_times = [risk.sent_times EXCEPT ![risk.next_slot] = now]
        /\ risk'.next_slot = (risk.next_slot + 1) % max_orders_per_sec
        /\ risk'.sent_count = risk.sent_count + 1
        /\ risk' = [position |-> risk'.position, open |-> risk'.open, open_orders |-> risk'.open_orders,
                    sent_times |-> risk'.sent_times, next_slot |-> risk'.next_slot, sent_count |-> risk'.sent_count]
    BY <1>1, <1>7, Zenon DEF OnOrderSent, Gates
  <1>9. RingInv' /\ RateLimit' /\ risk'.next_slot \in 0 .. max_orders_per_sec - 1
        /\ risk'.sent_times \in [0 .. max_orders_per_sec - 1 -> Nat]
    BY <1>i, <1>1, <1>2, <1>8, RingSend, Zenon
  <1>10. /\ to_exch' \in Seq(Frames) /\ oe_pending' \in Seq(Frames) /\ oe_up' \in BOOLEAN
         /\ UNCHANGED <<conn, from_exch>>
         /\ \A i \in DOMAIN Way' :
              \/ i \in DOMAIN Way /\ Way'[i] = Way[i]
              \/ i \notin DOMAIN Way /\ i - Len(Way) \in 1 .. 1 /\ Way'[i] = F
    <2>1. k \in 0 .. Len(frames)
      BY <1>5
    <2>2. /\ to_exch' \in Seq(Frames) /\ oe_pending' \in Seq(Frames) /\ oe_up' \in BOOLEAN
          /\ UNCHANGED <<conn, from_exch>>
          /\ \A i \in DOMAIN Way' :
              \/ i \in DOMAIN Way /\ Way'[i] = Way[i]
              \/ /\ i \notin DOMAIN Way /\ i - Len(Way) \in 1 .. Len(frames)
                 /\ Way'[i] = frames[i - Len(Way)]
      BY <1>1, <1>3, <1>5, <2>1, OeSendWay, Zenon
    <2> QED BY <1>5, <2>2
  <1>11. TypeInv'
    <2>1. risk' \in Gates
      <3>1. risk'.position \in Int /\ risk'.open \in [Sides -> Nat] /\ risk'.sent_count \in Nat
            /\ risk'.open_orders \in 0 .. max_open_orders
        BY <1>2, <1>7, <1>8
      <3> QED BY <1>8, <1>9, <3>1, Zenon DEF Gates
    <2>2. r + 1 \in Nat \ {0} /\ DOMAIN table \subseteq 1 .. (r + 1) - 1
      BY <1>3, <1>6
    <2>3. sends' \in Seq(Nat)
      BY <1>i, <1>1, SeqAppend DEF TypeInv
    <2>4. orders' \in [DOMAIN orders' -> Entries] /\ DOMAIN orders' \subseteq 1 .. next_user_ref' - 1
      BY <1>1, <1>6, <2>2
    <2> QED BY <1>i, <1>1, <1>3, <1>10, <2>1, <2>2, <2>3, <2>4 DEF TypeInv
  <1>12. Told(from_exch, {"E"}, r) = 0 /\ Told(from_exch, {"E", "C"}, r) = 0
    <2>1. \A i \in DOMAIN from_exch : from_exch[i].ref # r
      BY <1>i, <1>3 DEF ReportInv
    <2> QED BY <1>3, <2>1, ToldNothing
  <1>13. \A s : /\ Leaves(table, s) = Leaves(orders, s) + (IF side = s THEN qty ELSE 0)
                /\ Untold(table, from_exch, s) = Untold(orders, from_exch, s)
    BY <1>3, <1>4, <1>12, SidePut DEF table
  <1>14. GateInv'
    <2>1. Cardinality(DOMAIN table) = Cardinality(DOMAIN orders) + 1
      BY <1>3, <1>6, FinAdd, Zenon
    <2>2. \A s \in Sides : risk'.open[s] = Leaves(table, s)
      BY <1>i, <1>7, <1>8, <1>13 DEF GateInv
    <2> QED BY <1>i, <1>1, <1>8, <2>1, <2>2, Zenon DEF GateInv
  <1>15. r \notin DOMAIN exch /\ \A i \in DOMAIN from_exch : from_exch[i].ref # r
    BY <1>i, <1>3 DEF ExchInv, ReportInv
  <1>16. ExchInv' /\ ReportInv'
    <2>1. ExchInv'
      BY <1>i, <1>1, <1>6 DEF ExchInv
    <2>2. ReportInv'
      BY <1>i, <1>1, <1>6, <1>10 DEF ReportInv
    <2> QED BY <2>1, <2>2
  <1>17. WayInv'
    <2>1. ASSUME NEW i \in DOMAIN Way', Way'[i].type = "O"
          PROVE  /\ Way'[i].ref \in DOMAIN table
                 /\ table[Way'[i].ref] = [side |-> Way'[i].side, leaves |-> Way'[i].qty]
                 /\ Way'[i].ref \notin DOMAIN exch
                 /\ \A j \in DOMAIN from_exch : from_exch[j].ref # Way'[i].ref
      <3>1. CASE i \in DOMAIN Way /\ Way'[i] = Way[i]
        <4>1. /\ Way[i].ref \in DOMAIN orders
              /\ orders[Way[i].ref] = [side |-> Way[i].side, leaves |-> Way[i].qty]
              /\ Way[i].ref \notin DOMAIN exch
              /\ \A j \in DOMAIN from_exch : from_exch[j].ref # Way[i].ref
          BY <1>i, <2>1, <3>1, Zenon DEF WayInv
        <4> QED BY <1>6, <3>1, <4>1
      <3>2. CASE Way'[i] = F
        BY <1>4, <1>6, <1>15, <3>2 DEF o
      <3> QED BY <1>10, <3>1, <3>2, Zenon
    <2>2. ASSUME NEW i \in DOMAIN Way', NEW j \in DOMAIN Way', i # j, Way'[i].type = "O", Way'[j].type = "O"
          PROVE  Way'[i].ref # Way'[j].ref
      <3>1. DOMAIN Way' \subseteq Nat /\ Len(Way) \in Nat
        <4>1. to_exch' \o oe_pending' \in Seq(Frames) /\ Way' = to_exch' \o oe_pending'
          BY <1>10, SeqConcat DEF Way
        <4>2. Len(Way) \in Nat
          BY <1>3, WayType, Zenon
        <4> QED BY <4>1, <4>2, SeqLen
      <3>2. \A x \in DOMAIN Way : Way[x].type = "O" => Way[x].ref # r
        BY <1>i, <1>3, Zenon DEF WayInv
      <3>3. CASE i \notin DOMAIN Way /\ j \notin DOMAIN Way
        <4>1. i - Len(Way) = 1 /\ j - Len(Way) = 1
          BY <1>10, <3>3
        <4> QED BY <2>2, <3>1, <4>1
      <3>4. CASE i \in DOMAIN Way /\ j \notin DOMAIN Way
        BY <1>4, <1>10, <2>2, <3>2, <3>4
      <3>5. CASE i \notin DOMAIN Way /\ j \in DOMAIN Way
        BY <1>4, <1>10, <2>2, <3>2, <3>5
      <3>6. CASE i \in DOMAIN Way /\ j \in DOMAIN Way
        BY <1>i, <1>10, <2>2, <3>6, Zenon DEF WayInv
      <3> QED BY <3>3, <3>4, <3>5, <3>6
    <2>3. orders' = table /\ exch' = exch /\ from_exch' = from_exch
      BY <1>1, <1>10, Zenon
    <2> QED BY <2>1, <2>2, <2>3, Zenon DEF WayInv
  <1>18. FitInv'
    <2> SUFFICES ASSUME NEW x \in DOMAIN table PROVE Told(from_exch, {"E", "C"}, x) + Left(x) <= table[x].leaves
      BY <1>1, <1>10, Zenon DEF FitInv, Left
    <2>1. CASE x = r
      BY <1>2, <1>4, <1>6, <1>12, <1>15, <2>1 DEF Left
    <2>2. CASE x # r
      BY <1>i, <1>6, <2>2 DEF FitInv
    <2> QED BY <2>1, <2>2
  <1>19. PositionInv'
    <2>1. conn' => xpos' = risk'.position + Untold(orders', from_exch', "Buy") - Untold(orders', from_exch', "Sell")
      BY <1>i, <1>1, <1>8, <1>10, <1>13 DEF PositionInv
    <2>2. ~conn' => phase' = "gone" \/ from_exch' = << >>
      BY <1>i, <1>1, <1>10, Zenon DEF PositionInv
    <2>3. /\ xpos <= risk.position + risk.open["Buy"] /\ xpos >= risk.position - risk.open["Sell"]
          /\ risk.position + risk.open["Buy"] <= max_position
          /\ risk.position - risk.open["Sell"] >= 0 - max_position
      BY <1>i DEF PositionInv
    <2>4. xpos \in Int /\ risk.open["Buy"] \in Nat /\ risk.open["Sell"] \in Nat
      BY <1>i, <1>7 DEF TypeInv, Sides
    <2>5. /\ xpos' <= risk'.position + risk'.open["Buy"] /\ xpos' >= risk'.position - risk'.open["Sell"]
          /\ risk'.position + risk'.open["Buy"] <= max_position
          /\ risk'.position - risk'.open["Sell"] >= 0 - max_position
      <3>0. xpos' = xpos /\ risk'.position = risk.position
        BY <1>1, <1>8
      <3>1. CASE side = "Buy"
        <4>1. risk'.open["Buy"] = risk.open["Buy"] + qty /\ risk'.open["Sell"] = risk.open["Sell"]
          BY <1>7, <1>8, <3>1 DEF Sides
        <4>2. risk.position + risk.open["Buy"] + qty <= max_position
          BY <1>2, <1>7, <3>1 DEF Sign
        <4> QED BY <1>2, <1>7, <2>3, <2>4, <3>0, <4>1, <4>2
      <3>2. CASE side = "Sell"
        <4>1. risk'.open["Sell"] = risk.open["Sell"] + qty /\ risk'.open["Buy"] = risk.open["Buy"]
          BY <1>7, <1>8, <3>2 DEF Sides
        <4>2. (0 - risk.position) + risk.open["Sell"] + qty <= max_position
          <5>1. Sign(side) * risk.position = 0 - risk.position
            BY <1>7, <3>2 DEF Sign
          <5> QED BY <1>2, <3>2, <5>1
        <4> QED BY <1>2, <1>7, <2>3, <2>4, <3>0, <4>1, <4>2
      <3> QED BY <3>1, <3>2 DEF Sides
    <2> QED BY <2>1, <2>2, <2>5, Zenon DEF PositionInv
  <1> QED BY <1>9, <1>11, <1>14, <1>16, <1>17, <1>18, <1>19 DEF IInv

\* The first report, about an order of the table, is read: it takes q shares from
\* the order, and from the gate.
Takes(e, q, table) ==
  LET S == orders[e.ref].side
      rest == Tail(from_exch)
  IN  /\ conn /\ from_exch # << >> /\ e = Head(from_exch) /\ from_exch' = rest
      /\ UNCHANGED <<next_user_ref, now, oe_up, oe_pending, conn, to_exch, exch, xpos, phase, sends>>
      /\ orders' = table
      /\ q \in 0 .. orders[e.ref].leaves
      /\ e.type = "E" => q = e.qty
      /\ table \in [DOMAIN table -> Entries] /\ DOMAIN table \subseteq DOMAIN orders
      /\ \A x \in DOMAIN orders : x # e.ref => x \in DOMAIN table /\ table[x] = orders[x]
      /\ e.ref \in DOMAIN table => /\ q = e.qty /\ table[e.ref].side = S
                                   /\ table[e.ref].leaves = orders[e.ref].leaves - q
      /\ e.ref \notin DOMAIN table => /\ e.ref \notin DOMAIN exch
                                      /\ \A i \in DOMAIN rest : rest[i].ref # e.ref
      /\ risk' \in Gates
      /\ risk'.position = risk.position + (IF e.type = "E" THEN Sign(S) * q ELSE 0)
      /\ risk'.open = [risk.open EXCEPT ![S] = @ - q]
      /\ risk'.open_orders = Cardinality(DOMAIN table)
      /\ risk'.sent_times = risk.sent_times /\ risk'.next_slot = risk.next_slot
      /\ risk'.sent_count = risk.sent_count
      /\ \A s : /\ Leaves(table, s) = Leaves(orders, s) - (IF S = s THEN q ELSE 0)
                /\ Untold(table, rest, s) = Untold(orders, rest, s)

\* Such a step keeps the invariant.
LEMMA TakeIInv ==
  ASSUME Laws, IInv, NEW e, NEW q, NEW table, Takes(e, q, table)
  PROVE  IInv'
  <1>i. /\ TypeInv /\ GateInv /\ WayInv /\ ExchInv /\ ReportInv /\ FitInv /\ PositionInv
        /\ RingInv /\ RateLimit
    BY DEF IInv
  <1> DEFINE r == e.ref
             S == orders[r].side
             rest == Tail(from_exch)
  <1>0. /\ conn /\ from_exch # << >> /\ e = Head(from_exch) /\ from_exch' = rest
        /\ UNCHANGED <<next_user_ref, now, oe_up, oe_pending, conn, to_exch, exch, xpos, phase, sends>>
        /\ orders' = table
    BY Zenon DEF Takes
  <1>1. /\ q \in 0 .. orders[r].leaves
        /\ e.type = "E" => q = e.qty
        /\ table \in [DOMAIN table -> Entries] /\ DOMAIN table \subseteq DOMAIN orders
        /\ \A x \in DOMAIN orders : x # r => x \in DOMAIN table /\ table[x] = orders[x]
        /\ r \in DOMAIN table => q = e.qty /\ table[r].side = S /\ table[r].leaves = orders[r].leaves - q
        /\ r \notin DOMAIN table => r \notin DOMAIN exch /\ \A i \in DOMAIN rest : rest[i].ref # r
    BY Zenon DEF Takes
  <1>2. /\ risk' \in Gates
        /\ risk'.position = risk.position + (IF e.type = "E" THEN Sign(S) * q ELSE 0)
        /\ risk'.open = [risk.open EXCEPT ![S] = @ - q]
        /\ risk'.open_orders = Cardinality(DOMAIN table)
    BY Zenon DEF Takes
  <1>3. RingInv' /\ RateLimit'
    <2>1. risk'.sent_times = risk.sent_times /\ risk'.next_slot = risk.next_slot
          /\ risk'.sent_count = risk.sent_count /\ sends' = sends
      BY Zenon DEF Takes
    <2> QED BY <1>i, <2>1, Zenon DEF RingInv, RateLimit
  <1>4. \A s : /\ Leaves(table, s) = Leaves(orders, s) - (IF S = s THEN q ELSE 0)
               /\ Untold(table, rest, s) = Untold(orders, rest, s)
    BY Zenon DEF Takes
  <1>5. /\ from_exch \in Seq(Reports) /\ IsFiniteSet(DOMAIN orders) /\ orders \in [DOMAIN orders -> Entries]
    BY <1>i, TableFinite DEF TypeInv
  <1>6. /\ rest \in Seq(Reports) /\ e \in Reports /\ e = from_exch[1] /\ 1 \in DOMAIN from_exch
        /\ \A i \in DOMAIN rest : i \in Nat /\ i > 0 /\ i + 1 \in DOMAIN from_exch /\ rest[i] = from_exch[i + 1]
    <2>1. Len(from_exch) \in Nat \ {0} /\ DOMAIN from_exch = 1 .. Len(from_exch)
      BY <1>0, <1>5, SeqEmpty, SeqLen
    <2>2. /\ rest \in Seq(Reports) /\ Head(from_exch) \in Reports /\ Len(rest) = Len(from_exch) - 1
          /\ \A i \in 1 .. Len(rest) : rest[i] = from_exch[i + 1]
      BY <1>0, <1>5, SeqTail
    <2>3. DOMAIN rest = 1 .. Len(rest)
      BY <2>2, SeqLen
    <2>4. Head(from_exch) = from_exch[1]
      BY <1>5
    <2> HIDE DEF rest
    <2> QED BY <1>0, <2>1, <2>2, <2>3, <2>4
  <1>7. r \in DOMAIN orders
    BY <1>i, <1>6 DEF ReportInv
  <1>8. orders[r].leaves \in Nat \ {0} /\ S \in Sides /\ q \in Nat /\ e.qty \in Nat
    BY <1>1, <1>5, <1>6, <1>7 DEF Entries, Reports
  <1>9. DOMAIN orders' \subseteq DOMAIN orders /\ DOMAIN table \in SUBSET DOMAIN orders
    BY <1>0, <1>1
  <1>10. IsFiniteSet(DOMAIN table)
    BY <1>5, <1>9, FinSubset
  <1>11. TypeInv'
    <2>1. orders' \in [DOMAIN orders' -> Entries] /\ DOMAIN orders' \subseteq 1 .. next_user_ref' - 1
      BY <1>i, <1>0, <1>1, <1>9 DEF TypeInv
    <2>2. from_exch' \in Seq(Reports)
      BY <1>0, <1>6
    <2> QED BY <1>i, <1>0, <1>2, <2>1, <2>2, Zenon DEF TypeInv
  <1>12. \A s : Leaves(orders, s) \in Nat /\ Leaves(table, s) \in Nat
                /\ Untold(orders, rest, s) \in Nat /\ Untold(table, rest, s) \in Nat
    <2> HIDE DEF rest
    <2>1. table \in [DOMAIN table -> Entries] /\ rest \in Seq(Reports)
      BY <1>1, <1>6
    <2> QED BY <1>5, <1>10, <2>1, SideType
  <1>13. risk.open \in [Sides -> Nat] /\ risk'.open \in [Sides -> Nat] /\ risk.position \in Int /\ risk'.position \in Int
    BY <1>i, <1>2, Zenon DEF TypeInv, Gates
  <1>14. \A s \in Sides : risk'.open[s] = Leaves(table, s) /\ risk.open[s] = Leaves(orders, s)
    <2>1. \A s \in Sides : risk.open[s] = Leaves(orders, s)
      BY <1>i DEF GateInv
    <2> HIDE DEF S
    <2> QED BY <1>2, <1>4, <1>8, <1>12, <1>13, <2>1
  <1>15. GateInv'
    BY <1>0, <1>2, <1>14, Zenon DEF GateInv
  <1>16. WayInv'
    <2>1. Way' = Way
      BY <1>0 DEF Way
    <2>2. ASSUME NEW i \in DOMAIN Way, Way[i].type = "O"
          PROVE  /\ Way[i].ref \in DOMAIN table
                 /\ table[Way[i].ref] = [side |-> Way[i].side, leaves |-> Way[i].qty]
                 /\ Way[i].ref \notin DOMAIN exch
                 /\ \A j \in DOMAIN rest : rest[j].ref # Way[i].ref
      <3>1. /\ Way[i].ref \in DOMAIN orders
            /\ orders[Way[i].ref] = [side |-> Way[i].side, leaves |-> Way[i].qty]
            /\ Way[i].ref \notin DOMAIN exch
            /\ \A j \in DOMAIN from_exch : from_exch[j].ref # Way[i].ref
        BY <1>i, <2>2, Zenon DEF WayInv
      <3>2. Way[i].ref # r
        BY <1>6, <3>1, Zenon
      <3> HIDE DEF rest, r
      <3> QED BY <1>1, <1>6, <3>1, <3>2
    <2>3. \A i, j \in DOMAIN Way :
       i # j /\ Way[i].type = "O" /\ Way[j].type = "O" => Way[i].ref # Way[j].ref
      BY <1>i, Zenon DEF WayInv
    <2>4. orders' = table /\ exch' = exch /\ from_exch' = rest
      BY <1>0
    <2> HIDE DEF rest
    <2> QED BY <2>1, <2>2, <2>3, <2>4, Zenon DEF WayInv
  <1>17. ExchInv'
    <2> SUFFICES ASSUME NEW x \in DOMAIN exch PROVE x \in DOMAIN table /\ exch[x].side = table[x].side
      BY <1>0 DEF ExchInv
    <2>1. x \in DOMAIN orders /\ exch[x].side = orders[x].side
      BY <1>i DEF ExchInv
    <2> HIDE DEF rest
    <2> QED BY <1>1, <2>1
  <1>18. ReportInv'
    <2>1. ASSUME NEW i \in DOMAIN rest
          PROVE  /\ rest[i].ref \in DOMAIN table
                 /\ rest[i].type \in {"E", "C"} <=> rest[i].qty > 0
                 /\ rest[i].type = "J" => rest[i].ref \notin DOMAIN exch
      <3> HIDE DEF rest
      <3>1. i + 1 \in DOMAIN from_exch /\ rest[i] = from_exch[i + 1]
        BY <1>6
      <3>2. /\ rest[i].ref \in DOMAIN orders
            /\ rest[i].type \in {"E", "C"} <=> rest[i].qty > 0
            /\ rest[i].type = "J" => rest[i].ref \notin DOMAIN exch
        BY <1>i, <3>1, Zenon DEF ReportInv
      <3>3. rest[i].ref \in DOMAIN table
        BY <1>1, <3>2
      <3> QED BY <3>2, <3>3
    <2>2. ASSUME NEW i \in DOMAIN rest, NEW j \in DOMAIN rest, i < j, rest[i].ref = rest[j].ref
          PROVE  rest[i].type # "J" /\ rest[j].type \in {"E", "C"}
      <3> HIDE DEF rest
      <3>1. /\ i + 1 \in DOMAIN from_exch /\ rest[i] = from_exch[i + 1] /\ j + 1 \in DOMAIN from_exch
            /\ rest[j] = from_exch[j + 1] /\ i + 1 < j + 1
        BY <1>6, <2>2
      <3> QED BY <1>i, <2>2, <3>1 DEF ReportInv
    <2>3. orders' = table /\ exch' = exch /\ from_exch' = rest
      BY <1>0
    <2> HIDE DEF rest
    <2> QED BY <2>1, <2>2, <2>3 DEF ReportInv
  <1>19. \A T, x : /\ Told(from_exch, T, x) = Told(rest, T, x) + (IF e.type \in T /\ r = x THEN e.qty ELSE 0)
                   /\ Told(rest, T, x) \in Nat
    <2>1. \A T, x : Told(from_exch, T, x) = Told(rest, T, x) + (IF e.type \in T /\ r = x THEN e.qty ELSE 0)
      BY <1>0, <1>5, ToldTail
    <2>2. rest \in Seq(Reports)
      BY <1>6
    <2> HIDE DEF rest
    <2>3. \A T, x : Told(rest, T, x) \in Nat
      BY <2>2, ToldType, Zenon
    <2> QED BY <2>1, <2>3
  <1>20. \A x \in DOMAIN table : Told(rest, {"E", "C"}, x) + Left(x) <= table[x].leaves /\ Left(x) \in Nat
    <2> SUFFICES ASSUME NEW x \in DOMAIN table
                 PROVE  Told(rest, {"E", "C"}, x) + Left(x) <= table[x].leaves /\ Left(x) \in Nat
      OBVIOUS
    <2>1. x \in DOMAIN orders /\ Told(from_exch, {"E", "C"}, x) + Left(x) <= orders[x].leaves
      BY <1>i, <1>1 DEF FitInv
    <2>2. Left(x) \in Nat /\ orders[x].leaves \in Nat
      BY <1>i, <1>5, <2>1 DEF Left, TypeInv, Entries
    <2> HIDE DEF rest
    <2>3. CASE x = r
      <3>1. q = e.qty /\ table[r].leaves = orders[r].leaves - q
        BY <1>1, <2>3
      <3>2. Told(from_exch, {"E", "C"}, r) = Told(rest, {"E", "C"}, r) + q /\ Told(rest, {"E", "C"}, r) \in Nat
        <4>1. e.type \in {"E", "C"} \/ e.qty = 0
          BY <1>i, <1>6, <1>8 DEF ReportInv
        <4>2. /\ Told(from_exch, {"E", "C"}, r) = Told(rest, {"E", "C"}, r) + (IF e.type \in {"E", "C"} /\ r = r THEN e.qty ELSE 0)
              /\ Told(rest, {"E", "C"}, r) \in Nat
          BY <1>19, Zenon
        <4> QED BY <3>1, <4>1, <4>2, Zenon
      <3> QED BY <1>8, <2>1, <2>2, <2>3, <3>1, <3>2
    <2>4. CASE x # r
      <3>1. table[x] = orders[x]
        BY <1>1, <2>1, <2>4
      <3>2. Told(from_exch, {"E", "C"}, x) = Told(rest, {"E", "C"}, x) + 0 /\ Told(rest, {"E", "C"}, x) \in Nat
        BY <1>19, <2>4, Zenon
      <3> QED BY <2>1, <2>2, <3>1, <3>2
    <2> QED BY <2>3, <2>4
  <1>21. FitInv'
    <2>1. orders' = table /\ exch' = exch /\ from_exch' = rest
      BY <1>0
    <2> HIDE DEF rest
    <2> QED BY <1>20, <2>1 DEF FitInv, Left
  <1>22. PositionInv'
    <2> DEFINE U(s) == Untold(orders, from_exch, s)
               V(s) == Untold(table, rest, s)
    <2>1. \A s : U(s) = V(s) + (IF e.type = "E" /\ S = s THEN q ELSE 0)
      <3>1. \A s : Untold(orders, from_exch, s) = Untold(orders, rest, s) + (IF e.type = "E" /\ S = s THEN e.qty ELSE 0)
        BY <1>0, <1>5, <1>7, UntoldTail
      <3>2. e.type = "E" => q = e.qty
        BY <1>1
      <3> HIDE DEF rest, S
      <3> QED BY <1>4, <3>1, <3>2
    <2>2. V("Buy") \in Nat /\ V("Sell") \in Nat
      BY <1>12
    <2>3. V("Buy") <= risk'.open["Buy"] /\ V("Sell") <= risk'.open["Sell"]
      <3> HIDE DEF rest
      <3>1. table \in [DOMAIN table -> Entries] /\ rest \in Seq(Reports)
        BY <1>1, <1>6
      <3>2. ASSUME NEW x \in DOMAIN table PROVE Told(rest, {"E", "C"}, x) <= table[x].leaves
        <4>1. Told(rest, {"E", "C"}, x) \in Nat /\ Left(x) \in Nat /\ Told(rest, {"E", "C"}, x) + Left(x) <= table[x].leaves
              /\ table[x].leaves \in Nat
          BY <1>19, <1>20, <3>1 DEF Entries
        <4> QED BY <4>1
      <3>3. \A s : Untold(table, rest, s) <= Leaves(table, s)
        BY <1>10, <3>1, <3>2, UntoldBound
      <3> QED BY <1>14, <3>3 DEF Sides
    <2>4. xpos = risk.position + U("Buy") - U("Sell") /\ xpos \in Int /\ max_position \in Nat
          /\ risk.position + risk.open["Buy"] <= max_position
          /\ risk.position - risk.open["Sell"] >= 0 - max_position
      BY <1>i, <1>0, TraderAssumption DEF PositionInv, TypeInv
    <2>5. U("Buy") = V("Buy") + (IF e.type = "E" /\ S = "Buy" THEN q ELSE 0)
          /\ U("Sell") = V("Sell") + (IF e.type = "E" /\ S = "Sell" THEN q ELSE 0)
      BY <2>1
    <2>6. risk.open["Buy"] \in Nat /\ risk.open["Sell"] \in Nat /\ risk'.open["Buy"] \in Nat /\ risk'.open["Sell"] \in Nat
          /\ risk.position \in Int /\ risk'.position \in Int
      BY <1>13 DEF Sides
    <2> HIDE DEF U, V, S, rest, r
    <2>7. /\ xpos = risk'.position + V("Buy") - V("Sell")
          /\ risk'.position + risk'.open["Buy"] <= max_position
          /\ risk'.position - risk'.open["Sell"] >= 0 - max_position
      <3>1. CASE S = "Buy"
        <4>1. risk'.open["Buy"] = risk.open["Buy"] - q /\ risk'.open["Sell"] = risk.open["Sell"]
          BY <1>2, <1>13, <3>1, Zenon DEF Sides
        <4>2. CASE e.type = "E"
          <5>1. risk'.position = risk.position + q
            <6>1. Sign(S) * q = q
              BY <1>8, <3>1 DEF Sign
            <6> QED BY <1>2, <4>2, <6>1
          <5>2. U("Buy") = V("Buy") + q /\ U("Sell") = V("Sell")
            BY <2>2, <2>5, <3>1, <4>2
          <5> QED BY <1>8, <2>2, <2>4, <2>6, <4>1, <5>1, <5>2
        <4>3. CASE e.type # "E"
          <5>1. risk'.position = risk.position
            BY <1>2, <2>6, <4>3
          <5>2. U("Buy") = V("Buy") /\ U("Sell") = V("Sell")
            BY <2>2, <2>5, <4>3
          <5> QED BY <1>8, <2>2, <2>4, <2>6, <4>1, <5>1, <5>2
        <4> QED BY <4>2, <4>3
      <3>2. CASE S = "Sell"
        <4>1. risk'.open["Sell"] = risk.open["Sell"] - q /\ risk'.open["Buy"] = risk.open["Buy"]
          BY <1>2, <1>13, <3>2 DEF Sides
        <4>2. CASE e.type = "E"
          <5>1. risk'.position = risk.position + (0 - q)
            <6>1. Sign(S) * q = 0 - q
              BY <1>8, <3>2 DEF Sign
            <6> QED BY <1>2, <4>2, <6>1
          <5>2. U("Buy") = V("Buy") /\ U("Sell") = V("Sell") + q
            BY <2>2, <2>5, <3>2, <4>2
          <5> QED BY <1>8, <2>2, <2>4, <2>6, <4>1, <5>1, <5>2
        <4>3. CASE e.type # "E"
          <5>1. risk'.position = risk.position
            BY <1>2, <2>6, <4>3
          <5>2. U("Buy") = V("Buy") /\ U("Sell") = V("Sell")
            BY <2>2, <2>5, <4>3
          <5> QED BY <1>8, <2>2, <2>4, <2>6, <4>1, <5>1, <5>2
        <4> QED BY <4>2, <4>3
      <3> QED BY <1>8, <3>1, <3>2, Zenon DEF Sides
    <2>8. xpos <= risk'.position + risk'.open["Buy"] /\ xpos >= risk'.position - risk'.open["Sell"]
      BY <2>2, <2>3, <2>4, <2>6, <2>7
    <2>9. xpos' = xpos /\ conn' = conn /\ orders' = table /\ from_exch' = rest /\ V("Buy") = Untold(table, rest, "Buy")
          /\ V("Sell") = Untold(table, rest, "Sell")
      BY <1>0 DEF V, rest
    <2> QED BY <1>0, <2>7, <2>8, <2>9 DEF PositionInv
  <1> QED BY <1>3, <1>11, <1>15, <1>16, <1>17, <1>18, <1>21, <1>22 DEF IInv

\* A gate after on_fill or on_cancelled.
Moved(h, g, p, S, q) ==
  /\ h.position = p /\ h.open = [g.open EXCEPT ![S] = @ - q] /\ h.open_orders = g.open_orders
  /\ h.sent_times = g.sent_times /\ h.next_slot = g.next_slot /\ h.sent_count = g.sent_count

\* They take q shares off one side.
LEMMA FillFields ==
  ASSUME Laws, risk \in Gates, NEW S \in Sides, NEW q \in Nat, q <= risk.open[S]
  PROVE  /\ OnFill(S, q) \in Gates /\ Moved(OnFill(S, q), risk, risk.position + Sign(S) * q, S, q)
         /\ OnCancelled(S, q) \in Gates /\ Moved(OnCancelled(S, q), risk, risk.position, S, q)
  <1> DEFINE p == risk.position + Sign(S) * q
             w == [risk.open EXCEPT ![S] = @ - q]
  <1>1. risk.position \in Int /\ risk.open \in [Sides -> Nat]
    BY DEF Gates
  <1>2. p \in Int
    BY <1>1 DEF Sign
  <1>3. w \in [Sides -> Nat]
    <2>1. risk.open[S] - q \in Nat
      BY <1>1
    <2> QED BY <1>1, <2>1
  <1>4. OnFill(S, q) = [risk EXCEPT !.position = p, !.open = w]
    BY DEF OnFill, Gates
  <1>5. OnCancelled(S, q) = [risk EXCEPT !.open = w]
    BY DEF OnCancelled, Gates
  <1> HIDE DEF p, w
  <1>6. OnFill(S, q) \in Gates /\ OnCancelled(S, q) \in Gates
    BY <1>2, <1>3, <1>4, <1>5, Zenon DEF Gates
  <1>7. /\ OnFill(S, q).position = p /\ OnFill(S, q).open = w
        /\ OnFill(S, q).open_orders = risk.open_orders /\ OnFill(S, q).sent_times = risk.sent_times
        /\ OnFill(S, q).next_slot = risk.next_slot /\ OnFill(S, q).sent_count = risk.sent_count
    BY <1>4 DEF Gates
  <1>8. /\ OnCancelled(S, q).position = risk.position /\ OnCancelled(S, q).open = w
        /\ OnCancelled(S, q).open_orders = risk.open_orders /\ OnCancelled(S, q).sent_times = risk.sent_times
        /\ OnCancelled(S, q).next_slot = risk.next_slot /\ OnCancelled(S, q).sent_count = risk.sent_count
    BY <1>5 DEF Gates
  <1> QED BY <1>6, <1>7, <1>8, Zenon DEF Moved, p, w

\* and after on_order_closed.
LEMMA ClosedFields ==
  ASSUME Laws, NEW g \in Gates, g.open_orders > 0
  PROVE  LET h == OnOrderClosed(g)
         IN  /\ h \in Gates /\ h.open_orders = g.open_orders - 1 /\ h.position = g.position /\ h.open = g.open
             /\ h.sent_times = g.sent_times /\ h.next_slot = g.next_slot /\ h.sent_count = g.sent_count
  <1>1. OnOrderClosed(g) = [g EXCEPT !.open_orders = g.open_orders - 1] /\ g.open_orders - 1 \in 0 .. max_open_orders
    <2>1. g.open_orders \in 0 .. max_open_orders /\ max_open_orders \in Nat
      BY TraderAssumption DEF Gates
    <2> QED BY <2>1 DEF OnOrderClosed
  <1> QED BY <1>1, Zenon DEF Gates

\* on_accepted, on_executed, on_canceled and on_rejected.
LEMMA OnReportIInv ==
  ASSUME Laws, IInv, OnReport
  PROVE  IInv'
  <1>i. /\ TypeInv /\ GateInv /\ WayInv /\ ExchInv /\ ReportInv /\ FitInv /\ PositionInv
        /\ RingInv /\ RateLimit
    BY DEF IInv
  <1>0. PICK e, o : e = Head(from_exch) /\ o = orders[e.ref]
    OBVIOUS
  <1> DEFINE r == e.ref
             rest == Tail(from_exch)
             q0 == IF e.qty > o.leaves THEN o.leaves ELSE e.qty
  <1>1. /\ from_exch # << >> /\ conn /\ from_exch' = rest
        /\ UNCHANGED <<next_user_ref, now, oe_up, oe_pending, conn, to_exch, exch, xpos, phase, sends>>
    <2>1. phase # "gone" /\ from_exch # << >> /\ from_exch' = rest
          /\ UNCHANGED <<next_user_ref, now, oe_up, oe_pending, conn, to_exch, exch, xpos, phase, sends>>
      BY Zenon DEF OnReport, exchVars
    <2>2. conn
      BY <1>i, <2>1 DEF PositionInv, TypeInv
    <2> QED BY <2>1, <2>2
  <1>2. /\ from_exch \in Seq(Reports) /\ IsFiniteSet(DOMAIN orders) /\ orders \in [DOMAIN orders -> Entries]
        /\ risk \in Gates
    BY <1>i, TableFinite DEF TypeInv
  <1>3. /\ rest \in Seq(Reports) /\ e \in Reports /\ e = from_exch[1] /\ 1 \in DOMAIN from_exch
        /\ \A i \in DOMAIN rest : i \in Nat /\ i > 0 /\ i + 1 \in DOMAIN from_exch /\ rest[i] = from_exch[i + 1]
    <2>1. Len(from_exch) \in Nat \ {0} /\ DOMAIN from_exch = 1 .. Len(from_exch)
      BY <1>1, <1>2, SeqEmpty, SeqLen
    <2>2. /\ rest \in Seq(Reports) /\ Head(from_exch) \in Reports /\ Len(rest) = Len(from_exch) - 1
          /\ \A i \in 1 .. Len(rest) : rest[i] = from_exch[i + 1]
      BY <1>1, <1>2, SeqTail
    <2>3. DOMAIN rest = 1 .. Len(rest)
      BY <2>2, SeqLen
    <2>4. Head(from_exch) = from_exch[1]
      BY <1>2
    <2> HIDE DEF rest
    <2> QED BY <1>0, <2>1, <2>2, <2>3, <2>4
  <1>4. /\ r \in DOMAIN orders
        /\ e.type \in {"E", "C"} <=> e.qty > 0
        /\ e.type = "J" => r \notin DOMAIN exch
    BY <1>i, <1>3 DEF ReportInv
  <1>5. \A i \in DOMAIN rest : rest[i].ref = r => e.type # "J" /\ rest[i].type \in {"E", "C"} /\ rest[i].qty > 0
    <2> SUFFICES ASSUME NEW i \in DOMAIN rest, rest[i].ref = r
                 PROVE  e.type # "J" /\ rest[i].type \in {"E", "C"} /\ rest[i].qty > 0
      OBVIOUS
    <2> HIDE DEF rest
    <2>1. 1 < i + 1 /\ i + 1 \in DOMAIN from_exch /\ rest[i] = from_exch[i + 1] /\ from_exch[1].ref = from_exch[i + 1].ref
      BY <1>3
    <2>2. from_exch[1].type # "J" /\ from_exch[i + 1].type \in {"E", "C"}
      BY <1>i, <1>3, <2>1 DEF ReportInv
    <2>3. from_exch[i + 1].qty > 0
      BY <1>i, <2>1, <2>2 DEF ReportInv
    <2> QED BY <1>3, <2>1, <2>2, <2>3
  <1>6. o \in Entries /\ o.leaves \in Nat \ {0} /\ o.side \in Sides /\ e.qty \in Nat /\ e.type \in {"A", "J", "E", "C"}
    <2>1. o \in Entries
      BY <1>0, <1>2, <1>4
    <2> QED BY <1>3, <2>1 DEF Entries, Reports
  <1>7. Told(rest, {"E", "C"}, r) \in Nat
        /\ Told(from_exch, {"E", "C"}, r) = Told(rest, {"E", "C"}, r) + (IF e.type \in {"E", "C"} THEN e.qty ELSE 0)
    <2>1. Told(rest, {"E", "C"}, r) \in Nat
      BY <1>3, ToldType, Zenon
    <2>2. Told(from_exch, {"E", "C"}, r) = Told(rest, {"E", "C"}, r)
             + (IF e.type \in {"E", "C"} /\ e.ref = r THEN e.qty ELSE 0)
      BY <1>0, <1>1, <1>2, ToldTail
    <2> QED BY <2>1, <2>2
  <1>8. Told(from_exch, {"E", "C"}, r) + Left(r) <= o.leaves /\ Left(r) \in Nat /\ (r \in DOMAIN exch => Left(r) > 0)
    <2>1. Told(from_exch, {"E", "C"}, r) + Left(r) <= o.leaves
      BY <1>i, <1>0, <1>4, Zenon DEF FitInv
    <2>2. exch \in [DOMAIN exch -> [side : Sides, left : Nat \ {0}]]
      BY <1>i DEF TypeInv
    <2> QED BY <2>1, <2>2 DEF Left
  <1>9. risk.open_orders = Cardinality(DOMAIN orders) /\ Cardinality(DOMAIN orders) \in Nat
    BY <1>i, <1>2, FinCount DEF GateInv
  <1>10. risk.open[o.side] = Leaves(orders, o.side) /\ Leaves(orders, o.side) \in Nat /\ o.leaves <= Leaves(orders, o.side)
    <2>1. risk.open[o.side] = Leaves(orders, o.side)
      BY <1>i, <1>6 DEF GateInv
    <2>2. Leaves(orders, o.side) \in Nat
      BY <1>2, SideType
    <2>3. Leaves(orders, o.side) = Leaves(Drop(orders, r), o.side) + o.leaves
      <3>1. Leaves(orders, o.side) = Leaves(Drop(orders, r), o.side) + (IF orders[r].side = o.side THEN orders[r].leaves ELSE 0)
        BY <1>2, <1>4, SideDrop
      <3> QED BY <1>0, <3>1
    <2>4. Leaves(Drop(orders, r), o.side) \in Nat
      <3>1. DOMAIN Drop(orders, r) = DOMAIN orders \ {r} /\ Drop(orders, r) \in [DOMAIN Drop(orders, r) -> Entries]
        BY <1>2 DEF Drop
      <3>2. IsFiniteSet(DOMAIN orders \ {r})
        BY <1>2, FinRemove, Zenon
      <3> QED BY <1>3, <3>1, <3>2, SideType
    <2> QED BY <1>6, <2>1, <2>2, <2>3, <2>4
  <1>gate. ASSUME NEW q \in Nat, q <= o.leaves, NEW g,
                  g = IF e.type = "E" THEN OnFill(o.side, q) ELSE OnCancelled(o.side, q)
           PROVE  g \in Gates /\ Moved(g, risk, risk.position + (IF e.type = "E" THEN Sign(o.side) * q ELSE 0), o.side, q)
    <2>1. q <= risk.open[o.side] /\ risk.position + 0 = risk.position
      BY <1>2, <1>6, <1>10, <1>gate DEF Gates
    <2>2. /\ OnFill(o.side, q) \in Gates /\ Moved(OnFill(o.side, q), risk, risk.position + Sign(o.side) * q, o.side, q)
          /\ OnCancelled(o.side, q) \in Gates /\ Moved(OnCancelled(o.side, q), risk, risk.position, o.side, q)
      BY <1>2, <1>6, <2>1, FillFields
    <2>3. CASE e.type = "E"
      BY <1>gate, <2>2, <2>3
    <2>4. CASE e.type # "E"
      BY <1>gate, <2>1, <2>2, <2>4, Zenon
    <2> QED BY <2>3, <2>4
  <1> HIDE DEF rest
  \* The report closes the order.
  <1>11. ASSUME NEW q \in Nat, q = o.leaves, e.type \in {"E", "C", "J"}, e.type # "J" => q = e.qty,
                orders' = Drop(orders, r),
                risk' = OnOrderClosed(IF e.type = "E" THEN OnFill(o.side, q) ELSE OnCancelled(o.side, q))
         PROVE  IInv'
    <2> DEFINE table == Drop(orders, r)
    <2>1. /\ DOMAIN table = DOMAIN orders \ {r} /\ (\A x \in DOMAIN orders : x # r => table[x] = orders[x])
          /\ table \in [DOMAIN table -> Entries]
      BY <1>2 DEF Drop
    <2>2. r \notin DOMAIN exch /\ \A i \in DOMAIN rest : rest[i].ref # r
      <3>1. CASE e.type = "J"
        BY <1>4, <1>5, <3>1
      <3>2. CASE e.type # "J"
        <4>1. Told(rest, {"E", "C"}, r) = 0 /\ Left(r) = 0
          BY <1>6, <1>7, <1>8, <1>11, <3>2
        <4>2. r \notin DOMAIN exch
          BY <1>8, <4>1
        <4>3. ASSUME NEW i \in DOMAIN rest, rest[i].ref = r PROVE FALSE
          <5>1. rest[i].type \in {"E", "C"} /\ rest[i].qty > 0
            BY <1>5, <4>3
          <5>2. Told(rest, {"E", "C"}, r) >= rest[i].qty
            BY <1>3, <4>3, <5>1, ToldAtLeast, Zenon
          <5>3. rest[i] \in Reports
            BY <1>3, <4>3, SeqLen
          <5> QED BY <4>1, <5>1, <5>2, <5>3 DEF Reports
        <4> QED BY <4>2, <4>3
      <3> QED BY <3>1, <3>2
    <2>3. \A s : /\ Leaves(table, s) = Leaves(orders, s) - (IF o.side = s THEN q ELSE 0)
                 /\ Untold(table, rest, s) = Untold(orders, rest, s)
      <3> TAKE s
      <3>1. orders \in [DOMAIN orders -> Entries] /\ IsFiniteSet(DOMAIN orders) /\ r \in DOMAIN orders /\ rest \in Seq(Reports)
        BY <1>2, <1>3, <1>4
      <3>2. Told(rest, {"E"}, r) = 0
        BY <1>3, <2>2, ToldNothing
      <3>3. IsFiniteSet(DOMAIN table)
        BY <1>2, <2>1, FinRemove
      <3>4. Leaves(table, s) \in Nat
        BY <1>3, <2>1, <3>3, SideType
      <3>5. orders[r].leaves = q /\ orders[r].side = o.side
        BY <1>0, <1>11, Zenon
      <3>6. Leaves(orders, s) = Leaves(table, s) + (IF orders[r].side = s THEN orders[r].leaves ELSE 0)
        <4> HIDE DEF r
        <4> QED BY <3>1, SideDrop
      <3>7. Untold(orders, rest, s) = Untold(table, rest, s)
        <4> HIDE DEF r
        <4> QED BY <3>1, <3>2, UntoldDrop
      <3> HIDE DEF table
      <3>8. Leaves(orders, s) = Leaves(table, s) + (IF o.side = s THEN q ELSE 0)
        BY <3>5, <3>6
      <3> QED BY <3>4, <3>7, <3>8
    <2>4. Cardinality(DOMAIN table) = Cardinality(DOMAIN orders) - 1 /\ Cardinality(DOMAIN orders) > 0
      <3>1. Cardinality(DOMAIN orders \ {r}) = Cardinality(DOMAIN orders) - 1
        BY <1>2, <1>4, FinRemove, Zenon
      <3>2. Cardinality(DOMAIN orders) # 0
        BY <1>2, <1>4, FinRemove, Zenon
      <3> QED BY <1>9, <2>1, <3>1, <3>2
    <2>5. /\ risk'.position = risk.position + (IF e.type = "E" THEN Sign(o.side) * q ELSE 0)
          /\ risk'.open = [risk.open EXCEPT ![o.side] = @ - q]
          /\ risk'.open_orders = risk.open_orders - 1
          /\ risk'.sent_times = risk.sent_times /\ risk'.next_slot = risk.next_slot
          /\ risk'.sent_count = risk.sent_count
          /\ risk' \in Gates
      <3>1. PICK g : g = IF e.type = "E" THEN OnFill(o.side, q) ELSE OnCancelled(o.side, q)
        OBVIOUS
      <3>2. g \in Gates /\ Moved(g, risk, risk.position + (IF e.type = "E" THEN Sign(o.side) * q ELSE 0), o.side, q)
        BY <1>6, <1>11, <1>gate, <3>1
      <3>3. risk' = OnOrderClosed(g)
        BY <1>11, <3>1
      <3>4. g.open_orders > 0
        BY <1>9, <2>4, <3>2 DEF Moved
      <3>5. /\ risk' \in Gates /\ risk'.open_orders = g.open_orders - 1 /\ risk'.position = g.position
            /\ risk'.open = g.open /\ risk'.sent_times = g.sent_times /\ risk'.next_slot = g.next_slot
            /\ risk'.sent_count = g.sent_count
        BY <3>2, <3>3, <3>4, ClosedFields
      <3> QED BY <3>2, <3>5 DEF Moved
    <2>6. q \in 0 .. orders[r].leaves /\ (e.type = "E" => q = e.qty)
      BY <1>0, <1>6, <1>11
    <2> HIDE DEF table
    <2>7. orders' = table
      BY <1>11 DEF table
    <2>8. Takes(e, q, table)
      BY <1>0, <1>1, <1>9, <2>1, <2>2, <2>3, <2>4, <2>5, <2>6, <2>7, Zenon DEF Takes, rest
    <2> QED BY <2>8, TakeIInv
  \* Shares are left.
  <1>12. ASSUME NEW q \in Nat, q < o.leaves, e.type \in {"E", "C"}, q = e.qty,
                orders' = [orders EXCEPT ![r].leaves = o.leaves - q],
                risk' = IF e.type = "E" THEN OnFill(o.side, q) ELSE OnCancelled(o.side, q)
         PROVE  IInv'
    <2> DEFINE table == [orders EXCEPT ![r].leaves = o.leaves - q]
    <2>0. o.leaves - q \in Nat \ {0}
      BY <1>6, <1>12
    <2>1. /\ DOMAIN table = DOMAIN orders /\ (\A x \in DOMAIN orders : x # r => table[x] = orders[x])
          /\ table[r] = [o EXCEPT !.leaves = o.leaves - q]
      BY <1>0, <1>4
    <2>2. table[r].side = o.side /\ table[r].leaves = o.leaves - q /\ table[r] \in Entries
      BY <1>6, <2>0, <2>1 DEF Entries
    <2> HIDE DEF table
    <2>4. table \in [DOMAIN orders -> Entries]
      <3>1. \A x \in DOMAIN table : table[x] \in Entries
        BY <1>2, <2>1, <2>2
      <3>2. table = [x \in DOMAIN orders |-> table[x]]
        BY <2>1 DEF table
      <3> QED BY <2>1, <3>1, <3>2
    <2>3. \A s : /\ Leaves(table, s) = Leaves(orders, s) - (IF o.side = s THEN q ELSE 0)
                 /\ Untold(table, rest, s) = Untold(orders, rest, s)
      <3> TAKE s
      <3>1. PICK n : n = o.leaves - q
        OBVIOUS
      <3>2. /\ Leaves(table, s) = Leaves(orders, s) + (IF orders[r].side = s THEN n - orders[r].leaves ELSE 0)
            /\ Untold(table, rest, s) = Untold(orders, rest, s)
        <4>1. orders \in [DOMAIN orders -> Entries] /\ IsFiniteSet(DOMAIN orders) /\ r \in DOMAIN orders
              /\ rest \in Seq(Reports) /\ n \in Nat
          BY <1>2, <1>3, <1>4, <2>0, <3>1
        <4>2. Resized(table, orders, r, n)
          BY <1>0, <2>1, <2>2, <2>4, <3>1 DEF Resized
        <4> HIDE DEF r
        <4> QED BY <4>1, <4>2, SideSet
      <3>3. Leaves(orders, s) \in Nat
        BY <1>2, <1>3, SideType
      <3> QED BY <1>0, <1>6, <1>12, <3>1, <3>2, <3>3
    <2>5. /\ risk'.position = risk.position + (IF e.type = "E" THEN Sign(o.side) * q ELSE 0)
          /\ risk'.open = [risk.open EXCEPT ![o.side] = @ - q]
          /\ risk'.open_orders = risk.open_orders
          /\ risk'.sent_times = risk.sent_times /\ risk'.next_slot = risk.next_slot
          /\ risk'.sent_count = risk.sent_count
          /\ risk' \in Gates
      <3>1. PICK g : g = IF e.type = "E" THEN OnFill(o.side, q) ELSE OnCancelled(o.side, q)
        OBVIOUS
      <3>2. g \in Gates /\ Moved(g, risk, risk.position + (IF e.type = "E" THEN Sign(o.side) * q ELSE 0), o.side, q)
        BY <1>6, <1>12, <1>gate, <3>1
      <3>3. risk' = g
        BY <1>12, <3>1
      <3> QED BY <3>2, <3>3 DEF Moved
    <2>6. q \in 0 .. orders[r].leaves /\ (e.type = "E" => q = e.qty) /\ q = e.qty
      BY <1>0, <1>6, <1>12
    <2>7. orders' = table
      BY <1>12 DEF table
    <2>8. Takes(e, q, table)
      BY <1>0, <1>1, <1>4, <1>9, <2>1, <2>2, <2>3, <2>4, <2>5, <2>6, <2>7 DEF Takes, rest
    <2> QED BY <2>8, TakeIInv
  \* An acceptance changes nothing.
  <1>13. ASSUME e.type = "A", UNCHANGED <<orders, risk>>
         PROVE  IInv'
    <2>1. e.qty = 0
      BY <1>4, <1>6, <1>13
    <2>2. \A s : Leaves(orders, s) = Leaves(orders, s) - (IF o.side = s THEN 0 ELSE 0)
      BY <1>2, <1>3, SideType
    <2>3. risk'.position = risk.position + (IF e.type = "E" THEN Sign(o.side) * 0 ELSE 0)
          /\ risk'.open = [risk.open EXCEPT ![o.side] = @ - 0]
      <3>1. risk.position \in Int /\ risk.open \in [Sides -> Nat]
        BY <1>2 DEF Gates
      <3> QED BY <1>6, <1>13, <3>1
    <2>4. PICK table : table = orders
      OBVIOUS
    <2>5. 0 \in 0 .. orders[r].leaves /\ table[r].leaves = orders[r].leaves - 0 /\ orders' = table /\ risk' = risk
      BY <1>0, <1>6, <1>13, <2>4
    <2>6. Takes(e, 0, table)
      BY <1>0, <1>1, <1>2, <1>4, <1>9, <1>13, <2>1, <2>2, <2>3, <2>4, <2>5, Zenon DEF Takes, rest
    <2> QED BY <2>6, TakeIInv
  \* An executed or cancelled quantity never exceeds what is left.
  <1>14. e.type \in {"E", "C"} => e.qty <= o.leaves /\ q0 = e.qty
    BY <1>6, <1>7, <1>8
  <1>15. \/ e.type = "E" /\ Close(r, o.leaves - q0, OnFill(o.side, q0))
         \/ e.type = "C" /\ Close(r, o.leaves - q0, OnCancelled(o.side, q0))
         \/ e.type = "J" /\ Close(r, 0, OnCancelled(o.side, o.leaves))
         \/ e.type = "A" /\ UNCHANGED <<orders, risk>>
    BY <1>0, <1>4, Zenon DEF OnReport
  <1> HIDE DEF q0
  <1>16. CASE e.type \in {"E", "C"}
    <2> DEFINE gate == IF e.type = "E" THEN OnFill(o.side, e.qty) ELSE OnCancelled(o.side, e.qty)
    <2>1. Close(r, o.leaves - e.qty, gate) /\ e.qty <= o.leaves
      BY <1>14, <1>15, <1>16
    <2>2. CASE e.qty = o.leaves
      <3>1. orders' = Drop(orders, r) /\ risk' = OnOrderClosed(gate)
        BY <1>6, <2>1, <2>2 DEF Close
      <3> QED BY <1>6, <1>11, <1>16, <2>2, <3>1
    <2>3. CASE e.qty # o.leaves
      <3>1. orders' = [orders EXCEPT ![r].leaves = o.leaves - e.qty] /\ risk' = gate
        BY <1>6, <2>1, <2>3 DEF Close
      <3>2. e.qty < o.leaves
        BY <1>6, <2>1, <2>3
      <3> QED BY <1>6, <1>12, <1>16, <3>1, <3>2, Zenon
    <2> QED BY <2>2, <2>3, Zenon
  <1>17. CASE e.type = "J"
    <2>1. orders' = Drop(orders, r) /\ risk' = OnOrderClosed(OnCancelled(o.side, o.leaves))
      BY <1>15, <1>17 DEF Close
    <2> QED BY <1>6, <1>11, <1>17, <2>1
  <1>18. CASE e.type = "A"
    BY <1>13, <1>15, <1>18
  <1> QED BY <1>6, <1>16, <1>17, <1>18
----------------------------------------------------------------------------
(* The theorems.                                                            *)

\* Every step keeps the invariant.
LEMMA NextIInv == ASSUME Laws PROVE IInv /\ [Next]_vars => IInv'
  <1> SUFFICES ASSUME IInv, [Next]_vars PROVE IInv'
    OBVIOUS
  <1>1. ASSUME NEW side \in Sides, NEW qty \in 0 .. max_order_qty + 1, NEW k \in 0 .. 1, NEW broken \in BOOLEAN,
               Trade(side, qty, k, broken)
        PROVE  IInv'
    <2>1. qty \in Nat
      BY TraderAssumption
    <2> QED BY <1>1, <2>1, TradeIInv
  <1>2. CASE \/ \E k \in 0 .. Len(Cancels), broken \in BOOLEAN : Resync(k, broken) \/ WindDown(k, broken)
             \/ Logout \/ Tick \/ UNCHANGED vars
    BY <1>2, IdleIInv
  <1>3. CASE Trader
    BY <1>1, <1>2, <1>3 DEF Trader
  <1>4. CASE Reads
    BY <1>4, OnReportIInv DEF Reads
  <1>5. CASE \E k \in 0 .. Len(oe_pending), broken \in BOOLEAN : FlushOePending(k, broken)
    BY <1>5, FlushIInv
  <1>6. CASE Resolves
    BY <1>6, XEnterIInv, XCancelIInv, XExpireIInv DEF Resolves
  <1>7. CASE \E ref \in DOMAIN exch : \E qty \in 1 .. exch[ref].left : XFill(ref, qty)
    BY <1>7, XFillIInv
  <1>8. CASE Break
    BY <1>8, BreakIInv
  <1> QED BY <1>2, <1>3, <1>4, <1>5, <1>6, <1>7, <1>8 DEF Next
============================================================================
