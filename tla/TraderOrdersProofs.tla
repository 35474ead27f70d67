------------------------- MODULE TraderOrdersProofs -------------------------
(***************************************************************************)
(* The theorems about the trader's orders.  The sums of module             *)
(* TraderOrders obey the laws that the proofs of module TraderSteps use,   *)
(* so the invariant of that module is one of the specification, and the    *)
(* four safety properties follow from it.                                  *)
(***************************************************************************)
EXTENDS TraderSteps, FiniteSetTheorems

----------------------------------------------------------------------------
(* Sums of naturals, written as the number of the units they consist of.    *)

\* A sum over finitely many naturals is a natural.
LEMMA TotalType ==
  ASSUME NEW f, IsFiniteSet(DOMAIN f), \A x \in DOMAIN f : f[x] \in Nat
  PROVE  IsFiniteSet(Units(f)) /\ Total(f) \in Nat
  <1> DEFINE g == [x \in DOMAIN f |-> {x} \X (1 .. f[x])]
             R == {{x} \X (1 .. f[x]) : x \in DOMAIN f}
  <1>1. g \in Surjection(DOMAIN f, R)
    BY Zenon DEF Surjection
  <1>2. IsFiniteSet(R)
    BY <1>1, FS_Surjection
  <1>3. ASSUME NEW T \in R PROVE IsFiniteSet(T)
    <2>1. PICK x \in DOMAIN f : T = {x} \X (1 .. f[x])
      BY <1>3
    <2>2. IsFiniteSet(1 .. f[x])
      BY FS_Interval
    <2>3. IsFiniteSet({x})
      BY FS_Singleton
    <2> QED BY <2>1, <2>2, <2>3, FS_Product, Zenon
  <1>4. IsFiniteSet(Units(f))
    <2> HIDE DEF R
    <2>1. IsFiniteSet(UNION R)
      BY <1>2, <1>3, FS_UNION
    <2> QED BY <2>1 DEF Units, R
  <1> QED BY <1>4, FS_CardinalityType DEF Total

\* One term taken out.
LEMMA TotalDrop ==
  ASSUME NEW f, IsFiniteSet(DOMAIN f), \A x \in DOMAIN f : f[x] \in Nat, NEW k \in DOMAIN f
  PROVE  Total(f) = Total(Drop(f, k)) + f[k]
  <1> DEFINE g == Drop(f, k)
             K == {k} \X (1 .. f[k])
  <1>1. DOMAIN g = DOMAIN f \ {k} /\ \A x \in DOMAIN g : g[x] = f[x]
    BY DEF Drop
  <1>2. IsFiniteSet(DOMAIN g)
    BY <1>1, FS_RemoveElement
  <1>3. IsFiniteSet(Units(g)) /\ Total(g) \in Nat
    <2> HIDE DEF g
    <2> QED BY <1>1, <1>2, TotalType
  <1>4. IsFiniteSet(K) /\ Cardinality(K) = f[k]
    <2>1. IsFiniteSet(1 .. f[k]) /\ Cardinality(1 .. f[k]) = f[k]
      BY FS_Interval
    <2>2. IsFiniteSet({k}) /\ Cardinality({k}) = 1
      BY FS_Singleton
    <2>3. IsFiniteSet(K) /\ Cardinality(K) = Cardinality({k}) * Cardinality(1 .. f[k])
      <3>1. IsFiniteSet({k}) /\ IsFiniteSet(1 .. f[k])
        BY <2>1, <2>2
      <3> QED BY <3>1, FS_Product, Zenon
    <2> QED BY <2>1, <2>2, <2>3
  <1>5. Units(f) = Units(g) \cup K
    <2> HIDE DEF g
    <2> QED BY <1>1 DEF Units
  <1>6. Units(g) \cap K = {}
    <2> HIDE DEF g
    <2> QED BY <1>1 DEF Units
  <1>7. Cardinality(Units(g) \cup K) = Cardinality(Units(g)) + Cardinality(K) - Cardinality(Units(g) \cap K)
    BY <1>3, <1>4, FS_Union
  <1> HIDE DEF g, K
  <1>8. Cardinality(Units(f)) = Cardinality(Units(g)) + f[k]
    BY <1>3, <1>4, <1>5, <1>6, <1>7, FS_EmptySet DEF Total
  <1> QED BY <1>8 DEF Total, g

\* Term by term at most, in all at most.
LEMMA TotalMono ==
  ASSUME NEW f, NEW g, IsFiniteSet(DOMAIN f), DOMAIN g = DOMAIN f,
         \A x \in DOMAIN f : f[x] \in Nat /\ g[x] \in Nat /\ f[x] <= g[x]
  PROVE  Total(f) <= Total(g)
  <1>1. Units(f) \in SUBSET Units(g)
    BY DEF Units
  <1>2. IsFiniteSet(Units(g))
    BY TotalType
  <1> QED BY <1>1, <1>2, FS_Subset DEF Total

\* The same terms, one place further down.
LEMMA TotalShift ==
  ASSUME NEW f, NEW g, IsFiniteSet(DOMAIN f), DOMAIN f \subseteq Int,
         \A x \in DOMAIN f : f[x] \in Nat,
         DOMAIN g = {x - 1 : x \in DOMAIN f},
         \A x \in DOMAIN f : g[x - 1] = f[x]
  PROVE  Total(g) = Total(f)
  <1> DEFINE h == [u \in Units(f) |-> <<u[1] - 1, u[2]>>]
  <1>1. \A u \in Units(f) : u[1] \in DOMAIN f /\ u[2] \in 1 .. f[u[1]] /\ u = <<u[1], u[2]>>
    BY DEF Units
  <1>2. h \in [Units(f) -> Units(g)]
    BY <1>1 DEF Units
  <1>3. \A u, v \in Units(f) : h[u] = h[v] => u = v
    BY <1>1
  <1>4. \A v \in Units(g) : \E u \in Units(f) : h[u] = v
    <2> SUFFICES ASSUME NEW v \in Units(g) PROVE \E u \in Units(f) : h[u] = v
      OBVIOUS
    <2>1. PICK y \in DOMAIN g : \E j \in 1 .. g[y] : v = <<y, j>>
      BY DEF Units
    <2>2. PICK j \in 1 .. g[y] : v = <<y, j>>
      BY <2>1
    <2>3. PICK x \in DOMAIN f : y = x - 1
      OBVIOUS
    <2>4. <<x, j>> \in Units(f)
      BY <2>2, <2>3 DEF Units
    <2>5. h[<<x, j>>] = v
      BY <2>2, <2>3, <2>4
    <2> QED BY <2>4, <2>5
  <1>5. h \in Bijection(Units(f), Units(g))
    BY <1>2, <1>3, <1>4, Zenon DEF Bijection, Injection, Surjection, IsInjective
  <1>6. IsFiniteSet(Units(f))
    BY TotalType
  <1> QED BY <1>5, <1>6, FS_Bijection DEF Total, ExistsBijection

\* One term changed.
LEMMA TotalChange ==
  ASSUME NEW f, NEW g, IsFiniteSet(DOMAIN f), DOMAIN g = DOMAIN f, NEW k \in DOMAIN f,
         \A x \in DOMAIN f : f[x] \in Nat /\ g[x] \in Nat,
         \A x \in DOMAIN f \ {k} : g[x] = f[x]
  PROVE  Total(g) = Total(f) - f[k] + g[k]
  <1>1. Drop(g, k) = Drop(f, k)
    BY DEF Drop
  <1>2. Total(f) = Total(Drop(f, k)) + f[k] /\ Total(g) = Total(Drop(g, k)) + g[k]
    BY TotalDrop
  <1>3. IsFiniteSet(DOMAIN f \ {k})
    BY FS_RemoveElement
  <1>4. Total(Drop(f, k)) \in Nat
    BY <1>3, TotalType DEF Drop
  <1> QED BY <1>1, <1>2, <1>4

\* The reports of the given types about one order.
Counted(reports, types, ref) ==
  {i \in DOMAIN reports : reports[i].type \in types /\ reports[i].ref = ref}
Shares(reports, types, ref) == [i \in Counted(reports, types, ref) |-> reports[i].qty]

\* The sum of the shares that some reports tell of an order has finitely many terms.
LEMMA SharesType ==
  ASSUME NEW s \in Seq(Reports), NEW types, NEW ref
  PROVE  /\ Told(s, types, ref) = Total(Shares(s, types, ref))
         /\ DOMAIN Shares(s, types, ref) = Counted(s, types, ref)
         /\ Counted(s, types, ref) \subseteq 1 .. Len(s)
         /\ IsFiniteSet(Counted(s, types, ref))
         /\ \A i \in Counted(s, types, ref) : Shares(s, types, ref)[i] = s[i].qty /\ s[i].qty \in Nat
         /\ Told(s, types, ref) \in Nat
  <1>1. Told(s, types, ref) = Total(Shares(s, types, ref))
    BY DEF Told, Shares, Counted
  <1>2. DOMAIN Shares(s, types, ref) = Counted(s, types, ref)
    BY DEF Shares
  <1>3. Counted(s, types, ref) \subseteq 1 .. Len(s)
    BY DEF Counted
  <1>4. IsFiniteSet(Counted(s, types, ref))
    <2>1. IsFiniteSet(1 .. Len(s)) /\ Counted(s, types, ref) \in SUBSET (1 .. Len(s))
      BY <1>3, FS_Interval, SeqLen
    <2> QED BY <2>1, FS_Subset
  <1>5. \A i \in Counted(s, types, ref) : Shares(s, types, ref)[i] = s[i].qty /\ s[i].qty \in Nat
    <2>1. ASSUME NEW i \in Counted(s, types, ref) PROVE s[i].qty \in Nat
      <3>1. s[i] \in Reports
        BY <1>3, SeqLen
      <3> QED BY <3>1 DEF Reports
    <2> QED BY <2>1 DEF Shares
  <1>6. Told(s, types, ref) \in Nat
    BY <1>1, <1>2, <1>4, <1>5, TotalType
  <1> QED BY <1>1, <1>2, <1>3, <1>4, <1>5, <1>6

\* It is a natural.
LEMMA ToldTypeHolds ==
  ASSUME NEW s \in Seq(Reports), NEW types, NEW ref
  PROVE  Told(s, types, ref) \in Nat
  BY SharesType

\* A report more.
LEMMA ToldAppendHolds ==
  ASSUME NEW s \in Seq(Reports), NEW e \in Reports, NEW types, NEW ref
  PROVE  Told(Append(s, e), types, ref) =
           Told(s, types, ref) + (IF e.type \in types /\ e.ref = ref THEN e.qty ELSE 0)
  <1> DEFINE t == Append(s, e)
             n == Len(s) + 1
             C == Counted(s, types, ref)
             D == Counted(t, types, ref)
             f == Shares(s, types, ref)
             g == Shares(t, types, ref)
  <1>1. t \in Seq(Reports) /\ DOMAIN t = 1 .. n /\ DOMAIN s = 1 .. n - 1 /\ n \in Nat
        /\ t[n] = e /\ \A i \in 1 .. n - 1 : t[i] = s[i]
    BY SeqAppend, SeqLen
  <1>2. /\ Told(s, types, ref) = Total(f) /\ DOMAIN f = C /\ C \subseteq 1 .. n - 1
        /\ \A i \in C : f[i] = s[i].qty
        /\ Told(s, types, ref) \in Nat
    BY SharesType
  <1>3. /\ Told(t, types, ref) = Total(g) /\ DOMAIN g = D
        /\ IsFiniteSet(D) /\ \A i \in D : g[i] = t[i].qty /\ t[i].qty \in Nat
    BY <1>1, SharesType, Zenon
  <1>4. CASE e.type \in types /\ e.ref = ref
    <2>1. D = C \cup {n} /\ n \notin C
      BY <1>1, <1>4 DEF Counted
    <2>2. Drop(g, n) = f
      <3>1. DOMAIN Drop(g, n) = C /\ \A i \in C : Drop(g, n)[i] = f[i]
        <4> HIDE DEF t, n, C, D, f, g
        <4>1. \A i \in C : t[i] = s[i]
          BY <1>1, <1>2
        <4> QED BY <1>2, <1>3, <2>1, <4>1 DEF Drop
      <3> QED BY <3>1, <1>2 DEF Drop, Shares
    <2>3. Total(g) = Total(Drop(g, n)) + g[n]
      <3> HIDE DEF t, n, C, D, f, g
      <3> QED BY <1>3, <2>1, TotalDrop
    <2>4. g[n] = e.qty
      BY <1>1, <1>3, <2>1
    <2> QED BY <1>2, <1>3, <1>4, <2>2, <2>3, <2>4
  <1>5. CASE ~(e.type \in types /\ e.ref = ref)
    <2>1. D = C
      BY <1>1, <1>5 DEF Counted
    <2>2. g = f
      BY <1>1, <1>2, <2>1 DEF Shares
    <2> QED BY <1>2, <1>3, <1>5, <2>2
  <1> QED BY <1>4, <1>5

\* The first report taken off.
LEMMA ToldTailHolds ==
  ASSUME NEW s \in Seq(Reports), s # << >>, NEW types, NEW ref
  PROVE  Told(s, types, ref) =
           Told(Tail(s), types, ref) + (IF Head(s).type \in types /\ Head(s).ref = ref THEN Head(s).qty ELSE 0)
  <1> DEFINE t == Tail(s)
             C == Counted(s, types, ref)
             D == Counted(t, types, ref)
             f == Shares(s, types, ref)
             g == Shares(t, types, ref)
             h == IF 1 \in C THEN Drop(f, 1) ELSE f
  <1>1. t \in Seq(Reports) /\ Len(s) \in Nat \ {0} /\ DOMAIN s = 1 .. Len(s) /\ DOMAIN t = 1 .. Len(s) - 1
        /\ \A i \in 1 .. Len(s) - 1 : t[i] = s[i + 1]
    BY SeqTail, SeqLen, SeqEmpty
  <1>0. Head(s) = s[1]
    OBVIOUS
  <1>2. /\ Told(s, types, ref) = Total(f) /\ DOMAIN f = C /\ C \subseteq 1 .. Len(s)
        /\ IsFiniteSet(C) /\ \A i \in C : f[i] = s[i].qty /\ s[i].qty \in Nat
        /\ Told(s, types, ref) \in Nat
    BY SharesType
  <1>3. /\ Told(t, types, ref) = Total(g) /\ DOMAIN g = D /\ \A i \in D : g[i] = t[i].qty
        /\ Told(t, types, ref) \in Nat
    <2>1. t \in Seq(Reports)
      BY <1>1
    <2> HIDE DEF t
    <2> QED BY <2>1, SharesType
  <1>4. D = {i - 1 : i \in C \ {1}}
    <2>1. ASSUME NEW i \in D PROVE i + 1 \in C \ {1} /\ i = (i + 1) - 1
      BY <1>1 DEF Counted
    <2>2. ASSUME NEW i \in C \ {1} PROVE i - 1 \in D
      BY <1>1 DEF Counted
    <2> HIDE DEF t, C, D
    <2> QED BY <2>1, <2>2
  <1>5. DOMAIN h = C \ {1} /\ (\A i \in C \ {1} : h[i] = f[i]) /\ IsFiniteSet(C \ {1})
    BY <1>2, FS_RemoveElement DEF Drop
  <1>6. \A i \in C \ {1} : g[i - 1] = h[i]
    <2> SUFFICES ASSUME NEW i \in C \ {1} PROVE g[i - 1] = h[i]
      OBVIOUS
    <2>1. i - 1 \in D /\ i - 1 \in 1 .. Len(s) - 1
      BY <1>1, <1>2, <1>4
    <2>2. t[i - 1] = s[i]
      BY <1>1, <1>2, <2>1
    <2> HIDE DEF t, C, D, f, g, h
    <2> QED BY <1>2, <1>3, <1>5, <2>1, <2>2
  <1>7. Total(g) = Total(h)
    <2> HIDE DEF t, C, D, f, g, h
    <2>1. DOMAIN h \subseteq Int /\ \A i \in DOMAIN h : h[i] \in Nat
      BY <1>2, <1>5
    <2> QED BY <1>3, <1>4, <1>5, <1>6, <2>1, TotalShift
  <1>8. 1 \in C <=> (Head(s).type \in types /\ Head(s).ref = ref)
    BY <1>0, <1>1 DEF Counted
  <1>9. CASE 1 \in C
    <2>1. Total(f) = Total(Drop(f, 1)) + f[1]
      <3> HIDE DEF t, C, D, f, g, h
      <3> QED BY <1>2, <1>9, TotalDrop
    <2>2. h = Drop(f, 1) /\ f[1] = Head(s).qty
      BY <1>0, <1>2, <1>9
    <2> HIDE DEF t, C, D, f, g, h
    <2> QED BY <1>2, <1>3, <1>7, <1>8, <1>9, <2>1, <2>2 DEF t
  <1>10. CASE 1 \notin C
    <2>1. h = f
      BY <1>10
    <2> HIDE DEF t, C, D, f, g, h
    <2> QED BY <1>2, <1>3, <1>7, <1>8, <1>10, <2>1 DEF t
  <1> QED BY <1>9, <1>10

\* A single report is part of the sum.
LEMMA ToldAtLeastHolds ==
  ASSUME NEW s \in Seq(Reports), NEW types, NEW i \in DOMAIN s, s[i].type \in types
  PROVE  s[i].qty <= Told(s, types, s[i].ref)
  <1> DEFINE f == Shares(s, types, s[i].ref)
             C == Counted(s, types, s[i].ref)
  <1>1. i \in C
    BY DEF Counted
  <1>2. /\ Told(s, types, s[i].ref) = Total(f) /\ DOMAIN f = C /\ IsFiniteSet(C)
        /\ \A j \in C : f[j] = s[j].qty /\ s[j].qty \in Nat
    BY SharesType
  <1> HIDE DEF f, C
  <1>3. Total(f) = Total(Drop(f, i)) + f[i]
    BY <1>1, <1>2, TotalDrop
  <1>4. DOMAIN Drop(f, i) = C \ {i} /\ (\A j \in C \ {i} : Drop(f, i)[j] = f[j]) /\ IsFiniteSet(C \ {i})
    BY <1>2, FS_RemoveElement, Zenon DEF Drop
  <1>5. Total(Drop(f, i)) \in Nat
    BY <1>2, <1>4, TotalType
  <1> QED BY <1>1, <1>2, <1>3, <1>5

\* Without reports about an order there is nothing to tell of it.
LEMMA ToldNothingHolds ==
  ASSUME NEW s \in Seq(Reports), NEW types, NEW ref, \A i \in DOMAIN s : s[i].ref # ref
  PROVE  Told(s, types, ref) = 0
  <1>1. Counted(s, types, ref) = {}
    BY DEF Counted
  <1>2. Units(Shares(s, types, ref)) = {}
    BY <1>1 DEF Shares, Units
  <1>3. Total(Shares(s, types, ref)) = 0
    BY <1>2, FS_EmptySet DEF Total
  <1> QED BY <1>3, SharesType
----------------------------------------------------------------------------
(* The sums over the orders of a side.                                      *)

\* They are naturals.
LEMMA SideTypeHolds ==
  ASSUME NEW os, IsFiniteSet(DOMAIN os), os \in [DOMAIN os -> Entries], NEW s
  PROVE  /\ OfSide(os, s) \subseteq DOMAIN os /\ IsFiniteSet(OfSide(os, s))
         /\ \A r \in OfSide(os, s) : os[r].leaves \in Nat
         /\ Leaves(os, s) \in Nat
         /\ \A rs \in Seq(Reports) : Untold(os, rs, s) \in Nat
  <1>1. OfSide(os, s) \in SUBSET DOMAIN os
    BY DEF OfSide
  <1>2. IsFiniteSet(OfSide(os, s))
    BY <1>1, FS_Subset
  <1>3. \A r \in OfSide(os, s) : os[r].leaves \in Nat
    BY <1>1 DEF Entries
  <1>4. Leaves(os, s) \in Nat
    <2> DEFINE f == [r \in OfSide(os, s) |-> os[r].leaves]
    <2>1. DOMAIN f = OfSide(os, s) /\ \A r \in DOMAIN f : f[r] \in Nat
      BY <1>3
    <2> HIDE DEF f
    <2>2. Total(f) \in Nat
      BY <1>2, <2>1, TotalType
    <2> QED BY <2>2 DEF Leaves, f
  <1>5. ASSUME NEW rs \in Seq(Reports) PROVE Untold(os, rs, s) \in Nat
    <2> DEFINE f == [r \in OfSide(os, s) |-> Told(rs, {"E"}, r)]
    <2>1. DOMAIN f = OfSide(os, s) /\ \A r \in DOMAIN f : f[r] \in Nat
      BY SharesType
    <2> HIDE DEF f
    <2>2. Total(f) \in Nat
      BY <1>2, <2>1, TotalType
    <2> QED BY <2>2 DEF Untold, f
  <1> QED BY <1>1, <1>2, <1>3, <1>4, <1>5

\* One order taken out of the table.
LEMMA SideDropHolds ==
  ASSUME NEW os, IsFiniteSet(DOMAIN os), os \in [DOMAIN os -> Entries], NEW s, NEW k \in DOMAIN os,
         NEW rs \in Seq(Reports)
  PROVE  /\ Leaves(os, s) = Leaves(Drop(os, k), s) + (IF os[k].side = s THEN os[k].leaves ELSE 0)
         /\ Untold(os, rs, s) = Untold(Drop(os, k), rs, s)
                                 + (IF os[k].side = s THEN Told(rs, {"E"}, k) ELSE 0)
  <1> DEFINE f == [r \in OfSide(os, s) |-> os[r].leaves]
             g == [r \in OfSide(os, s) |-> Told(rs, {"E"}, r)]
             D == Drop(os, k)
             fd == [r \in OfSide(D, s) |-> D[r].leaves]
             gd == [r \in OfSide(D, s) |-> Told(rs, {"E"}, r)]
  <1>0. OfSide(D, s) = OfSide(os, s) \ {k} /\ (\A r \in OfSide(D, s) : D[r] = os[r])
        /\ (k \in OfSide(os, s) <=> os[k].side = s)
    BY DEF OfSide, Drop
  <1>1. /\ IsFiniteSet(OfSide(os, s)) /\ \A r \in OfSide(os, s) : os[r].leaves \in Nat
        /\ Leaves(os, s) \in Nat /\ Untold(os, rs, s) \in Nat
    BY SideTypeHolds
  <1>2. /\ Leaves(os, s) = Total(f) /\ Leaves(D, s) = Total(fd)
        /\ Untold(os, rs, s) = Total(g) /\ Untold(D, rs, s) = Total(gd)
    BY DEF Leaves, Untold
  <1>3. DOMAIN f = OfSide(os, s) /\ DOMAIN g = OfSide(os, s)
    OBVIOUS
  <1>4. (\A r \in DOMAIN f : f[r] \in Nat) /\ (\A r \in DOMAIN g : g[r] \in Nat)
    BY <1>1, SharesType
  <1>5. CASE os[k].side = s
    <2>1. Drop(f, k) = fd /\ Drop(g, k) = gd
      BY <1>0, <1>3, Zenon DEF Drop
    <2>2. f[k] = os[k].leaves /\ g[k] = Told(rs, {"E"}, k) /\ k \in OfSide(os, s)
      BY <1>0, <1>5
    <2> HIDE DEF f, g, fd, gd
    <2>3. Total(f) = Total(Drop(f, k)) + f[k] /\ Total(g) = Total(Drop(g, k)) + g[k]
      BY <1>1, <1>3, <1>4, <2>2, TotalDrop
    <2> QED BY <1>2, <1>5, <2>1, <2>2, <2>3
  <1>6. CASE os[k].side # s
    <2>1. f = fd /\ g = gd
      BY <1>0, <1>6
    <2> HIDE DEF f, g, fd, gd
    <2> QED BY <1>1, <1>2, <1>6, <2>1
  <1> QED BY <1>5, <1>6

\* One order more, about which nothing has been reported.
LEMMA SidePutHolds ==
  ASSUME NEW os, IsFiniteSet(DOMAIN os), os \in [DOMAIN os -> Entries], NEW s,
         NEW k, k \notin DOMAIN os, NEW o \in Entries,
         NEW rs \in Seq(Reports), Told(rs, {"E"}, k) = 0
  PROVE  /\ Leaves(Put(os, k, o), s) = Leaves(os, s) + (IF o.side = s THEN o.leaves ELSE 0)
         /\ Untold(Put(os, k, o), rs, s) = Untold(os, rs, s)
  <1> DEFINE P == Put(os, k, o)
  <1>1. DOMAIN P = DOMAIN os \cup {k} /\ P \in [DOMAIN P -> Entries] /\ P[k] = o
    BY DEF Put
  <1>2. Drop(P, k) = os
    BY Zenon DEF Drop, Put
  <1>3. IsFiniteSet(DOMAIN P)
    BY <1>1, FS_AddElement
  <1>4. Leaves(os, s) \in Nat /\ Untold(os, rs, s) \in Nat
    BY SideTypeHolds, Zenon
  <1> HIDE DEF P
  <1>5. /\ Leaves(P, s) = Leaves(Drop(P, k), s) + (IF P[k].side = s THEN P[k].leaves ELSE 0)
        /\ Untold(P, rs, s) = Untold(Drop(P, k), rs, s) + (IF P[k].side = s THEN Told(rs, {"E"}, k) ELSE 0)
    <2>1. k \in DOMAIN P /\ P \in [DOMAIN P -> Entries]
      BY <1>1
    <2> QED BY <1>3, <2>1, SideDropHolds
  <1>6. Leaves(P, s) = Leaves(os, s) + (IF o.side = s THEN o.leaves ELSE 0) /\ Untold(P, rs, s) = Untold(os, rs, s)
    BY <1>1, <1>2, <1>4, <1>5
  <1> QED BY <1>6 DEF P

\* What is left of one order changes.
LEMMA SideSetHolds ==
  ASSUME NEW os, IsFiniteSet(DOMAIN os), os \in [DOMAIN os -> Entries], NEW s, NEW k \in DOMAIN os,
         NEW n \in Nat, NEW rs \in Seq(Reports), NEW new, Resized(new, os, k, n)
  PROVE  /\ Leaves(new, s) = Leaves(os, s) + (IF os[k].side = s THEN n - os[k].leaves ELSE 0)
         /\ Untold(new, rs, s) = Untold(os, rs, s)
  <1>1. DOMAIN new = DOMAIN os /\ (\A r \in DOMAIN os \ {k} : new[r] = os[r]) /\ new \in [DOMAIN os -> Entries]
    BY DEF Resized
  <1>2. new[k].leaves = n /\ new[k].side = os[k].side /\ os[k].leaves \in Nat
    BY DEF Entries, Resized
  <1>3. new \in [DOMAIN new -> Entries] /\ IsFiniteSet(DOMAIN new)
    BY <1>1
  <1>4. Drop(new, k) = Drop(os, k)
    BY <1>1 DEF Drop
  <1>5. OfSide(new, s) = OfSide(os, s)
    <2>1. \A r \in DOMAIN os : new[r].side = os[r].side
      BY <1>1, <1>2
    <2> QED BY <1>1, <2>1 DEF OfSide
  <1>6. Untold(new, rs, s) = Untold(os, rs, s)
    BY <1>5 DEF Untold
  <1>7. Leaves(os, s) \in Nat /\ Leaves(new, s) \in Nat
    BY <1>1, <1>3, SideTypeHolds
  <1>8. Leaves(new, s) = Leaves(Drop(new, k), s) + (IF new[k].side = s THEN new[k].leaves ELSE 0)
    <2>1. k \in DOMAIN new
      BY <1>1
    <2> QED BY <1>3, <2>1, SideDropHolds
  <1>9. Leaves(os, s) = Leaves(Drop(os, k), s) + (IF os[k].side = s THEN os[k].leaves ELSE 0)
    BY SideDropHolds
  <1>10. IsFiniteSet(DOMAIN os \ {k})
    BY FS_RemoveElement
  <1>11. Leaves(Drop(os, k), s) \in Nat
    <2>1. DOMAIN Drop(os, k) = DOMAIN os \ {k} /\ Drop(os, k) \in [DOMAIN Drop(os, k) -> Entries]
      BY DEF Drop
    <2> QED BY <1>10, <2>1, SideTypeHolds
  <1>12. Leaves(new, s) = Leaves(os, s) + (IF os[k].side = s THEN n - os[k].leaves ELSE 0)
    BY <1>2, <1>4, <1>8, <1>9, <1>11
  <1> QED BY <1>6, <1>12

\* The reports about one order change.
LEMMA SideReports ==
  ASSUME NEW os, IsFiniteSet(DOMAIN os), os \in [DOMAIN os -> Entries], NEW s, NEW k \in DOMAIN os,
         NEW rs \in Seq(Reports), NEW ts \in Seq(Reports),
         \A r \in DOMAIN os : r # k => Told(ts, {"E"}, r) = Told(rs, {"E"}, r)
  PROVE  Untold(os, ts, s) = Untold(os, rs, s)
            + (IF os[k].side = s THEN Told(ts, {"E"}, k) - Told(rs, {"E"}, k) ELSE 0)
  <1> DEFINE f == [r \in OfSide(os, s) |-> Told(rs, {"E"}, r)]
             g == [r \in OfSide(os, s) |-> Told(ts, {"E"}, r)]
  <1>1. /\ IsFiniteSet(OfSide(os, s)) /\ Untold(os, rs, s) \in Nat /\ OfSide(os, s) \subseteq DOMAIN os
    BY SideTypeHolds
  <1>2. \A r : Told(rs, {"E"}, r) \in Nat /\ Told(ts, {"E"}, r) \in Nat
    BY ToldTypeHolds
  <1>3. Untold(os, rs, s) = Total(f) /\ Untold(os, ts, s) = Total(g)
    BY DEF Untold
  <1>4. CASE os[k].side = s
    <2>1. k \in OfSide(os, s)
      BY <1>4 DEF OfSide
    <2>2. f[k] = Told(rs, {"E"}, k) /\ g[k] = Told(ts, {"E"}, k)
      BY <2>1
    <2>3. DOMAIN f = OfSide(os, s) /\ DOMAIN g = OfSide(os, s)
          /\ (\A r \in OfSide(os, s) : f[r] \in Nat /\ g[r] \in Nat)
          /\ (\A r \in OfSide(os, s) \ {k} : g[r] = f[r])
      BY <1>1, <1>2
    <2> HIDE DEF f, g
    <2>4. Total(g) = Total(f) - f[k] + g[k]
      BY <1>1, <2>1, <2>3, TotalChange
    <2> QED BY <1>1, <1>2, <1>3, <1>4, <2>2, <2>4
  <1>5. CASE os[k].side # s
    <2>1. f = g
      BY <1>5 DEF OfSide
    <2> QED BY <1>1, <1>3, <1>5, <2>1
  <1> QED BY <1>4, <1>5

\* A report more, about an order of the table.
LEMMA UntoldAppendHolds ==
  ASSUME NEW os, IsFiniteSet(DOMAIN os), os \in [DOMAIN os -> Entries], NEW s,
         NEW rs \in Seq(Reports), NEW e \in Reports, e.ref \in DOMAIN os
  PROVE  Untold(os, Append(rs, e), s) = Untold(os, rs, s)
            + (IF e.type = "E" /\ os[e.ref].side = s THEN e.qty ELSE 0)
  <1> DEFINE ts == Append(rs, e)
             k == e.ref
  <1>1. ts \in Seq(Reports) /\ k \in DOMAIN os
    BY SeqAppend
  <1>2. \A r : Told(ts, {"E"}, r) = Told(rs, {"E"}, r) + (IF e.type \in {"E"} /\ e.ref = r THEN e.qty ELSE 0)
    BY ToldAppendHolds
  <1>3. \A r : Told(rs, {"E"}, r) \in Nat
    BY ToldTypeHolds
  <1>4. (\A r \in DOMAIN os : r # k => Told(ts, {"E"}, r) = Told(rs, {"E"}, r))
        /\ Told(ts, {"E"}, k) - Told(rs, {"E"}, k) = IF e.type = "E" THEN e.qty ELSE 0
    <2> HIDE DEF ts
    <2>1. e.qty \in Nat
      BY DEF Reports
    <2> QED BY <1>2, <1>3, <2>1
  <1> HIDE DEF ts, k
  <1>5. Untold(os, ts, s) = Untold(os, rs, s)
            + (IF os[k].side = s THEN Told(ts, {"E"}, k) - Told(rs, {"E"}, k) ELSE 0)
    BY <1>1, <1>4, SideReports
  <1>6. Untold(os, rs, s) \in Nat
    BY SideTypeHolds
  <1>7. Untold(os, ts, s) = Untold(os, rs, s) + (IF e.type = "E" /\ os[k].side = s THEN e.qty ELSE 0)
    BY <1>4, <1>5, <1>6
  <1> QED BY <1>7 DEF ts, k

\* The first report read, when it is about an order of the table.
LEMMA UntoldTailHolds ==
  ASSUME NEW os, IsFiniteSet(DOMAIN os), os \in [DOMAIN os -> Entries], NEW s,
         NEW rs \in Seq(Reports), rs # << >>, Head(rs).ref \in DOMAIN os
  PROVE  Untold(os, rs, s) = Untold(os, Tail(rs), s)
            + (IF Head(rs).type = "E" /\ os[Head(rs).ref].side = s THEN Head(rs).qty ELSE 0)
  <1> DEFINE ts == Tail(rs)
             e == Head(rs)
             k == e.ref
  <1>1. ts \in Seq(Reports) /\ k \in DOMAIN os /\ e \in Reports
    BY SeqTail
  <1>2. \A r : Told(rs, {"E"}, r) = Told(ts, {"E"}, r) + (IF e.type \in {"E"} /\ e.ref = r THEN e.qty ELSE 0)
    BY ToldTailHolds
  <1>3. \A r : Told(ts, {"E"}, r) \in Nat
    BY <1>1, ToldTypeHolds, Zenon
  <1>4. (\A r \in DOMAIN os : r # k => Told(rs, {"E"}, r) = Told(ts, {"E"}, r))
        /\ Told(rs, {"E"}, k) - Told(ts, {"E"}, k) = IF e.type = "E" THEN e.qty ELSE 0
    <2> HIDE DEF ts, e
    <2>1. e.qty \in Nat
      BY <1>1 DEF Reports
    <2> QED BY <1>2, <1>3, <2>1
  <1> HIDE DEF ts, k, e
  <1>5. Untold(os, rs, s) = Untold(os, ts, s)
            + (IF os[k].side = s THEN Told(rs, {"E"}, k) - Told(ts, {"E"}, k) ELSE 0)
    BY <1>1, <1>4, SideReports
  <1>6. Untold(os, ts, s) \in Nat
    BY <1>1, SideTypeHolds, Zenon
  <1>7. Untold(os, rs, s) = Untold(os, ts, s) + (IF e.type = "E" /\ os[k].side = s THEN e.qty ELSE 0)
    BY <1>4, <1>5, <1>6
  <1> QED BY <1>7 DEF ts, k, e

\* Executed shares are a part of the executed and cancelled ones.
LEMMA ToldPart ==
  ASSUME NEW rs \in Seq(Reports), NEW r
  PROVE  Told(rs, {"E"}, r) <= Told(rs, {"E", "C"}, r)
  <1> DEFINE f == Shares(rs, {"E"}, r)
             g == Shares(rs, {"E", "C"}, r)
  <1>1. Units(f) \in SUBSET Units(g)
    BY Zenon DEF Units, Shares, Counted
  <1>2. Told(rs, {"E"}, r) = Total(f) /\ Told(rs, {"E", "C"}, r) = Total(g)
    BY SharesType
  <1>3. IsFiniteSet(DOMAIN g) /\ \A i \in DOMAIN g : g[i] \in Nat
    BY SharesType
  <1>4. IsFiniteSet(Units(g))
    <2> HIDE DEF g
    <2> QED BY <1>3, TotalType
  <1> QED BY <1>1, <1>2, <1>4, FS_Subset DEF Total

\* What has not been told of a side's orders is at most what is left of them.
LEMMA UntoldBoundHolds ==
  ASSUME NEW os, IsFiniteSet(DOMAIN os), os \in [DOMAIN os -> Entries], NEW s,
         NEW rs \in Seq(Reports), \A r \in DOMAIN os : Told(rs, {"E", "C"}, r) <= os[r].leaves
  PROVE  Untold(os, rs, s) <= Leaves(os, s)
  <1> DEFINE f == [r \in OfSide(os, s) |-> Told(rs, {"E"}, r)]
             g == [r \in OfSide(os, s) |-> os[r].leaves]
  <1>1. /\ IsFiniteSet(OfSide(os, s)) /\ OfSide(os, s) \subseteq DOMAIN os
        /\ \A r \in OfSide(os, s) : os[r].leaves \in Nat
    BY SideTypeHolds
  <1>2. ASSUME NEW r \in OfSide(os, s)
        PROVE  Told(rs, {"E"}, r) \in Nat /\ Told(rs, {"E"}, r) <= os[r].leaves
    <2>1. Told(rs, {"E"}, r) \in Nat /\ Told(rs, {"E", "C"}, r) \in Nat
      BY SharesType
    <2> QED BY <1>1, <2>1, ToldPart
  <1>3. DOMAIN f = OfSide(os, s) /\ DOMAIN g = OfSide(os, s)
        /\ \A r \in OfSide(os, s) : f[r] \in Nat /\ g[r] \in Nat /\ f[r] <= g[r]
    BY <1>1, <1>2
  <1> HIDE DEF f, g
  <1>4. Total(f) <= Total(g)
    BY <1>1, <1>3, TotalMono
  <1> QED BY <1>4 DEF Untold, Leaves, f, g
----------------------------------------------------------------------------
(* The laws of module TraderSteps.                                          *)

\* Nothing sums to nothing.
LEMMA TotalEmpty == ASSUME NEW f, DOMAIN f = {} PROVE Total(f) = 0
  <1>1. Units(f) = {}
    BY DEF Units
  <1> QED BY <1>1, FS_EmptySet DEF Total

\* Those of finite sets,
LEMMA FiniteLawsHold == FiniteLaws
  <1>1. \A n \in Int : IsFiniteSet(1 .. n)
    BY FS_Interval
  <1>2. \A S, T : IsFiniteSet(S) /\ T \subseteq S => IsFiniteSet(T)
    <2> TAKE S, T
    <2> HAVE IsFiniteSet(S) /\ T \subseteq S
    <2>1. T \in SUBSET S
      OBVIOUS
    <2> QED BY <2>1, FS_Subset
  <1>3. Cardinality({}) = 0
    BY FS_EmptySet
  <1>4. ASSUME NEW S, IsFiniteSet(S)
        PROVE  /\ Cardinality(S) \in Nat
               /\ \E f \in [1 .. Cardinality(S) -> S] : \A i, j \in DOMAIN f : f[i] = f[j] => i = j
    <2>1. Cardinality(S) \in Nat /\ ExistsBijection(1 .. Cardinality(S), S)
      BY <1>4, FS_CardinalityType
    <2>2. PICK f \in [1 .. Cardinality(S) -> S] : \A i, j \in 1 .. Cardinality(S) : f[i] = f[j] => i = j
      BY <2>1 DEF ExistsBijection, Bijection, Injection, IsInjective
    <2> QED BY <2>1, <2>2
  <1>5. ASSUME NEW S, IsFiniteSet(S), NEW x, x \notin S
        PROVE  IsFiniteSet(S \cup {x}) /\ Cardinality(S \cup {x}) = Cardinality(S) + 1
    BY <1>5, FS_AddElement
  <1>6. ASSUME NEW S, IsFiniteSet(S), NEW x \in S
        PROVE  Cardinality(S) # 0 /\ Cardinality(S \ {x}) = Cardinality(S) - 1
    <2>1. Cardinality(S) = 0 <=> S = {}
      BY <1>6, FS_EmptySet
    <2>2. Cardinality(S \ {x}) = Cardinality(S) - 1
      BY <1>6, FS_RemoveElement
    <2> QED BY <2>1, <2>2
  <1>7. \A S : IsFiniteSet(S) =>
          /\ Cardinality(S) \in Nat
          /\ \E f \in [1 .. Cardinality(S) -> S] : \A i, j \in DOMAIN f : f[i] = f[j] => i = j
          /\ \A x : x \notin S => IsFiniteSet(S \cup {x}) /\ Cardinality(S \cup {x}) = Cardinality(S) + 1
          /\ \A x \in S : Cardinality(S) # 0 /\ Cardinality(S \ {x}) = Cardinality(S) - 1
    BY <1>4, <1>5, <1>6, Zenon
  <1> QED BY <1>1, <1>2, <1>3, <1>7, Zenon DEF FiniteLaws

\* of the reports,
LEMMA ToldLawsHold == ToldLaws
  <1> SUFFICES ASSUME NEW s \in Seq(Reports), NEW types, NEW ref
               PROVE  /\ Told(s, types, ref) \in Nat
                      /\ (\A i \in DOMAIN s : s[i].ref # ref) => Told(s, types, ref) = 0
                      /\ \A i \in DOMAIN s : s[i].type \in types /\ s[i].ref = ref => Told(s, types, ref) >= s[i].qty
                      /\ \A e \in Reports : Told(Append(s, e), types, ref) =
                           Told(s, types, ref) + (IF e.type \in types /\ e.ref = ref THEN e.qty ELSE 0)
                      /\ s # << >> => Told(s, types, ref) =
                           Told(Tail(s), types, ref)
                             + (IF Head(s).type \in types /\ Head(s).ref = ref THEN Head(s).qty ELSE 0)
    BY Zenon DEF ToldLaws
  <1>1. Told(s, types, ref) \in Nat
    BY ToldTypeHolds
  <1>2. (\A i \in DOMAIN s : s[i].ref # ref) => Told(s, types, ref) = 0
    BY ToldNothingHolds
  <1>3. ASSUME NEW i \in DOMAIN s, s[i].type \in types, s[i].ref = ref PROVE Told(s, types, ref) >= s[i].qty
    <2>1. s[i].qty <= Told(s, types, s[i].ref)
      BY <1>3, ToldAtLeastHolds
    <2>2. s[i] \in Reports
      BY SeqLen
    <2> QED BY <1>1, <1>3, <2>1, <2>2 DEF Reports
  <1>4. \A e \in Reports : Told(Append(s, e), types, ref) =
          Told(s, types, ref) + (IF e.type \in types /\ e.ref = ref THEN e.qty ELSE 0)
    BY ToldAppendHolds
  <1>5. s # << >> => Told(s, types, ref) =
          Told(Tail(s), types, ref) + (IF Head(s).type \in types /\ Head(s).ref = ref THEN Head(s).qty ELSE 0)
    BY ToldTailHolds
  <1> QED BY <1>1, <1>2, <1>3, <1>4, <1>5, Zenon

\* and of the table.
LEMMA TableLawsHold == TableLaws
  <1>1. ASSUME NEW os, NEW rs, NEW s, DOMAIN os = {} PROVE Leaves(os, s) = 0 /\ Untold(os, rs, s) = 0
    <2>1. OfSide(os, s) = {}
      BY <1>1 DEF OfSide
    <2>2. \A f : DOMAIN f = {} => Total(f) = 0
      BY TotalEmpty
    <2> DEFINE f == [r \in OfSide(os, s) |-> os[r].leaves]
               g == [r \in OfSide(os, s) |-> Told(rs, {"E"}, r)]
    <2>3. DOMAIN f = {} /\ DOMAIN g = {}
      BY <2>1
    <2> HIDE DEF f, g
    <2>4. Total(f) = 0 /\ Total(g) = 0
      BY <2>2, <2>3
    <2> QED BY <2>4 DEF Leaves, Untold, f, g
  <1>2. ASSUME NEW os, NEW s, NEW rs \in Seq(Reports), IsTable(os)
        PROVE  /\ Leaves(os, s) \in Nat /\ Untold(os, rs, s) \in Nat
               /\ (\A r \in DOMAIN os : Told(rs, {"E", "C"}, r) <= os[r].leaves) => Untold(os, rs, s) <= Leaves(os, s)
    <2>1. IsFiniteSet(DOMAIN os) /\ os \in [DOMAIN os -> Entries]
      BY <1>2 DEF IsTable
    <2>2. Leaves(os, s) \in Nat /\ Untold(os, rs, s) \in Nat
      BY <2>1, SideTypeHolds, Zenon
    <2>3. (\A r \in DOMAIN os : Told(rs, {"E", "C"}, r) <= os[r].leaves) => Untold(os, rs, s) <= Leaves(os, s)
      BY <2>1, UntoldBoundHolds, Zenon
    <2> QED BY <2>2, <2>3
  <1>3. ASSUME NEW os, NEW s, NEW rs \in Seq(Reports), IsTable(os), NEW k \in DOMAIN os
        PROVE  /\ Leaves(os, s) = Leaves(Drop(os, k), s) + (IF os[k].side = s THEN os[k].leaves ELSE 0)
               /\ Untold(os, rs, s) = Untold(Drop(os, k), rs, s) + (IF os[k].side = s THEN Told(rs, {"E"}, k) ELSE 0)
    <2>1. IsFiniteSet(DOMAIN os) /\ os \in [DOMAIN os -> Entries]
      BY <1>3 DEF IsTable
    <2> QED BY <2>1, SideDropHolds
  <1>4. ASSUME NEW os, NEW s, NEW rs \in Seq(Reports), IsTable(os), NEW k, NEW o,
               k \notin DOMAIN os /\ o \in Entries /\ Told(rs, {"E"}, k) = 0
        PROVE  /\ Leaves(Put(os, k, o), s) = Leaves(os, s) + (IF o.side = s THEN o.leaves ELSE 0)
               /\ Untold(Put(os, k, o), rs, s) = Untold(os, rs, s)
    <2>1. IsFiniteSet(DOMAIN os) /\ os \in [DOMAIN os -> Entries]
      BY <1>4 DEF IsTable
    <2> QED BY <1>4, <2>1, SidePutHolds
  <1>5. ASSUME NEW os, NEW s, NEW rs \in Seq(Reports), IsTable(os), NEW k \in DOMAIN os, NEW n \in Nat, NEW new,
               Resized(new, os, k, n)
        PROVE  /\ Leaves(new, s) = Leaves(os, s) + (IF os[k].side = s THEN n - os[k].leaves ELSE 0)
               /\ Untold(new, rs, s) = Untold(os, rs, s)
    <2>1. IsFiniteSet(DOMAIN os) /\ os \in [DOMAIN os -> Entries]
      BY <1>5 DEF IsTable
    <2>2. \A t : Resized(t, os, k, n) =>
            /\ Leaves(t, s) = Leaves(os, s) + (IF os[k].side = s THEN n - os[k].leaves ELSE 0)
            /\ Untold(t, rs, s) = Untold(os, rs, s)
      BY <2>1, SideSetHolds, Zenon
    <2> QED BY <1>5, <2>2
  <1>6. ASSUME NEW os, NEW s, NEW rs \in Seq(Reports), IsTable(os), NEW e \in Reports, e.ref \in DOMAIN os
        PROVE  Untold(os, Append(rs, e), s) = Untold(os, rs, s)
                 + (IF e.type = "E" /\ os[e.ref].side = s THEN e.qty ELSE 0)
    <2>1. IsFiniteSet(DOMAIN os) /\ os \in [DOMAIN os -> Entries]
      BY <1>6 DEF IsTable
    <2> QED BY <1>6, <2>1, UntoldAppendHolds, Zenon
  <1>7. ASSUME NEW os, NEW s, NEW rs \in Seq(Reports), IsTable(os), rs # << >> /\ Head(rs).ref \in DOMAIN os
        PROVE  Untold(os, rs, s) = Untold(os, Tail(rs), s)
                 + (IF Head(rs).type = "E" /\ os[Head(rs).ref].side = s THEN Head(rs).qty ELSE 0)
    <2>1. IsFiniteSet(DOMAIN os) /\ os \in [DOMAIN os -> Entries]
      BY <1>7 DEF IsTable
    <2> QED BY <1>7, <2>1, UntoldTailHolds, Zenon
  <1>8. ASSUME NEW os, NEW s, NEW rs \in Seq(Reports), IsTable(os)
        PROVE  TableLaw(os, s, rs)
    BY <1>2, <1>3, <1>4, <1>5, <1>6, <1>7, <1>8 DEF TableLaw
  <1>9. (\A os, s : DOMAIN os = {} => Leaves(os, s) = 0) /\ \A os, rs, s : DOMAIN os = {} => Untold(os, rs, s) = 0
    BY <1>1
  <1> QED BY <1>8, <1>9 DEF TableLaws

\* All of them.
LEMMA LawsHold == Laws
  BY FiniteLawsHold, ToldLawsHold, TableLawsHold DEF Laws
----------------------------------------------------------------------------
(* The theorems.                                                            *)

\* IInv is inductive.
THEOREM InvariantHolds == Spec => []IInv
  <1>1. Init => IInv
    BY LawsHold, InitIInv
  <1>2. IInv /\ [Next]_vars => IInv'
    BY LawsHold, NextIInv
  <1> QED BY <1>1, <1>2, PTL DEF Spec

\* The gate's counters are the order table's: as many open orders, and as many
\* shares on each side; no counter goes below zero.
THEOREM GateIsExact == Spec => []GateMatchesOrders
  <1>1. IInv => GateMatchesOrders
    BY DEF IInv, GateInv, TypeInv, Gates, GateMatchesOrders, TypeOK
  <1> QED BY <1>1, InvariantHolds, PTL

\* What the trader really holds at the exchange stays within the limit, whatever
\* fills late, is cancelled while it fills, or is lost with the connection.
THEOREM PositionStaysWithinLimit == Spec => []PositionLimit
  <1>1. IInv => PositionLimit
    <2> SUFFICES ASSUME IInv PROVE PositionLimit
      OBVIOUS
    <2>1. /\ risk.position \in Int /\ risk.open["Buy"] \in Nat /\ risk.open["Sell"] \in Nat /\ xpos \in Int
          /\ max_position \in Nat
      BY TraderAssumption, Zenon DEF IInv, TypeInv, Gates, Sides
    <2>2. /\ xpos <= risk.position + risk.open["Buy"] /\ xpos >= risk.position - risk.open["Sell"]
          /\ risk.position + risk.open["Buy"] <= max_position
          /\ risk.position - risk.open["Sell"] >= 0 - max_position
      BY DEF IInv, PositionInv
    <2> QED BY <2>1, <2>2 DEF PositionLimit
  <1> QED BY <1>1, InvariantHolds, PTL

\* No report is about an order the trader has forgotten, none is cut short, and the
\* reports on their way are the difference between the real position and the gate's.
THEOREM EveryReportFits == Spec => []ReportsFit
  <1>1. IInv => ReportsFit
    BY DEF IInv, ReportInv, FitInv, PositionInv, ReportsFit
  <1> QED BY <1>1, InvariantHolds, PTL

\* No window of a second holds more than max_orders_per_sec orders.
THEOREM RateStaysWithinLimit == Spec => []RateLimit
  <1>1. IInv => RateLimit
    BY DEF IInv
  <1> QED BY <1>1, InvariantHolds, PTL
============================================================================
