----------------------------- MODULE FlatIdMap -----------------------------
(***************************************************************************)
(* The open-addressing table from order ids to pool indices                *)
(* (include/flat_id_map.hpp): linear probing and backward-shift deletion.  *)
(* A table is [slots, size]; a slot is [key, val], and key 0 marks an empty *)
(* one.  The value an empty slot keeps is never read and is modelled as 0. *)
(* The multiplicative hash is any function home from keys to slots.        *)
(***************************************************************************)
EXTENDS Integers, Sequences

CONSTANT MaxEntries      \* max_entries_

LOCAL FX == INSTANCE FiniteSetsExt
LOCAL SX == INSTANCE SequencesExt

\* The constructor: at least 16 slots, doubled until half of them suffice.
SlotCount == FX!Min({n \in {16 * 2^k : k \in 0 .. MaxEntries} : n >= 2 * MaxEntries})
Slots == 0 .. SlotCount - 1

EmptySlot == [key |-> 0, val |-> 0]
EmptyMap == [slots |-> [i \in Slots |-> EmptySlot], size |-> 0]

\* (i + k) & mask_ and (b - a) & mask_.
Past(i, k) == (i + k) % SlotCount
Distance(a, b) == (b - a) % SlotCount

\* The slot where a probe for the key ends: its own, or the first empty one.
Probe(m, home, key) ==
  Past(home[key], FX!Min({k \in Slots : m.slots[Past(home[key], k)].key \in {key, 0}}))

\* insert
CanInsert(m, home, key) ==
  key # 0 /\ m.size < MaxEntries /\ m.slots[Probe(m, home, key)].key = 0

Insert(m, home, key, value) ==
  [slots |-> [m.slots EXCEPT ![Probe(m, home, key)] = [key |-> key, val |-> value]],
   size |-> m.size + 1]

\* find
Has(m, home, key) == key # 0 /\ m.slots[Probe(m, home, key)].key = key
ValueOf(m, home, key) == m.slots[Probe(m, home, key)].val

\* Faulty variant: an entry that lies exactly at the hole's distance stays.
FillsHoleStrict(h, hole, j) == Distance(h, j) > Distance(hole, j)

\* The entry of slot j, whose home is h, has to move back into the hole.
FillsHole(h, hole, j) == Distance(h, j) >= Distance(hole, j)

\* erase: the rest of the cluster, slot by slot, up to the next empty one.
Erase(m, home, key) ==
  LET i == Probe(m, home, key)
      cluster == FX!Min({k \in Slots \ {0} : m.slots[Past(i, k)].key = 0}) - 1
      shift(t, k) ==
        LET j == Past(i, k)
        IN  IF FillsHole(home[t.slots[j].key], t.hole, j)
              THEN [slots |-> [t.slots EXCEPT ![t.hole] = t.slots[j]], hole |-> j]
              ELSE t
      t == SX!FoldLeft(shift, [slots |-> m.slots, hole |-> i], [k \in 1 .. cluster |-> k])
  IN  [slots |-> [t.slots EXCEPT ![t.hole] = EmptySlot], size |-> m.size - 1]

\* for_each
Entries(m) == {m.slots[i] : i \in {j \in Slots : m.slots[j].key # 0}}
============================================================================
