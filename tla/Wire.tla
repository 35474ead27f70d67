-------------------------------- MODULE Wire --------------------------------
(***************************************************************************)
(* Fixed-width fields (include/wire.hpp, put_numeric20 in                  *)
(* include/soupbin.hpp).  A byte is a number of 0 .. 255, a message is a   *)
(* function from field names to values, a layout the sequence of its       *)
(* fields: what Writer puts, or what Reader takes, one after the other.    *)
(***************************************************************************)
EXTENDS Integers, Sequences

LOCAL SX == INSTANCE SequencesExt
LOCAL FX == INSTANCE FiniteSetsExt

Space == 32
Field(name, kind, width) == [name |-> name, kind |-> kind, width |-> width]
\* Bytes the writer always puts, and the reader skips.
Filler(bytes) == [name |-> "", kind |-> "fill", width |-> Len(bytes), bytes |-> bytes]
Skip(width) == [name |-> "", kind |-> "fill", width |-> width]

\* put_u16 .. put_u64, and i64 in two's complement: the last byte first.
PutInt(v, width) ==
  LET shifted[k \in 0 .. width] == IF k = 0 THEN v ELSE shifted[k - 1] \div 256
  IN  [k \in 1 .. width |-> shifted[width - k] % 256]

\* get_u16 .. get_u64, from 0; a negative i64 from -1.
GetInt(b, from) ==
  LET acc[k \in 0 .. Len(b)] == IF k = 0 THEN from ELSE acc[k - 1] * 256 + b[k]
  IN  acc[Len(b)]

\* put_alpha and get_alpha: text on the left, spaces on the right.
PutAlpha(s, width) == [k \in 1 .. width |-> IF k <= Len(s) THEN s[k] ELSE Space]
GetAlpha(b) ==
  LET used == {k \in DOMAIN b : b[k] # Space}
  IN  IF used = {} THEN << >> ELSE SubSeq(b, 1, FX!Max(used))

\* put_numeric20 and get_numeric20: decimal digits on the right, spaces on the
\* left; a blank field is 0.
PutNumeric(v, width) ==
  LET rest[k \in 0 .. width] == IF k = 0 THEN v ELSE rest[k - 1] \div 10
  IN  [k \in 1 .. width |->
        IF rest[width - k] = 0 /\ k < width THEN Space ELSE 48 + (rest[width - k] % 10)]
IsDigit(c) == c \in 48 .. 57
IsNumeric(b) ==
  \E n \in 0 .. Len(b) : \A k \in DOMAIN b : IF k <= n THEN b[k] = Space ELSE IsDigit(b[k])
GetNumeric(b) ==
  LET acc[k \in 0 .. Len(b)] ==
        IF k = 0 THEN 0 ELSE IF b[k] = Space THEN acc[k - 1] ELSE acc[k - 1] * 10 + (b[k] - 48)
  IN  acc[Len(b)]

PutField(f, m) ==
  CASE f.kind \in {"u", "i"} -> PutInt(m[f.name], f.width)
    [] f.kind = "bytes" -> m[f.name]
    [] f.kind = "alpha" -> PutAlpha(m[f.name], f.width)
    [] f.kind \in {"num", "seq"} -> PutNumeric(m[f.name], f.width)
    [] f.kind = "fill" -> f.bytes

GetField(f, b) ==
  CASE f.kind = "u" -> GetInt(b, 0)
    [] f.kind = "i" -> GetInt(b, IF b[1] >= 128 THEN -1 ELSE 0)
    [] f.kind = "bytes" -> b
    [] f.kind = "alpha" -> GetAlpha(b)
    [] f.kind \in {"num", "seq"} -> GetNumeric(b)

\* An encoder: every field in turn.
Encode(layout, m) == SX!FlattenSeq([k \in DOMAIN layout |-> PutField(layout[k], m)])

\* Reader::take: where field k begins.
Offset(layout, k) ==
  LET end[j \in 0 .. Len(layout)] == IF j = 0 THEN 0 ELSE end[j - 1] + layout[j].width
  IN  end[k - 1]

Width(layout) == Offset(layout, Len(layout) + 1)
Part(layout, b, k) == SubSeq(b, Offset(layout, k) + 1, Offset(layout, k) + layout[k].width)

\* Reader::ok, and what from_chars accepts: no field passes the end and every
\* number is one ("seq": not a blank one).
Readable(layout, b) ==
  /\ Width(layout) <= Len(b)
  /\ \A k \in DOMAIN layout :
       /\ layout[k].kind \in {"num", "seq"} => IsNumeric(Part(layout, b, k))
       /\ layout[k].kind = "seq" => IsDigit(Part(layout, b, k)[layout[k].width])

\* A decoder: the named fields, each from its place.
Decode(layout, b) ==
  LET named == {k \in DOMAIN layout : layout[k].name # ""}
      at(n) == CHOOSE k \in named : layout[k].name = n
  IN  [n \in {layout[k].name : k \in named} |-> GetField(layout[at(n)], Part(layout, b, at(n)))]
============================================================================
