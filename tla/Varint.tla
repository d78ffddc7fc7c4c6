------------------------------- MODULE Varint -------------------------------
(***************************************************************************)
(* The variable-length integers of the record, chunk and index formats:    *)
(* groups of seven bits, low group first, the top bit of a byte says that  *)
(* another one follows; signed values go through zigzag first.             *)
(*                                                                         *)
(* The widths are constants (8 and 64 in the code), so that TLC can check  *)
(* the same algorithm on a narrow machine.  An unsigned word is a natural  *)
(* below 2^WordBits, a signed one the integer it denotes.  A byte sequence *)
(* is a sequence of naturals below 2^ByteBits.                             *)
(***************************************************************************)
EXTENDS Integers, Sequences

CONSTANTS
    ByteBits,  \* bits of a byte
    WordBits   \* bits of a 64-bit word

(* The last byte of the longest varint holds one bit: 64 = 9 * 7 + 1.      *)
ASSUME VarintWidths ==
    /\ ByteBits \in Nat /\ WordBits \in Nat /\ ByteBits > 1
    /\ WordBits % (ByteBits - 1) = 1 /\ WordBits % ByteBits = 0

Byte == 2^ByteBits
Word == 2^WordBits
Group == 2^(ByteBits - 1)
max_varint_len == WordBits \div (ByteBits - 1) + 1

(* static_cast between the signed and the unsigned 64-bit types.           *)
Unsigned(x) == x % Word
Signed(u) == IF u >= Word \div 2 THEN u - Word ELSE u

RECURSIVE put_uvarint(_)
put_uvarint(x) ==
    IF x >= Group THEN <<Group + (x % Group)>> \o put_uvarint(x \div Group) ELSE <<x>>

UvarintSize(x) == Len(put_uvarint(x))

zigzag(x) == IF x >= 0 THEN 2 * x ELSE -2 * x - 1
unzigzag(u) == IF u % 2 = 0 THEN u \div 2 ELSE -(u \div 2) - 1

put_varint(x) == put_uvarint(zigzag(x))

Failed(e) == [err |-> e, val |-> 0, n |-> 0]

(* The loop of read_uvarint() at byte i, x put together from the ones      *)
(* before it.                                                              *)
RECURSIVE UvarintFrom(_, _, _)
UvarintFrom(buf, i, x) ==
    CASE i > Len(buf) -> Failed("UnexpectedEnd")
      [] i <= Len(buf) /\ i > max_varint_len -> Failed("VarintOverflow")
      [] i <= Len(buf) /\ i <= max_varint_len /\ buf[i] >= Group ->
           UvarintFrom(buf, i + 1, x + (buf[i] % Group) * Group^(i - 1))
      [] i <= Len(buf) /\ i <= max_varint_len /\ buf[i] < Group ->
           IF i = max_varint_len /\ buf[i] > 1 THEN Failed("VarintOverflow")
           ELSE [err |-> "none", val |-> x + buf[i] * Group^(i - 1), n |-> i]

(* A value with the number of bytes it took, or an error.                  *)
read_uvarint(buf) == IF buf = <<>> THEN Failed("EndOfStream") ELSE UvarintFrom(buf, 1, 0)

read_varint(buf) ==
    LET Unzigzagged(r) == IF r.err = "none" THEN [r EXCEPT !.val = unzigzag(@)] ELSE r
    IN Unzigzagged(read_uvarint(buf))
=============================================================================
