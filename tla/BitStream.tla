----------------------------- MODULE BitStream ------------------------------
(***************************************************************************)
(* BitWriter and BitReader: a stream of bytes written and read bit by bit, *)
(* the most significant bit of a byte first.                               *)
(*                                                                         *)
(* A writer is [stream, count], count the free low bits of the last byte   *)
(* (they are always zero, so that |= is an addition).  A reader is         *)
(* [stream, offset, buffer, valid].  A read is [err, val, r]: the value,   *)
(* the reader after it, and an error or "none".  "Undefined" stands for    *)
(* the shift by a negative amount in read_bits(): from there on the code   *)
(* may return anything, and nothing is claimed about it.                   *)
(***************************************************************************)
EXTENDS Varint, SequencesExt, FiniteSetsExt

WordBytes == WordBits \div ByteBits

Writer(bytes) == [stream |-> bytes, count |-> 0]

(* OR of x into the last byte.                                             *)
OrLast(stream, x) == [stream EXCEPT ![Len(stream)] = @ + x]

write_bit(w, b) ==
    LET open == IF w.count = 0
                THEN [stream |-> Append(w.stream, 0), count |-> ByteBits] ELSE w
    IN [stream |-> OrLast(open.stream, b * 2^(open.count - 1)), count |-> open.count - 1]

\* Mutant: the rest of a split byte is not shifted into place.
WriteByteUnshifted(w, byt) ==
    IF w.count = 0
    THEN [w EXCEPT !.stream = Append(@, byt)]
    ELSE [w EXCEPT !.stream = Append(OrLast(@, byt \div 2^(ByteBits - w.count)), byt)]

write_byte(w, byt) ==
    IF w.count = 0
    THEN [w EXCEPT !.stream = Append(@, byt)]
    ELSE [w EXCEPT !.stream = Append(OrLast(@, byt \div 2^(ByteBits - w.count)),
                                     (byt * 2^w.count) % Byte)]

(* The n low bits of u: whole bytes first, then single bits.               *)
RECURSIVE write_bits(_, _, _)
write_bits(w, u, n) ==
    CASE n = 0 -> w
      [] n >= ByteBits ->
           write_bits(write_byte(w, (u \div 2^(n - ByteBits)) % Byte), u, n - ByteBits)
      [] n \in 1..(ByteBits - 1) ->
           write_bits(write_bit(w, (u \div 2^(n - 1)) % 2), u, n - 1)

-----------------------------------------------------------------------------
Reader(bytes) == [stream |-> bytes, offset |-> 0, buffer |-> 0, valid |-> 0]

Exhausted(r) == r.offset >= Len(r.stream)

Number(bytes) == FoldLeft(LAMBDA acc, b : acc * Byte + b, 0, bytes)

(* A word when more than a word is left, else as many bytes as nbits need. *)
load_next_buffer(r, nbits) ==
    LET left == Len(r.stream) - r.offset
        nbytes == IF left > WordBytes THEN WordBytes ELSE Min({nbits \div ByteBits + 1, left})
    IN [r EXCEPT !.offset = @ + nbytes,
                 !.buffer = Number(SubSeq(r.stream, r.offset + 1, r.offset + nbytes)),
                 !.valid = nbytes * ByteBits]

Got(x, s) == [err |-> "none", val |-> x, r |-> s]
ReadFails(e, s) == [err |-> e, val |-> 0, r |-> s]

(* The n bits under the valid ones of the buffer.                          *)
TakeBuffered(r, n) ==
    Got((r.buffer \div 2^(r.valid - n)) % 2^n, [r EXCEPT !.valid = @ - n])

(* The rest of a value whose first bits were the last ones of the buffer.  *)
ReadAcross(r, n) ==
    LET remaining == n - r.valid
        high == (r.buffer % 2^r.valid) * 2^remaining
        Join(low) == Got(high + low.val, low.r)
        Rest(next) == IF next.valid < remaining THEN ReadFails("Undefined", next)
                      ELSE Join(TakeBuffered(next, remaining))
    IN IF Exhausted(r) THEN ReadFails("EndOfStream", [r EXCEPT !.valid = 0])
       ELSE Rest(load_next_buffer(r, remaining))

read_bits(r, n) ==
    LET From(s) == IF n <= s.valid THEN TakeBuffered(s, n) ELSE ReadAcross(s, n)
    IN CASE n = 0 -> Got(0, r)
         [] n > 0 /\ r.valid = 0 /\ Exhausted(r) -> ReadFails("EndOfStream", r)
         [] n > 0 /\ ~(r.valid = 0 /\ Exhausted(r)) ->
              From(IF r.valid = 0 THEN load_next_buffer(r, n) ELSE r)

read_bit(r) == read_bits(r, 1)

read_byte(r) == read_bits(r, ByteBits)

(* The i-th byte of a varint, x put together from the ones before it.      *)
RECURSIVE ReadGroups(_, _, _)
ReadGroups(r, i, x) ==
    LET Add(b) ==
          CASE b.err # "none" -> b
            [] b.err = "none" /\ b.val >= Group ->
                 ReadGroups(b.r, i + 1, x + (b.val % Group) * Group^i)
            [] b.err = "none" /\ b.val < Group ->
                 IF i = max_varint_len - 1 /\ b.val > 1
                 THEN ReadFails("VarintOverflow", b.r)
                 ELSE Got(x + b.val * Group^i, b.r)
    IN IF i = max_varint_len THEN ReadFails("VarintOverflow", r) ELSE Add(read_byte(r))

StreamUvarint(r) == ReadGroups(r, 0, 0)

StreamVarint(r) ==
    LET Unzigzagged(u) == IF u.err = "none" THEN [u EXCEPT !.val = unzigzag(@)] ELSE u
    IN Unzigzagged(StreamUvarint(r))
=============================================================================
