------------------------------ MODULE XorChunk ------------------------------
(***************************************************************************)
(* The XOR (Gorilla) chunk: a two-byte sample count, then a bit stream of  *)
(* timestamps as deltas of deltas and of values as the bits in which they  *)
(* differ from the value before.                                           *)
(*                                                                         *)
(* A chunk is its BitWriter.  A value is the word that holds the bits of   *)
(* the double, a timestamp a signed word; the arithmetic of timestamps     *)
(* wraps, as it does in the code compiled for the machines it is built on. *)
(***************************************************************************)
EXTENDS BitStream
LOCAL INSTANCE Bitwise

CONSTANTS
    DodMid,      \* bits of a delta of deltas after '110' (17)
    DodLarge,    \* bits of a delta of deltas after '1110' (20)
    LeadBits,    \* bits of the count of leading zeros (5)
    SigBits,     \* bits of the count of significant bits (6)
    kMaxSamples  \* samples that a chunk takes at most

kHeaderSize == 2
DodSmall == 2 * ByteBits - 2   \* two bytes, less the two bits of the prefix (14)

ASSUME ChunkWidths ==
    /\ DodSmall < DodMid /\ DodMid < DodLarge /\ DodLarge < WordBits
    /\ 2^SigBits = WordBits /\ 2^LeadBits < WordBits
    /\ kMaxSamples \in 1..(Byte * Byte - 1)

EmptyChunk == Writer([i \in 1..kHeaderSize |-> 0])

num_samples(bytes) == bytes[1] * Byte + bytes[2]

(* 0xFF, the leading_ of an appender that has no window yet.               *)
NoWindow == 255

FreshAppender ==
    [t |-> -(Word \div 2), v |-> 0, tDelta |-> 0, leading |-> NoWindow, trailing |-> 0]

-----------------------------------------------------------------------------
\* Mutant: the range of n-bit two's complement.
TwosComplementRange(x, n) == -(2^(n - 1)) <= x /\ x < 2^(n - 1)

bit_range(x, n) == -(2^(n - 1) - 1) <= x /\ x <= 2^(n - 1)

sign_extend(bits, width) == IF bits > 2^(width - 1) THEN bits - 2^width ELSE bits

countl_zero(x) == CHOOSE n \in 0..WordBits : 2^WordBits <= 2 * x * 2^n /\ x * 2^n < 2^WordBits
countr_zero(x) == CHOOSE n \in 0..WordBits : x % 2^n = 0 /\ x % 2^(n + 1) # 0

WriteBytes(w, bytes) == FoldLeft(write_byte, w, bytes)

(* The value against the one before it, in the window of the last fresh    *)
(* encoding when its bits fit in there.                                    *)
xor_write(w, v, app) ==
    LET delta == v ^^ app.v
        new_leading == Min({countl_zero(delta), 2^LeadBits - 1})
        new_trailing == countr_zero(delta)
        reuse == /\ app.leading # NoWindow
                 /\ new_leading >= app.leading /\ new_trailing >= app.trailing
        sigbits == WordBits - new_leading - new_trailing
        window == write_bits(write_bits(write_bits(w, 3, 2), new_leading, LeadBits),
                             sigbits % 2^SigBits, SigBits)
    IN CASE delta = 0 -> [w |-> write_bit(w, 0), app |-> app]
         [] delta # 0 /\ reuse ->
              [w |-> write_bits(write_bits(w, 2, 2), delta \div 2^app.trailing,
                                WordBits - app.leading - app.trailing),
               app |-> app]
         [] delta # 0 /\ ~reuse ->
              [w |-> write_bits(window, delta \div 2^new_trailing, sigbits),
               app |-> [app EXCEPT !.leading = new_leading, !.trailing = new_trailing]]

(* A delta of deltas under the shortest of the five prefixes that holds it. *)
write_dod(w, dod) ==
    CASE dod = 0 -> write_bit(w, 0)
      [] dod # 0 /\ bit_range(dod, DodSmall) ->
           write_byte(write_byte(w, Byte \div 2 + ((dod \div Byte) % 2^(ByteBits - 2))),
                      dod % Byte)
      [] ~bit_range(dod, DodSmall) /\ bit_range(dod, DodMid) ->
           write_bits(write_bits(w, 6, 3), Unsigned(dod), DodMid)
      [] ~bit_range(dod, DodMid) /\ bit_range(dod, DodLarge) ->
           write_bits(write_bits(w, 14, 4), Unsigned(dod), DodLarge)
      [] ~bit_range(dod, DodLarge) ->
           write_bits(write_bits(w, 15, 4), Unsigned(dod), WordBits)

(* XORAppender::append: refused when the chunk is full.                    *)
append(w, app, t, v) ==
    LET num == num_samples(w.stream)
        tDelta == IF num = 0 THEN 0 ELSE Unsigned(t - app.t)
        first == [w |-> write_bits(WriteBytes(w, put_varint(t)), v, WordBits), app |-> app]
        times == IF num = 1 THEN WriteBytes(w, put_uvarint(tDelta))
                 ELSE write_dod(w, Signed(Unsigned(tDelta - app.tDelta)))
        out == IF num = 0 THEN first ELSE xor_write(times, v, app)
    IN IF num = kMaxSamples
       THEN [ok |-> FALSE, w |-> w, app |-> app]
       ELSE [ok |-> TRUE,
             w |-> [out.w EXCEPT !.stream[1] = (num + 1) \div Byte,
                                 !.stream[2] = (num + 1) % Byte],
             app |-> [out.app EXCEPT !.t = t, !.v = v, !.tDelta = tDelta]]

-----------------------------------------------------------------------------
Iterator(bytes) ==
    [r |-> Reader(IF Len(bytes) >= kHeaderSize
                  THEN SubSeq(bytes, kHeaderSize + 1, Len(bytes)) ELSE <<>>),
     total |-> IF Len(bytes) >= kHeaderSize THEN num_samples(bytes) ELSE 0,
     read |-> 0, t |-> 0, v |-> 0, tDelta |-> 0, leading |-> 0, trailing |-> 0,
     err |-> "none"]

Stopped(it, e) == [it EXCEPT !.err = e]

\* Mutant: the result of the read is not looked at.
SignificantUnchecked(it, r) ==
    LET Moved(bits) ==
          [it EXCEPT !.r = bits.r, !.v = @ ^^ (bits.val * 2^it.trailing), !.read = @ + 1]
    IN Moved(read_bits(r, WordBits - it.leading - it.trailing))

(* The significant bits of the difference, in the window of it.            *)
ReadSignificant(it, r) ==
    LET Moved(bits) ==
          IF bits.err # "none" THEN Stopped(it, bits.err)
          ELSE [it EXCEPT !.r = bits.r, !.v = @ ^^ (bits.val * 2^it.trailing),
                          !.read = @ + 1]
    IN Moved(read_bits(r, WordBits - it.leading - it.trailing))

(* A new window: the leading zeros and the number of significant bits.     *)
ReadWindow(it, r) ==
    LET InWindow(leading, mbits, rest) ==
          ReadSignificant([it EXCEPT !.leading = leading,
                                     !.trailing = WordBits - leading - mbits], rest)
        Sized(lz, sb) ==
          IF sb.err # "none" THEN Stopped(it, sb.err)
          ELSE InWindow(lz.val, IF sb.val = 0 THEN WordBits ELSE sb.val, sb.r)
        Led(lz) == IF lz.err # "none" THEN Stopped(it, lz.err)
                   ELSE Sized(lz, read_bits(lz.r, SigBits))
    IN Led(read_bits(r, LeadBits))

(* read_value() and xor_read().                                            *)
read_value(it) ==
    LET Differs(fresh) ==
          CASE fresh.err # "none" -> Stopped(it, fresh.err)
            [] fresh.err = "none" /\ fresh.val = 0 -> ReadSignificant(it, fresh.r)
            [] fresh.err = "none" /\ fresh.val = 1 -> ReadWindow(it, fresh.r)
        Value(changed) ==
          CASE changed.err # "none" -> Stopped(it, changed.err)
            [] changed.err = "none" /\ changed.val = 0 ->
                 [it EXCEPT !.r = changed.r, !.read = @ + 1]
            [] changed.err = "none" /\ changed.val = 1 -> Differs(read_bit(changed.r))
    IN Value(read_bit(it.r))

(* The number of ones of the prefix, four at most.                         *)
RECURSIVE ReadPrefix(_, _)
ReadPrefix(r, ones) ==
    LET After(bit) ==
          CASE bit.err # "none" -> bit
            [] bit.err = "none" /\ bit.val = 0 -> Got(ones, bit.r)
            [] bit.err = "none" /\ bit.val = 1 -> ReadPrefix(bit.r, ones + 1)
    IN IF ones = 4 THEN Got(4, r) ELSE After(read_bit(r))

(* A delta of deltas: the payload whose width the prefix gives.            *)
read_dod(r) ==
    LET Extended(bits, width) ==
          IF bits.err # "none" THEN bits
          ELSE [bits EXCEPT !.val = IF width = WordBits THEN Signed(@)
                                    ELSE sign_extend(@, width)]
        Payload(s, width) == Extended(read_bits(s, width), width)
        Prefixed(prefix) ==
          IF prefix.err # "none" \/ prefix.val = 0 THEN prefix
          ELSE Payload(prefix.r, <<DodSmall, DodMid, DodLarge, WordBits>>[prefix.val])
    IN Prefixed(ReadPrefix(r, 0))

(* XORIterator::next: the iterator at its next sample, or with an error.   *)
next(it) ==
    LET First(t, v) ==
          CASE t.err # "none" -> Stopped(it, t.err)
            [] t.err = "none" /\ v.err # "none" -> Stopped(it, v.err)
            [] t.err = "none" /\ v.err = "none" ->
                 [it EXCEPT !.r = v.r, !.t = t.val, !.v = v.val, !.read = 1]
        FirstFrom(t) == First(t, read_bits(t.r, WordBits))
        Later(step, tDelta) ==
          IF step.err # "none" THEN Stopped(it, step.err)
          ELSE read_value([it EXCEPT !.r = step.r, !.tDelta = tDelta,
                                     !.t = Signed(Unsigned(@ + tDelta))])
        Second(td) == Later(td, td.val)
        Further(dod) == Later(dod, Unsigned(it.tDelta + dod.val))
    IN CASE it.read = 0 -> FirstFrom(StreamVarint(it.r))
         [] it.read = 1 -> Second(StreamUvarint(it.r))
         [] it.read > 1 -> Further(read_dod(it.r))

(* while (it.next()): what a caller collects, and where the iterator ends. *)
RECURSIVE Drain(_, _)
Drain(it, samples) ==
    LET Collect(moved) ==
          Drain(moved, IF moved.err = "none"
                       THEN Append(samples, [t |-> moved.t, v |-> moved.v]) ELSE samples)
    IN IF it.err # "none" \/ it.read = it.total THEN [it |-> it, samples |-> samples]
       ELSE Collect(next(it))

Iterate(bytes) == Drain(Iterator(bytes), <<>>)

(* XORChunk::appender: on a chunk with samples, the state of an iterator   *)
(* that has read them all, or the error that it met.                       *)
appender(w) ==
    LET StateOf(it) ==
          [err |-> it.err,
           app |-> [t |-> it.t, v |-> it.v, tDelta |-> it.tDelta,
                    leading |-> it.leading, trailing |-> it.trailing]]
    IN IF Len(w.stream) = kHeaderSize
       THEN [err |-> "none", app |-> FreshAppender]
       ELSE StateOf(Iterate(w.stream).it)
=============================================================================
