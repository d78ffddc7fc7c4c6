------------------------------ MODULE MCCodecs ------------------------------
(***************************************************************************)
(* The codecs on a machine with 4-bit bytes and 16-bit words: every width  *)
(* of the formats scales with it (deltas of deltas of 6, 8 and 10 bits for *)
(* 14, 17 and 20, 3 and 4 bits for the two counts of a window).            *)
(***************************************************************************)
EXTENDS Codecs

S(r, delta, start, value) == [ref |-> r, d |-> delta, st |-> start, v |-> value]

(* Between two of these the delta of deltas is -32, -31, 32 and 33 (the    *)
(* edges of 6 bits), -128, -127 and 128, -512, 512 and 513, and nearly as  *)
(* far as the words go.  The values differ in no bit, in the lowest, in    *)
(* the highest, in both, and in windows that do and do not fit in one      *)
(* another.                                                                *)
SampleInputs ==
    { S(1, 0, 0, 0), S(1, 1, 0, 1), S(2, 32, 5, 1), S(65535, 33, 5, 24),
      S(0, 160, 7, 32769), S(32768, 545, -32768, 1280), S(2, 30000, 32767, 65535),
      S(3, -1, 0, 3) }

Label(n, v) == [name |-> n, value |-> v]

(* Label strings: empty, of one byte, and of a length that takes two bytes *)
(* of varint.                                                              *)
LogInputs ==
    { [ref |-> 1, labels |-> <<>>],
      [ref |-> 65535, labels |-> <<Label(<<1>>, <<>>)>>],
      [ref |-> 258, labels |-> <<Label(<<1>>, <<2, 3>>),
                                 Label(<<8, 8>>, <<0, 1, 2, 3, 4, 5, 6, 7, 15>>)>>] }
=============================================================================
