------------------------------- MODULE Record -------------------------------
(***************************************************************************)
(* The two record types of the write-ahead log, byte for byte: Series, a   *)
(* list of references with their labels, and SamplesV2, a list of samples  *)
(* as differences from the first one and from the one before.              *)
(*                                                                         *)
(* A label string is the sequence of its bytes.  A decoder is              *)
(* [buf, off, err, val]: a read leaves its value in val; after a failed    *)
(* one err stays TRUE, off stays where it was and val is 0.                *)
(***************************************************************************)
EXTENDS Varint, SequencesExt

TypeSeries == 1
TypeSamplesV2 == 11

k_st_no == 0
k_st_same == 1
k_st_explicit == 2

(* append_be64: a word, the most significant byte first.                   *)
be64(x) == LET n == WordBits \div ByteBits
           IN [i \in 1..n |-> (x \div Byte^(n - i)) % Byte]

uvarint_str(s) == put_uvarint(Len(s)) \o s

-----------------------------------------------------------------------------
Decoder(buf) == [buf |-> buf, off |-> 0, err |-> FALSE, val |-> 0]

has_more(d) == ~d.err /\ d.off < Len(d.buf)

Fail(d) == [d EXCEPT !.err = TRUE, !.val = 0]
Take(d, x, n) == [d EXCEPT !.val = x, !.off = @ + n]

RecordByte(d) == IF d.off >= Len(d.buf) THEN Fail(d) ELSE Take(d, d.buf[d.off + 1], 1)

RecordBe64(d) ==
    LET n == WordBits \div ByteBits
    IN IF d.off + n > Len(d.buf) THEN Fail(d)
       ELSE Take(d, FoldLeft(LAMBDA acc, b : acc * Byte + b, 0,
                             SubSeq(d.buf, d.off + 1, d.off + n)), n)

RecordUvarint(d) ==
    LET Result(r) == IF r.err # "none" THEN Fail(d) ELSE Take(d, r.val, r.n)
    IN Result(read_uvarint(SubSeq(d.buf, d.off + 1, Len(d.buf))))

RecordVarint(d) ==
    LET Result(r) == IF r.err # "none" THEN Fail(d) ELSE Take(d, r.val, r.n)
    IN Result(read_varint(SubSeq(d.buf, d.off + 1, Len(d.buf))))

\* Mutant: a string is cut at the end of the record.
StrClipped(d) ==
    LET Str(len) ==
          IF len.err THEN [Fail(len) EXCEPT !.val = <<>>]
          ELSE Take(len, SubSeq(len.buf, len.off + 1, Len(len.buf)), len.val)
    IN Str(RecordUvarint(d))

read_uvarint_str(d) ==
    LET Str(len) ==
          IF len.err \/ len.off + len.val > Len(len.buf)
          THEN [Fail(len) EXCEPT !.val = <<>>]
          ELSE Take(len, SubSeq(len.buf, len.off + 1, len.off + len.val), len.val)
    IN Str(RecordUvarint(d))

Decoded(out) == [err |-> "none", out |-> out]
Refused(e) == [err |-> e, out |-> <<>>]

-----------------------------------------------------------------------------
encode_series(series) ==
    <<TypeSeries>> \o FlattenSeq([i \in DOMAIN series |->
        be64(series[i].ref) \o put_uvarint(Len(series[i].labels)) \o
        FlattenSeq([j \in DOMAIN series[i].labels |->
            uvarint_str(series[i].labels[j].name) \o uvarint_str(series[i].labels[j].value)])])

(* The labels of one entry, n of them still to read.                       *)
RECURSIVE DecodeLabels(_, _, _)
DecodeLabels(d, n, labels) ==
    LET Pair(name, value) ==
          DecodeLabels(value, n - 1, Append(labels, [name |-> name.val, value |-> value.val]))
        Named(name) == Pair(name, read_uvarint_str(name))
    IN IF n = 0 \/ d.err THEN [d |-> d, labels |-> labels]
       ELSE Named(read_uvarint_str(d))

RECURSIVE DecodeSeriesEntries(_, _)
DecodeSeriesEntries(d, out) ==
    LET Entry(ref, rest) ==
          IF rest.d.err THEN Refused("UnexpectedEnd")
          ELSE DecodeSeriesEntries(rest.d, Append(out, [ref |-> ref.val,
                                                        labels |-> rest.labels]))
        Counted(ref, count) == Entry(ref, DecodeLabels(count, count.val, <<>>))
        Referenced(ref) == Counted(ref, RecordUvarint(ref))
    IN IF has_more(d) THEN Referenced(RecordBe64(d)) ELSE Decoded(out)

decode_series(rec) ==
    LET Typed(d) ==
          IF d.val # TypeSeries THEN Refused("InvalidType") ELSE DecodeSeriesEntries(d, <<>>)
    IN Typed(RecordByte(Decoder(rec)))

-----------------------------------------------------------------------------
\* Mutant: the start time is taken against the one before, as the reference is.
MarkerAgainstPrevious(st, first_st, prev_st) ==
    CASE st = 0 -> <<k_st_no>>
      [] st # 0 /\ st = prev_st -> <<k_st_same>>
      [] st # 0 /\ st # prev_st -> <<k_st_explicit>> \o put_varint(Signed(Unsigned(st - prev_st)))

write_st_marker(st, first_st, prev_st) ==
    CASE st = 0 -> <<k_st_no>>
      [] st # 0 /\ st = prev_st -> <<k_st_same>>
      [] st # 0 /\ st # prev_st -> <<k_st_explicit>> \o put_varint(Signed(Unsigned(st - first_st)))

EncodeFirst(s) ==
    put_varint(Signed(s.ref)) \o put_varint(s.t) \o put_varint(s.st) \o be64(s.v)

(* Differences wrap at the width of a word.  Those of times are signed in  *)
(* the code, where leaving the range is undefined; wrapping is what the    *)
(* compilers in use make of it.                                            *)
EncodeNext(s, prev, first) ==
    put_varint(Signed(Unsigned(s.ref - prev.ref))) \o
    put_varint(Signed(Unsigned(s.t - first.t))) \o
    write_st_marker(s.st, first.st, prev.st) \o be64(s.v)

encode_samples_v2(samples) ==
    <<TypeSamplesV2>> \o FlattenSeq([i \in DOMAIN samples |->
        IF i = 1 THEN EncodeFirst(samples[1])
        ELSE EncodeNext(samples[i], samples[i - 1], samples[1])])

DecodeFirst(d) ==
    LET Sample(ref, t, st, v) ==
          [d |-> v, bad |-> FALSE,
           sample |-> [ref |-> Unsigned(ref.val), t |-> t.val, st |-> st.val, v |-> v.val]]
        Started(ref, t, st) == Sample(ref, t, st, RecordBe64(st))
        Timed(ref, t) == Started(ref, t, RecordVarint(t))
        Referenced(ref) == Timed(ref, RecordVarint(ref))
    IN Referenced(RecordVarint(d))

DecodeNext(d, prev, first) ==
    LET Sample(ref, t, marker, st, v) ==
          [d |-> IF marker.err THEN marker ELSE v,
           bad |-> ~marker.err /\ marker.val \notin {k_st_no, k_st_same, k_st_explicit},
           sample |-> [ref |-> Unsigned(prev.ref + ref.val),
                       t |-> Signed(Unsigned(first.t + t.val)),
                       st |-> CASE marker.val = k_st_no -> 0
                                [] marker.val = k_st_same -> prev.st
                                [] OTHER -> Signed(Unsigned(first.st + st.val)),
                       v |-> v.val]]
        Started(ref, t, marker, st) == Sample(ref, t, marker, st, RecordBe64(st))
        Marked(ref, t, marker) ==
          Started(ref, t, marker,
                  IF marker.val = k_st_explicit THEN RecordVarint(marker) ELSE marker)
        Timed(ref, t) == Marked(ref, t, RecordByte(t))
        Referenced(ref) == Timed(ref, RecordVarint(ref))
    IN Referenced(RecordVarint(d))

RECURSIVE DecodeSampleEntries(_, _)
DecodeSampleEntries(d, out) ==
    LET Entry(e) ==
          CASE e.bad -> Refused("StMarkerInvalid")
            [] ~e.bad /\ e.d.err -> Refused("UnexpectedEnd")
            [] ~e.bad /\ ~e.d.err -> DecodeSampleEntries(e.d, Append(out, e.sample))
    IN IF ~has_more(d) THEN Decoded(out)
       ELSE Entry(IF out = <<>> THEN DecodeFirst(d) ELSE DecodeNext(d, Last(out), out[1]))

decode_samples_v2(rec) ==
    LET Typed(d) ==
          IF d.val # TypeSamplesV2 THEN Refused("InvalidType") ELSE DecodeSampleEntries(d, <<>>)
    IN Typed(RecordByte(Decoder(rec)))
=============================================================================
