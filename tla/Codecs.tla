------------------------------- MODULE Codecs -------------------------------
(***************************************************************************)
(* One MemSeries and the records of one commit, at the level of bytes: the *)
(* series keeps its samples in XOR chunks, of which it cuts a new one when *)
(* the last is nearly full; the samples staged for the log are encoded as  *)
(* one SamplesV2 record, the series as one Series record.                  *)
(***************************************************************************)
EXTENDS XorChunk, Record

CONSTANTS
    kMaxBytes,    \* XORChunk::kMaxBytes
    MaxGrowth,    \* bytes that one sample adds at most (19)
    Inputs,       \* samples to append: [ref, d, st, v], d after the one before
    SeriesInputs, \* series to log: [ref, labels]
    MaxItems      \* bound: samples and series of the commit

VARIABLES
    chunks,    \* chunks_: the writers, oldest first
    current,   \* current_appender_
    last_t,    \* last_t_
    accepted,  \* history: the (t, v) that append() has accepted
    batch,     \* the samples of the SamplesV2 record
    entries    \* the series of the Series record

vars == <<chunks, current, last_t, accepted, batch, entries>>

\* Mutant: a byte less is kept free.
KeepingOneLess == kMaxBytes - MaxGrowth + 1

k_max_bytes_per_chunk_before_append == kMaxBytes - MaxGrowth

Init ==
    /\ chunks = <<>> /\ current = FreshAppender /\ last_t = -(Word \div 2)
    /\ accepted = <<>> /\ batch = <<>> /\ entries = <<>>

-----------------------------------------------------------------------------
cut_chunk(cs) == Append(cs, EmptyChunk)

(* MemSeries::append after its order check: cut when the last chunk is too *)
(* long, and once more when it holds as many samples as it can.            *)
AppendToChunks(t, v) ==
    LET full == \/ chunks = <<>>
                \/ Len(Last(chunks).stream) > k_max_bytes_per_chunk_before_append
        cs == IF full THEN cut_chunk(chunks) ELSE chunks
        try == append(Last(cs), IF full THEN FreshAppender ELSE current, t, v)
        again == append(EmptyChunk, FreshAppender, t, v)
    IN IF try.ok THEN [chunks |-> Append(Front(cs), try.w), app |-> try.app]
       ELSE [chunks |-> Append(cs, again.w), app |-> again.app]

(* A sample arrives: it is staged for the log, and the series takes it     *)
(* unless it is older than the last one.                                   *)
AppendSample(in) ==
    LET before == IF batch = <<>> THEN 0 ELSE Last(batch).t
        t == Signed(Unsigned(before + in.d))
        result == AppendToChunks(t, in.v)
    IN /\ Len(entries) + Len(batch) < MaxItems
       /\ batch' = Append(batch, [ref |-> in.ref, t |-> t, st |-> in.st, v |-> in.v])
       /\ IF accepted # <<>> /\ t < last_t
          THEN UNCHANGED <<chunks, current, last_t, accepted>>
          ELSE /\ chunks' = result.chunks
               /\ current' = result.app
               /\ last_t' = t
               /\ accepted' = Append(accepted, [t |-> t, v |-> in.v])
       /\ UNCHANGED entries

(* XORChunk::appender on the last chunk, in place of the one in use.       *)
Reappend ==
    LET Resume(result) == result.err = "none" /\ current' = result.app
    IN /\ chunks # <<>>
       /\ Resume(appender(Last(chunks)))
       /\ UNCHANGED <<chunks, last_t, accepted, batch, entries>>

LogSeries(s) ==
    /\ batch = <<>> /\ Len(entries) < MaxItems
    /\ entries' = Append(entries, s)
    /\ UNCHANGED <<chunks, current, last_t, accepted, batch>>

Next ==
    \/ \E in \in Inputs : AppendSample(in)
    \/ Reappend
    \/ \E s \in SeriesInputs : LogSeries(s)

Spec == Init /\ [][Next]_vars

-----------------------------------------------------------------------------
(* Every chunk is a sequence of bytes whose free low bits are zero, as the *)
(* writer relies on when it ORs the next bits in, and counts one to        *)
(* kMaxSamples samples.                                                    *)
TypeOK ==
    \A i \in DOMAIN chunks :
        LET w == chunks[i]
        IN /\ w.stream \in Seq(0..(Byte - 1)) /\ w.count \in 0..(ByteBits - 1)
           /\ Last(w.stream) % 2^w.count = 0
           /\ num_samples(w.stream) \in 1..kMaxSamples

(* The chunks of a series, iterated one after the other, yield exactly the *)
(* samples that append() accepted: at every edge of the delta-of-delta     *)
(* classes, for every window of significant bits, across chunk cuts and    *)
(* after an appender that was rebuilt from the bytes; and the bit reader   *)
(* never gets to its undefined shift.                                      *)
ChunksHoldSamples ==
    LET Held(read) ==
          /\ \A i \in DOMAIN read : read[i].it.err = "none"
          /\ FlattenSeq([i \in DOMAIN read |-> read[i].samples]) = accepted
    IN Held([i \in DOMAIN chunks |-> Iterate(chunks[i].stream)])

(* Cutting before a chunk comes within MaxGrowth bytes of kMaxBytes keeps  *)
(* every chunk at or below kMaxBytes: no sample after the second can grow  *)
(* a chunk by more than that.                                              *)
ChunkWithinBytes == \A i \in DOMAIN chunks : Len(chunks[i].stream) <= kMaxBytes

(* The bits of a chunk that k calls of next() take.                        *)
BitsOf(bytes, k) ==
    LET Taken(r) == r.offset * ByteBits - r.valid
    IN Taken(FoldLeft(LAMBDA it, i : next(it), Iterator(bytes), [i \in 1..k |-> i]).r)

(* A chunk cut short anywhere after its header yields exactly the samples  *)
(* all of whose bits it still has: none of them is lost, and nothing that  *)
(* nobody appended comes before the iterator stops, with an error or at    *)
(* the shift by a negative amount in read_bits() (bstream.cpp:107).  Of    *)
(* what follows the shift nothing is claimed: the compiled code goes on    *)
(* there and may report no error, whatever xor.hpp:102 says of error().    *)
TornChunkYieldsPrefix ==
    LET Yields(torn, whole, k) ==
          torn.it.err # "none" /\ torn.samples = SubSeq(whole.samples, 1, k)
        Complete(bytes, total, n) ==
          Max({k \in 0..total : BitsOf(bytes, k) <= (n - kHeaderSize) * ByteBits})
        EachCut(bytes, whole) ==
          \A n \in kHeaderSize..(Len(bytes) - 1) :
              Yields(Iterate(SubSeq(bytes, 1, n)), whole,
                     Complete(bytes, Len(whole.samples), n))
    IN chunks # <<>> => EachCut(Last(chunks).stream, Iterate(Last(chunks).stream))

(* A SamplesV2 record decodes to the samples encoded, whatever order their *)
(* references, times and start times come in and however their differences *)
(* wrap; the record cut short anywhere decodes to an error or to fewer of  *)
(* the same samples, never to one that nobody appended.  (Cuts before the  *)
(* last sample are those of the record without it.)                        *)
SamplesRecordExact ==
    LET Fewer(torn) == torn.err # "none" \/ IsStrictPrefix(torn.out, batch)
        Exact(rec, from) ==
          /\ decode_samples_v2(rec) = Decoded(batch)
          /\ \A n \in from..(Len(rec) - 1) : Fewer(decode_samples_v2(SubSeq(rec, 1, n)))
    IN Exact(encode_samples_v2(batch),
             IF batch = <<>> THEN 0 ELSE Len(encode_samples_v2(Front(batch))))

(* The same for a Series record: references and label strings come back,   *)
(* and a record cut short never yields a series with fewer labels.         *)
SeriesRecordExact ==
    LET Fewer(torn) == torn.err # "none" \/ IsStrictPrefix(torn.out, entries)
        Exact(rec) ==
          /\ decode_series(rec) = Decoded(entries)
          /\ \A n \in 0..(Len(rec) - 1) : Fewer(decode_series(SubSeq(rec, 1, n)))
    IN Exact(encode_series(entries))
=============================================================================
