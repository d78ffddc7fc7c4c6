--------------------------- MODULE ChunkSegments ----------------------------
(***************************************************************************)
(* The segment files of a block's chunks/ directory: ChunkWriter frames    *)
(* chunks one after the other and cuts a new segment when one may not fit, *)
(* ChunkReader finds a chunk by its reference and caches whole segments.   *)
(*                                                                         *)
(* A chunk is [data, len].  A segment file is [header, size, at]: whether  *)
(* the magic and the version are in place, the length, and the frame that  *)
(* starts at each offset, [data, len, crc] with crc the data its checksum  *)
(* was computed of.  CRC-32C is taken to tell any two contents apart, so   *)
(* that a read where no frame starts fails.                                *)
(***************************************************************************)
EXTENDS Varint, SequencesExt, TLC

CONSTANTS segment_size   \* where the writer cuts a new segment

k_chunks_segment_header_size == 8
k_chunk_encoding_size == 1
k_chunk_crc_size == 4

(* The range of a 32-bit integer: half a word.                             *)
Half == 2^(WordBits \div 2)

FrameSize(chunk) ==
    UvarintSize(chunk.len) + k_chunk_encoding_size + chunk.len + k_chunk_crc_size

(* BlockChunkRef::to_u64 and from_u64.                                     *)
to_u64(seq, offset) == seq * Half + offset
SegmentOf(ref) == ref \div Half
OffsetOf(ref) == ref % Half

-----------------------------------------------------------------------------
(* ChunkWriter: [files, seq, offset].                                      *)

EmptySegment == [header |-> TRUE, size |-> k_chunks_segment_header_size, at |-> <<>>]

(* A segment whose header write stopped after n bytes.                     *)
TornSegment(n) == [header |-> FALSE, size |-> n, at |-> <<>>]

NoWriter == [files |-> <<>>, seq |-> 0, offset |-> 0]

ChunkWriterOpen == [files |-> <<EmptySegment>>, seq |-> 0,
                    offset |-> k_chunks_segment_header_size]

cut_new_segment(cw) ==
    [files |-> Append(cw.files, EmptySegment), seq |-> cw.seq + 1,
     offset |-> k_chunks_segment_header_size]

(* ChunkWriter::open fails before there is a file, or in its header.       *)
OpenFailures ==
    {NoWriter} \cup {[NoWriter EXCEPT !.files = <<TornSegment(n)>>] :
                        n \in 0..(k_chunks_segment_header_size - 1)}

(* The ways cut_new_segment() fails: fsync or close of the old segment,    *)
(* open of the new one, the write of its header.                           *)
CutFailures(cw) ==
    {cw, [cw EXCEPT !.seq = @ + 1]}
        \cup {[cw EXCEPT !.seq = @ + 1, !.files = Append(@, TornSegment(n))] :
                n \in 0..(k_chunks_segment_header_size - 1)}

\* Mutant: the rollover check takes the length of the data for the frame.
RollsWithoutFraming(cw, chunk) ==
    /\ cw.offset > k_chunks_segment_header_size
    /\ cw.offset + chunk.len > segment_size

(* The rollover check, against the longest frame the chunk may have.       *)
Rolls(cw, chunk) ==
    /\ cw.offset > k_chunks_segment_header_size
    /\ cw.offset + max_varint_len + k_chunk_encoding_size + chunk.len + k_chunk_crc_size
          > segment_size

(* What reaches the file: the frame at the end of it, or n bytes of it.    *)
Framed(cw, chunk) ==
    LET file == Last(cw.files)
    IN [cw.files EXCEPT ![Len(cw.files)] =
           [file EXCEPT !.size = @ + FrameSize(chunk),
                        !.at = (file.size :> [data |-> chunk.data, len |-> chunk.len,
                                              crc |-> chunk.data]) @@ @]]

PartlyFramed(cw, n) == [cw.files EXCEPT ![Len(cw.files)].size = @ + n]

(* write() once there is room: the reference and the writer after it.      *)
write(cw, chunk) ==
    [ref |-> to_u64(cw.seq, cw.offset % Half),
     cw |-> [cw EXCEPT !.files = Framed(cw, chunk), !.offset = @ + FrameSize(chunk)]]

(* The write fails after n bytes: offset stays behind the file.            *)
WriteFailures(cw, chunk) ==
    {[cw EXCEPT !.files = PartlyFramed(cw, n)] : n \in 0..(FrameSize(chunk) - 1)}

-----------------------------------------------------------------------------
(* ChunkReader.                                                            *)

NotCached == [header |-> FALSE, size |-> 0, at |-> <<>>]

(* The result of a read that fails; the data of a chunk is another number. *)
NoChunk == 0

(* A frame starts at the offset and ends within the bytes.                 *)
FrameAt(bytes, offset) ==
    /\ offset < bytes.size /\ offset \in DOMAIN bytes.at
    /\ offset + FrameSize(bytes.at[offset]) <= bytes.size

\* Mutant: the checksum is not compared.
ChunkAtUnchecked(bytes, offset) ==
    IF FrameAt(bytes, offset) THEN bytes.at[offset].data ELSE NoChunk

(* The chunk at an offset of a segment held in memory.                     *)
ChunkAt(bytes, offset) ==
    IF FrameAt(bytes, offset) /\ bytes.at[offset].crc = bytes.at[offset].data
    THEN bytes.at[offset].data ELSE NoChunk

HeaderValid(bytes) == bytes.size >= k_chunks_segment_header_size /\ bytes.header

(* bytes_for(): [cache, bytes] where bytes is NotCached when it fails.     *)
(* What was cached before is returned as it is.  loaded is what the file   *)
(* stream delivers: all of the file, or fewer bytes before it fails.       *)
bytes_for(cache, seq, file, loaded) ==
    CASE cache[seq].size > 0 -> [cache |-> cache, bytes |-> cache[seq]]
      [] cache[seq].size = 0 ->
           [cache |-> [cache EXCEPT ![seq] = loaded],
            bytes |-> IF loaded.size = file.size /\ HeaderValid(loaded)
                      THEN loaded ELSE NotCached]

(* The chunks from an offset on, ending in NoChunk where the walk fails:   *)
(* it goes by the lengths alone.                                           *)
RECURSIVE iterate_from(_, _)
iterate_from(bytes, offset) ==
    CASE offset >= bytes.size -> <<>>
      [] offset < bytes.size /\ ~FrameAt(bytes, offset) -> <<NoChunk>>
      [] OTHER -> <<bytes.at[offset].data>> \o
                  iterate_from(bytes, offset + FrameSize(bytes.at[offset]))

iterate_segment(bytes) == iterate_from(bytes, k_chunks_segment_header_size)
=============================================================================
