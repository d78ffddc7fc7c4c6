----------------------------- MODULE BlockFiles -----------------------------
(***************************************************************************)
(* One call of Block::create_from_series at the level of its files, with   *)
(* an I/O error possible at every call that can return one and a power     *)
(* loss at any time; then Block::open and reads of chunks, while segments  *)
(* are damaged and reads of the files fail.                                *)
(*                                                                         *)
(* The input is a sequence of series [labels, chunks], labels a sequence   *)
(* of <<name, value>> sorted by name, a chunk [data, len, num, min, max]   *)
(* with data a number of its own.                                          *)
(***************************************************************************)
EXTENDS ChunkSegments, IndexFile, FiniteSetsExt

CONSTANTS
    SeriesInputs,  \* the inputs to choose from
    ShortReads,    \* bound: where a read of a segment file may fail
    MaxTrouble     \* bound: reads that fail and segments damaged

VARIABLES
    input,     \* the series passed to create_from_series
    phase,     \* the step create_from_series is at, or "done" or "failed"
    cw,        \* the ChunkWriter, its files included
    metas,     \* the ChunkMetas of each prepared series
    iw,        \* the IndexWriter
    ids,       \* the identifiers of the series added
    meta,      \* the content of meta.json
    indexed,   \* the index file is complete
    fault,     \* history: a call returned an I/O error
    trouble,   \* how many reads failed or segments were damaged
    cache,     \* ChunkReader: segment_bytes_cache_
    got        \* the last read: [ref, data]

vars == <<input, phase, cw, metas, iw, ids, meta, indexed, fault, trouble, cache, got>>

(* No meta.json; one whose content is incomplete, which does not parse.    *)
NoMeta == [min |-> 0, max |-> 0, samples |-> 0, series |-> 0, chunks |-> 0, file |-> "none"]
TornMeta == [NoMeta EXCEPT !.file = "torn"]

NoRead == [ref |-> 0, data |-> NoChunk]

Init ==
    /\ input \in SeriesInputs
    /\ phase = "open" /\ cw = NoWriter /\ metas = <<>>
    /\ iw = IndexWriterCreate /\ ids = <<>> /\ meta = NoMeta /\ indexed = FALSE
    /\ fault = FALSE /\ trouble = 0 /\ cache = <<>> /\ got = NoRead

-----------------------------------------------------------------------------
(* The series that have chunks.                                            *)
prepared == SelectSeq(input, LAMBDA s : s.chunks # <<>>)

AllChunks == FlattenSeq([i \in DOMAIN prepared |-> prepared[i].chunks])

(* The chunks written so far, and the one that is next.                    *)
Written == SumOf([i \in DOMAIN metas |-> Len(metas[i])])

(* The meta of the chunk that was written under ref, in its series.        *)
Noted(chunk, ref) ==
    LET entry == [min |-> chunk.min, max |-> chunk.max, ref |-> ref]
        current == Len(metas)
    IN IF current > 0 /\ Len(metas[current]) < Len(prepared[current].chunks)
       THEN [metas EXCEPT ![current] = Append(@, entry)]
       ELSE Append(metas, <<entry>>)

\* Mutant: the symbols in the order in which the series name them.
SymbolsAsSeen ==
    FoldLeft(LAMBDA seen, sym : IF Contains(seen, sym) THEN seen ELSE Append(seen, sym),
             <<0>>, FlattenSeq([i \in DOMAIN prepared |-> FlattenSeq(prepared[i].labels)]))

(* The symbols: every label name and value and the empty string, sorted.   *)
Symbols ==
    LET names == UNION {ToSet(FlattenSeq(prepared[i].labels)) : i \in DOMAIN prepared}
    IN SetToSortSeq(names \cup {0}, <)

sym_ref(sym) == SelectInSeq(Symbols, LAMBDA x : x = sym) - 1

LabelRefs(labels) == [i \in DOMAIN labels |-> <<sym_ref(labels[i][1]), sym_ref(labels[i][2])>>]

Pairs == UNION {ToSet(prepared[i].labels) : i \in DOMAIN prepared}

SortedPairs ==
    SetToSortSeq(Pairs, LAMBDA p, q : p[1] < q[1] \/ (p[1] = q[1] /\ p[2] < q[2]))

(* The identifiers, in the order of the input, of the series with a pair.  *)
IdsWith(pair) ==
    LET has == SelectSeq([i \in DOMAIN prepared |-> i],
                         LAMBDA i : pair \in ToSet(prepared[i].labels))
    IN [j \in DOMAIN has |-> ids[has[j]]]

-----------------------------------------------------------------------------
(* create_from_series.                                                     *)

Reading == UNCHANGED <<input, trouble, cache, got>>

(* An error is returned: what the files hold by then stays.                *)
FailWith(writer) ==
    /\ phase' = "failed" /\ fault' = TRUE /\ cw' = writer
    /\ UNCHANGED <<metas, iw, ids, meta, indexed>>

\* Mutant: the first error of write() is passed over, the chunk written again.
CarryOn(writer) ==
    /\ ~fault /\ phase' = phase /\ fault' = TRUE /\ cw' = writer
    /\ UNCHANGED <<metas, iw, ids, meta, indexed>>

(* if (!ref) return: no chunk is written after one that failed.            *)
WriteFails(writer) == FailWith(writer)

(* The directory, then ChunkWriter::open.                                  *)
OpenChunks ==
    /\ phase = "open"
    /\ \/ /\ phase' = "chunks" /\ cw' = ChunkWriterOpen
          /\ UNCHANGED <<metas, iw, ids, meta, indexed, fault>>
       \/ \E writer \in OpenFailures : FailWith(writer)
    /\ Reading

(* cw.write() of the next chunk.                                           *)
WriteChunk ==
    /\ phase = "chunks" /\ Written < Len(AllChunks)
    /\ LET chunk == AllChunks[Written + 1]
           rolls == Rolls(cw, chunk)
           room == IF rolls THEN cut_new_segment(cw) ELSE cw
           done == write(room, chunk)
       IN \/ /\ cw' = done.cw
             /\ metas' = Noted(chunk, done.ref)
             /\ UNCHANGED <<phase, iw, ids, meta, indexed, fault>>
          \/ rolls /\ \E writer \in CutFailures(cw) : WriteFails(writer)
          \/ \E writer \in WriteFailures(room, chunk) : WriteFails(writer)
    /\ Reading

(* cw.close(), then the symbol table.                                      *)
CloseChunks ==
    /\ phase = "chunks" /\ Written = Len(AllChunks)
    /\ \/ /\ phase' = "series"
          /\ iw' = finish_symbols(FoldLeft(add_symbol, iw, Symbols))
          /\ UNCHANGED <<cw, metas, ids, meta, indexed, fault>>
       \/ FailWith(cw)
    /\ Reading

(* A call that the writer refuses makes create_from_series return.         *)
Proceed(writer, next) ==
    /\ iw' = writer
    /\ phase' = IF writer.err THEN "failed" ELSE next

AddSeries ==
    /\ phase = "series" /\ Len(ids) < Len(prepared)
    /\ LET i == Len(ids) + 1
       IN /\ Proceed(add_series(iw, LabelRefs(prepared[i].labels), metas[i]), "series")
          /\ ids' = Append(ids, SeriesId(iw))
    /\ UNCHANGED <<cw, metas, meta, indexed, fault>>
    /\ Reading

AddPostings ==
    /\ phase = "series" /\ Len(ids) = Len(prepared)
    /\ Proceed(FoldLeft(LAMBDA w, p : add_postings(w, p[1], p[2], IdsWith(p)),
                        finish_series(iw), SortedPairs), "index")
    /\ UNCHANGED <<cw, metas, ids, meta, indexed, fault>>
    /\ Reading

(* iw.close(): the file is written whole, or in part and left like that.   *)
CloseIndex ==
    /\ phase = "index"
    /\ \/ /\ Proceed(IndexClose(iw), "meta")
          /\ indexed' = ~IndexClose(iw).err
          /\ UNCHANGED <<cw, metas, ids, meta, fault>>
       \/ FailWith(cw)
    /\ Reading

\* Mutant: the range ends where the last chunk does.
NewMetaOfLast ==
    LET mins == {AllChunks[i].min : i \in DOMAIN AllChunks}
    IN [min |-> IF mins = {} THEN 0 ELSE Min(mins),
        max |-> IF mins = {} THEN 0 ELSE Last(AllChunks).max,
        samples |-> SumOf([i \in DOMAIN AllChunks |-> AllChunks[i].num]),
        series |-> Len(prepared), chunks |-> Len(AllChunks), file |-> "whole"]

(* The totals of meta.json.                                                *)
NewMeta ==
    LET mins == {AllChunks[i].min : i \in DOMAIN AllChunks}
        maxs == {AllChunks[i].max : i \in DOMAIN AllChunks}
    IN [min |-> IF mins = {} THEN 0 ELSE Min(mins),
        max |-> IF maxs = {} THEN 0 ELSE Max(maxs),
        samples |-> SumOf([i \in DOMAIN AllChunks |-> AllChunks[i].num]),
        series |-> Len(prepared), chunks |-> Len(AllChunks), file |-> "whole"]

(* write_meta(): the content goes into the buffer of a stream, and whether *)
(* it gets from there to the file is decided when the stream is destroyed, *)
(* which nobody checks; the file is renamed into place either way.         *)
WriteMeta ==
    /\ phase = "meta"
    /\ \/ /\ meta' \in {NewMeta, TornMeta} /\ phase' = "tombstones"
          /\ UNCHANGED <<cw, metas, iw, ids, indexed, fault>>
       \/ FailWith(cw)
    /\ Reading

(* The empty tombstones file comes last.                                   *)
WriteTombstones ==
    /\ phase = "tombstones"
    /\ \/ /\ phase' = "done"
          /\ UNCHANGED <<cw, metas, iw, ids, meta, indexed, fault>>
       \/ FailWith(cw)
    /\ Reading

-----------------------------------------------------------------------------
(* Reading.                                                                *)

(* Block::open finds meta.json, the index and the chunks.                  *)
Opens == meta.file = "whole" /\ indexed /\ IndexOpens(iw)

Open ==
    /\ phase \in {"done", "failed"} /\ Opens /\ cache = <<>>
    /\ cache' = [s \in DOMAIN cw.files |-> NotCached]
    /\ UNCHANGED <<input, phase, cw, metas, iw, ids, meta, indexed, fault, trouble, got>>

AllMetas == FlattenSeq(metas)

(* What the stream of a file delivers: the file, or less of it.            *)
Deliveries(file) ==
    IF trouble = MaxTrouble THEN {file}
    ELSE {file} \cup {[file EXCEPT !.size = n] : n \in ShortReads \cap 0..(file.size - 1)}

(* ChunkReader::read of a chunk that the index refers to.                  *)
Read ==
    /\ cache # <<>>
    /\ \E i \in DOMAIN AllMetas :
         LET ref == AllMetas[i].ref
             seg == SegmentOf(ref) + 1
         IN \E loaded \in Deliveries(cw.files[seg]) :
              LET r == bytes_for(cache, seg, cw.files[seg], loaded)
              IN /\ cache' = r.cache
                 /\ got' = [ref |-> ref, data |-> ChunkAt(r.bytes, OffsetOf(ref))]
                 /\ trouble' = IF loaded = cw.files[seg] THEN trouble ELSE trouble + 1
    /\ UNCHANGED <<input, phase, cw, metas, iw, ids, meta, indexed, fault>>

(* The header or one frame of a segment file goes bad.                     *)
Damage ==
    /\ cache # <<>> /\ trouble < MaxTrouble
    /\ \E s \in DOMAIN cw.files :
         \/ cw' = [cw EXCEPT !.files[s].header = FALSE]
         \/ \E o \in DOMAIN cw.files[s].at : cw' = [cw EXCEPT !.files[s].at[o].data = -@]
    /\ trouble' = trouble + 1
    /\ UNCHANGED <<input, phase, metas, iw, ids, meta, indexed, fault, cache, got>>

(* What a segment holds whose last bytes were not fsynced.                 *)
Unsynced(file) ==
    {[file EXCEPT !.size = n, !.header = @ /\ n >= k_chunks_segment_header_size] :
        n \in 0..file.size}

(* The power fails.  Every segment but the one being written is fsynced,   *)
(* and so is the index; the content of meta.json never is, and its rename  *)
(* only as far as fsync of a directory works.                              *)
PowerLoss ==
    /\ phase # "open"
    /\ phase' = IF phase = "done" THEN "done" ELSE "failed"
    /\ fault' = (fault \/ phase # "done")
    /\ \/ /\ phase = "chunks"
          /\ \E file \in Unsynced(Last(cw.files)) :
               cw' = [cw EXCEPT !.files[Len(cw.files)] = file]
       \/ phase # "chunks" /\ cw' = cw
    /\ meta' \in {meta, NoMeta} \cup (IF meta = NoMeta THEN {} ELSE {TornMeta})
    /\ cache' = <<>> /\ got' = NoRead
    /\ UNCHANGED <<input, metas, iw, ids, indexed, trouble>>

Next ==
    \/ OpenChunks \/ WriteChunk \/ CloseChunks \/ AddSeries \/ AddPostings
    \/ CloseIndex \/ WriteMeta \/ WriteTombstones
    \/ Open \/ Read \/ Damage \/ PowerLoss

Spec == Init /\ [][Next]_vars

-----------------------------------------------------------------------------
(* create_from_series stops for an I/O error only: the order of its calls, *)
(* of the symbols and of the identifiers in every posting list is what the *)
(* IndexWriter asks for.                                                   *)
NeverRefused == phase = "failed" => fault

(* The data of the chunk that ref stands for, read from a sound directory. *)
DataAt(ref) == ChunkAt(cw.files[SegmentOf(ref) + 1], OffsetOf(ref))

(* What the index says of the i-th series that was passed in.              *)
ReadsBack(i, id) ==
    /\ SeriesReadable(iw, id)
    /\ LET entry == series(iw, id)
           s == prepared[i]
       IN /\ entry.labels = s.labels
          /\ Len(entry.chunks) = Len(s.chunks)
          /\ \A k \in DOMAIN s.chunks :
               LET c == entry.chunks[k]
               IN /\ c.min = s.chunks[k].min /\ c.max = s.chunks[k].max
                  /\ SegmentOf(c.ref) + 1 \in DOMAIN cw.files
                  /\ trouble = 0 => DataAt(c.ref) = s.chunks[k].data

(* A block that Block::open accepts holds all that was passed in, whether  *)
(* create_from_series returned success or failed behind it: each posting   *)
(* list leads to just the series that have the label, in order, and each   *)
(* series to its labels, the times of its chunks and their data, however   *)
(* segments rolled over, references and times wrapped and symbols fell     *)
(* into buckets.                                                           *)
OpenableReadsBack ==
    Opens =>
        \A p \in Pairs :
            LET with == SelectSeq([i \in DOMAIN prepared |-> i],
                                  LAMBDA i : p \in ToSet(prepared[i].labels))
                found == postings(iw, p[1], p[2])
            IN /\ Len(found) = Len(with)
               /\ \A j \in DOMAIN with : ReadsBack(with[j], found[j])

(* The range and the totals of meta.json are those of the index and of the *)
(* segments, which hold every chunk once and nothing else.                 *)
MetaMatchesFiles ==
    (Opens /\ trouble = 0) =>
        LET stored == FlattenSeq([s \in DOMAIN cw.files |-> iterate_segment(cw.files[s])])
            listed == {series(iw, id) : id \in all_postings(iw)}
        IN /\ stored = [i \in DOMAIN AllChunks |-> AllChunks[i].data]
           /\ meta.chunks = Len(stored) /\ meta.series = Len(ids)
           /\ \A e \in listed : \A k \in DOMAIN e.chunks :
                meta.min <= e.chunks[k].min /\ e.chunks[k].max <= meta.max

(* As long as no write has failed, a segment grows past segment_size with  *)
(* one chunk only, so that every offset fits in the 32 bits of a reference. *)
SegmentsWithinSize ==
    ~fault => \A s \in DOMAIN cw.files :
        Cardinality(DOMAIN cw.files[s].at) > 1 => cw.files[s].size <= segment_size

(* After any failed read and any damage, a read returns an error or the    *)
(* very chunk that was written under the reference, although bytes_for()   *)
(* hands out bytes it cached before it had checked them.                   *)
ReadIsExact ==
    got.data # NoChunk =>
        \E i \in DOMAIN AllMetas :
            AllMetas[i].ref = got.ref /\ AllChunks[i].data = got.data
=============================================================================
