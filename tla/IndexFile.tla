----------------------------- MODULE IndexFile ------------------------------
(***************************************************************************)
(* The index file of a block: IndexWriter lays out the symbols, the series *)
(* and the posting lists in one buffer, in stages; IndexReader finds them  *)
(* again from the table of contents.                                       *)
(*                                                                         *)
(* The buffer is [.., size, at]: its length and the section that starts at *)
(* each offset, a checksum included.  A symbol is a natural, in the order  *)
(* of the strings, 0 the empty one; SymbolSize gives its length.  The      *)
(* payload of a series is the sequence of the words that are written as    *)
(* varints.  A label pair is <<name, value>>, a chunk [min, max, ref].     *)
(***************************************************************************)
EXTENDS Varint, SequencesExt, TLC

CONSTANTS
    SymbolSize,              \* bytes of each symbol
    k_symbol_sparse_stride   \* symbols from one remembered offset to the next

k_index_series_align == 16
k_index_header_size == 5
be32_size == 4
crc_size == 4

Padded(n, align) == ((n + align - 1) \div align) * align

StrSize(sym) == UvarintSize(SymbolSize[sym]) + SymbolSize[sym]
SumOf(seq) == FoldLeft(LAMBDA a, b : a + b, 0, seq)

-----------------------------------------------------------------------------
(* IndexWriter.  err is set when a call is refused.                        *)

IndexWriterCreate ==
    [stage |-> "Symbols", err |-> FALSE, size |-> k_index_header_size, at |-> <<>>,
     symbols |-> <<>>, count |-> 0, off_symbols |-> 0, off_series |-> 0,
     off_postings |-> 0, off_postings_tbl |-> 0, pending |-> <<>>]

RefuseUnless(ok, iw, done) == IF ok /\ ~iw.err THEN done ELSE [iw EXCEPT !.err = TRUE]

(* A section at the end of the buffer.                                     *)
Emit(iw, section, size) ==
    [iw EXCEPT !.at = (iw.size :> section) @@ @, !.size = @ + size]

pad_to(iw, align) == [iw EXCEPT !.size = Padded(@, align)]

(* The symbol is given its position as its reference.                      *)
add_symbol(iw, sym) ==
    RefuseUnless(iw.stage = "Symbols" /\ (iw.symbols # <<>> => sym >= Last(iw.symbols)),
                 iw, [iw EXCEPT !.symbols = Append(@, sym)])

(* Length, count, symbols and checksum.                                    *)
finish_symbols(iw) ==
    LET body == be32_size + SumOf([i \in DOMAIN iw.symbols |-> StrSize(iw.symbols[i])])
        section == [kind |-> "symbols", symbols |-> iw.symbols]
    IN RefuseUnless(iw.stage = "Symbols", iw,
                    [Emit(iw, section, be32_size + body + crc_size) EXCEPT
                        !.stage = "Series", !.off_symbols = iw.size])

(* The chunks after the first: times from the end of the chunk before, the *)
(* reference from its reference.  Differences of times are signed in the   *)
(* code and undefined where they leave the range of a word; they are taken *)
(* modulo a word, which is what the compilers in use make of them.         *)
NextChunkWords(c, prev) ==
    <<Unsigned(c.min - prev.max), Unsigned(c.max - c.min),
      zigzag(Signed(Unsigned(c.ref - prev.ref)))>>

FirstChunkWords(c) == <<zigzag(c.min), Unsigned(c.max - c.min), c.ref>>

SeriesWords(label_refs, metas) ==
    <<Len(label_refs)>> \o FlattenSeq(label_refs) \o <<Len(metas)>> \o
    FlattenSeq([i \in DOMAIN metas |->
        IF i = 1 THEN FirstChunkWords(metas[1]) ELSE NextChunkWords(metas[i], metas[i - 1])])

add_series(iw, label_refs, metas) ==
    LET words == SeriesWords(label_refs, metas)
        len == SumOf([i \in DOMAIN words |-> UvarintSize(words[i])])
        start == pad_to(iw, k_index_series_align)
    IN RefuseUnless(iw.stage = "Series", iw,
                    [Emit(start, [kind |-> "series", words |-> words],
                          UvarintSize(len) + len + crc_size) EXCEPT
                        !.off_series = IF iw.count = 0 THEN start.size ELSE @,
                        !.count = @ + 1])

(* The number that add_series() returns.                                   *)
SeriesId(iw) == Padded(iw.size, k_index_series_align) \div k_index_series_align

finish_series(iw) ==
    LET end == pad_to(iw, k_index_series_align)
    IN RefuseUnless(iw.stage = "Series", iw,
                    [end EXCEPT !.off_series = IF iw.count = 0 THEN iw.size ELSE @,
                                !.off_postings = end.size, !.stage = "Postings"])

add_postings(iw, name, value, ids) ==
    LET start == pad_to(iw, be32_size)
    IN RefuseUnless(/\ iw.stage = "Postings"
                    /\ \A i \in 2..Len(ids) : ids[i] > ids[i - 1],
                    iw,
                    [Emit(start, [kind |-> "postings", ids |-> ids],
                          be32_size + be32_size + be32_size * Len(ids) + crc_size) EXCEPT
                        !.pending = Append(@, [name |-> name, value |-> value,
                                               offset |-> start.size])])

(* close(): the offset table, the table of contents, then the file.        *)
TableSize(pending) ==
    be32_size + be32_size + crc_size + SumOf([i \in DOMAIN pending |->
        UvarintSize(2) + StrSize(pending[i].name) + StrSize(pending[i].value)
        + UvarintSize(pending[i].offset)])

IndexClose(iw) ==
    RefuseUnless(iw.stage = "Postings", iw,
                 [Emit(iw, [kind |-> "table", entries |-> iw.pending], TableSize(iw.pending))
                     EXCEPT !.off_postings_tbl = iw.size, !.stage = "Done"])

-----------------------------------------------------------------------------
(* IndexReader, on a file [at, off_symbols, off_postings_tbl].             *)

(* A section is there only at the offset where it was written.             *)
IsSection(f, offset, kind) == offset \in DOMAIN f.at /\ f.at[offset].kind = kind

(* IndexReader::open: the two sections that the table of contents names.   *)
IndexOpens(f) ==
    IsSection(f, f.off_symbols, "symbols") /\ IsSection(f, f.off_postings_tbl, "table")

(* Where the i-th symbol (from 0) starts.                                  *)
SymbolOffset(f, i) ==
    LET symbols == f.at[f.off_symbols].symbols
    IN f.off_symbols + 2 * be32_size + SumOf([j \in 1..i |-> StrSize(symbols[j])])

(* IndexSymbolTable::parse: the offset of every k-th symbol.               *)
sparse_offsets(f) ==
    LET count == Len(f.at[f.off_symbols].symbols)
    IN [b \in 1..((count + k_symbol_sparse_stride - 1) \div k_symbol_sparse_stride) |->
           SymbolOffset(f, (b - 1) * k_symbol_sparse_stride)]

(* The position of the symbol n entries after the one at pos.              *)
RECURSIVE WalkSymbols(_, _, _)
WalkSymbols(f, pos, n) ==
    LET symbols == f.at[f.off_symbols].symbols
        here == CHOOSE i \in DOMAIN symbols : SymbolOffset(f, i - 1) = pos
    IN IF n = 0 THEN symbols[here]
       ELSE WalkSymbols(f, pos + StrSize(symbols[here]), n - 1)

lookup(f, ref) ==
    WalkSymbols(f, sparse_offsets(f)[ref \div k_symbol_sparse_stride + 1],
                ref % k_symbol_sparse_stride)

(* decode_series_payload(): the chunks from their words, three each.       *)
DecodeChunks(w) ==
    LET Min0 == unzigzag(w[1])
        c[i \in 1..(Len(w) \div 3)] ==
            LET min == IF i = 1 THEN Min0
                       ELSE Signed(Unsigned(w[3 * i - 2] + c[i - 1].max))
            IN [min |-> min,
                max |-> Signed(Unsigned(w[3 * i - 1] + min)),
                ref |-> IF i = 1 THEN w[3] ELSE Unsigned(c[i - 1].ref + unzigzag(w[3 * i]))]
    IN [i \in 1..(Len(w) \div 3) |-> c[i]]

(* IndexReader::series at offset = id * 16.                                *)
series(f, id) ==
    LET w == f.at[id * k_index_series_align].words
        k == w[1]
    IN [labels |-> [i \in 1..k |-> <<lookup(f, w[2 * i]), lookup(f, w[2 * i + 1])>>],
        chunks |-> DecodeChunks(SubSeq(w, 2 * k + 3, Len(w)))]

SeriesReadable(f, id) == IsSection(f, id * k_index_series_align, "series")

(* PostingsOffsetTable::lookup, then read_posting_list().                  *)
postings(f, name, value) ==
    LET entries == f.at[f.off_postings_tbl].entries
        found == {i \in DOMAIN entries : entries[i].name = name /\ entries[i].value = value}
    IN IF found = {} THEN <<>>
       ELSE f.at[entries[CHOOSE i \in found : \A j \in found : i <= j].offset].ids

(* all_postings(): the identifiers of every list.                          *)
all_postings(f) ==
    LET entries == f.at[f.off_postings_tbl].entries
    IN UNION {ToSet(f.at[entries[i].offset].ids) : i \in DOMAIN entries}
=============================================================================
