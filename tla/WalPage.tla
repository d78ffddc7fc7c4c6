------------------------------ MODULE WalPage ------------------------------
(***************************************************************************)
(* The page format of a write-ahead log segment: PageWriter frames records *)
(* into pages, one loop iteration of log() per step; a crash cuts the file *)
(* anywhere or one byte of it goes bad; PageReader reads it back, one loop *)
(* iteration of next() per step.                                           *)
(*                                                                         *)
(* A byte is a cell: "zero"; "hdr", the type byte of a fragment header,    *)
(* which stands for its length and its checksum too; "ext", the other      *)
(* bytes of a header; "body", a byte of a record; "junk", a byte that is   *)
(* none of these.  A checksum is the fragment it was computed of: CRC-32C  *)
(* is taken to tell any two fragments apart.  The length and the checksum  *)
(* of an empty fragment are zero bytes.                                    *)
(***************************************************************************)
EXTENDS Integers, Sequences, FiniteSets

CONSTANTS
    PageSize,    \* k_page_size
    HeaderSize,  \* k_record_header_size
    MaxBody,     \* bound: length of a record
    MaxRecords   \* bound: records in the segment

ASSUME PageConstants ==
    /\ PageSize \in Nat /\ HeaderSize \in Nat /\ MaxBody \in Nat /\ MaxRecords \in Nat
    /\ 1 < HeaderSize /\ HeaderSize < PageSize

VARIABLES
    phase,     \* "idle", "framing", "reading" or "done"
    buf,       \* the bytes of the segment
    body,      \* length of the record being framed
    pos,       \* how much of it is framed
    base,      \* history: length of buf when log() was called
    spans,     \* history: the fragments written, in order
    bad,       \* history: index of the byte that went bad, or 0
    offset,    \* PageReader: offset_
    open,      \* PageReader: a record is being assembled
    record,    \* PageReader: record_
    returned,  \* the records that next() has returned
    result     \* the error that ended the reading

written == <<buf, body, pos, base, spans, bad>>
read    == <<offset, open, record, returned, result>>
vars    == <<phase, written, read>>

Zero == [k |-> "zero"]
Ext  == [k |-> "ext"]
Junk == [k |-> "junk"]

\* The bytes of the i-th record of the segment, n bytes long.
Body(i, n) == [j \in 1..n |-> [k |-> "body", rec |-> i, at |-> j]]

RecTypes == {"Full", "First", "Middle", "Last"}

Min2(a, b) == IF a < b THEN a ELSE b

\* The records written so far are those with a last fragment.
Ends == {i \in DOMAIN spans : spans[i].last}

-----------------------------------------------------------------------------
(* PageWriter.                                                             *)

Zeros(n) == [i \in 1..n |-> Zero]

HeaderByte(type, fragment) ==
    [k |-> "hdr", type |-> type, len |-> Len(fragment), crc |-> fragment]

\* What follows the type byte h in its header.
LenAndCrc(h) == IF h.len = 0 THEN Zero ELSE Ext

write_header(type, fragment) ==
    LET h == HeaderByte(type, fragment)
    IN [i \in 1..HeaderSize |-> IF i = 1 THEN h ELSE LenAndCrc(h)]

\* Bytes left for a fragment in the page of offset o, after its header.
page_room(o) == PageSize - (o % PageSize) - HeaderSize

\* Mutant: every fragment starts a page.
PadToPage(o) == (PageSize - (o % PageSize)) % PageSize

\* Padding before a header at offset o.
Pad(o) == IF PageSize - (o % PageSize) < HeaderSize THEN PageSize - (o % PageSize) ELSE 0

FragmentType(first, last) ==
    IF first THEN IF last THEN "Full" ELSE "First"
    ELSE IF last THEN "Last" ELSE "Middle"

\* log() is called with a record of n bytes.
log(n) ==
    /\ phase = "idle"
    /\ Cardinality(Ends) < MaxRecords
    /\ phase' = "framing"
    /\ body' = n
    /\ pos' = 0
    /\ base' = Len(buf)
    /\ UNCHANGED <<buf, spans, bad, read>>

\* One iteration of the loop of log(): pad, header, fragment.
Fragment ==
    /\ phase = "framing"
    /\ LET pad      == Pad(Len(buf))
           start    == Len(buf) + pad
           len      == Min2(body - pos, page_room(start))
           last     == pos + len = body
           fragment == SubSeq(Body(Cardinality(Ends) + 1, body), pos + 1, pos + len)
       IN /\ buf' = buf \o Zeros(pad) \o write_header(FragmentType(pos = 0, last), fragment) \o fragment
          /\ phase' = IF last THEN "idle" ELSE "framing"
          /\ pos' = IF last THEN 0 ELSE pos + len
          /\ body' = IF last THEN 0 ELSE body
          /\ base' = IF last THEN 0 ELSE base
          /\ spans' = Append(spans, [from |-> start, to |-> start + HeaderSize + len,
                                     rec |-> Cardinality(Ends) + 1, last |-> last,
                                     at |-> pos, len |-> len, size |-> body])
    /\ UNCHANGED <<bad, read>>

\* close_page().
close_page ==
    /\ phase = "idle"
    /\ Len(buf) % PageSize # 0
    /\ buf' = buf \o Zeros(PageSize - (Len(buf) % PageSize))
    /\ UNCHANGED <<phase, body, pos, base, spans, bad, read>>

\* What framed_size_upper_bound() of SegmentWriter allows for n bytes.
framed_size_upper_bound(n) ==
    LET per == PageSize - HeaderSize
        nf  == IF n = 0 THEN 1 ELSE (n + per - 1) \div per
    IN nf * HeaderSize + n + (HeaderSize - 1)

-----------------------------------------------------------------------------
(* The file between writer and reader.                                     *)

\* A byte that went bad: another type in a header, the type byte of an empty
\* fragment among zeros, or junk.
Damaged(c) ==
    IF c.k = "hdr"
    THEN {[c EXCEPT !.type = t] : t \in (RecTypes \cup {"Invalid"}) \ {c.type}} \cup {Zero}
    ELSE {Junk} \cup (IF c.k = "zero" THEN {HeaderByte(t, <<>>) : t \in RecTypes} ELSE {})

\* The writer is gone; what is left is the first n bytes.
Truncate ==
    /\ phase = "idle"
    /\ \E n \in 0..Len(buf) : buf' = SubSeq(buf, 1, n)
    /\ phase' = "reading"
    /\ UNCHANGED <<body, pos, base, spans, bad, read>>

\* The writer is gone; one byte is not what it wrote.
Spoil ==
    /\ phase = "idle"
    /\ \E i \in DOMAIN buf : \E c \in Damaged(buf[i]) :
          buf' = [buf EXCEPT ![i] = c] /\ bad' = i
    /\ phase' = "reading"
    /\ UNCHANGED <<body, pos, base, spans, read>>

-----------------------------------------------------------------------------
(* PageReader::next.                                                       *)

Fail(error) ==
    /\ phase' = "done"
    /\ result' = error
    /\ UNCHANGED <<written, offset, open, record, returned>>

\* Mutant: a record that is being assembled is forgotten.
AtEndForgetful == phase = "reading" /\ offset >= Len(buf) /\ Fail("EndOfStream")

AtEnd ==
    /\ phase = "reading"
    /\ offset >= Len(buf)
    /\ Fail(IF open THEN "TornRecord" ELSE "EndOfStream")

More == phase = "reading" /\ offset < Len(buf)

\* Mutant: the file is taken to end with a whole page.
PaddingEndUnclipped == offset + PageSize - (offset % PageSize)

PaddingEnd == Min2(offset + PageSize - (offset % PageSize), Len(buf))

\* A zero byte: the rest of the page is padding.
SkipPadding ==
    /\ More
    /\ buf[offset + 1].k = "zero"
    /\ IF \E i \in DOMAIN buf : offset < i /\ i <= PaddingEnd /\ buf[i].k # "zero"
       THEN Fail("InvalidRecType")
       ELSE /\ offset' = PaddingEnd
            /\ UNCHANGED <<phase, written, open, record, returned, result>>

\* The header at offset, when there is room for one.
Hdr == buf[offset + 1]
Begin == offset + HeaderSize
HeaderFits == More /\ Hdr.k # "zero" /\ Begin <= Len(buf)

\* read_fragment_header fails, or what it read was not written as one header:
\* the length may then point past the end of the file, the checksum is wrong.
HeaderFails ==
    \/ More /\ Hdr.k # "zero" /\ Begin > Len(buf) /\ Fail("UnexpectedEnd")
    \/ /\ HeaderFits
       /\ IF Hdr.k # "hdr"
          THEN \E e \in {"InvalidRecType", "UnsupportedCompression", "UnexpectedEnd", "CrcMismatch"} :
                   Fail(e)
          ELSE IF Hdr.type = "Invalid"
          THEN \E e \in {"InvalidRecType", "UnsupportedCompression"} : Fail(e)
          ELSE /\ \E i \in offset + 2..Begin : buf[i] # LenAndCrc(Hdr)
               /\ \E e \in {"UnexpectedEnd", "CrcMismatch"} : Fail(e)

\* A header as it was written, up to its type.
HeaderRead ==
    /\ HeaderFits
    /\ Hdr.k = "hdr"
    /\ Hdr.type # "Invalid"
    /\ \A i \in offset + 2..Begin : buf[i] = LenAndCrc(Hdr)

\* The fragment behind it is cut off, or is not the one that was written.
FragmentFails ==
    /\ HeaderRead
    /\ IF Begin + Hdr.len > Len(buf)
       THEN Fail("UnexpectedEnd")
       ELSE SubSeq(buf, Begin + 1, Begin + Hdr.len) # Hdr.crc /\ Fail("CrcMismatch")

FragmentRead ==
    /\ HeaderRead
    /\ Begin + Hdr.len <= Len(buf)
    /\ SubSeq(buf, Begin + 1, Begin + Hdr.len) = Hdr.crc

\* A fragment that cannot follow the ones before it.
OutOfPlace ==
    /\ FragmentRead
    /\ Hdr.type \in {"Full", "First"} <=> open
    /\ Fail(IF open THEN "UnexpectedFirst" ELSE "UnexpectedMiddle")

\* Mutant: every fragment is assigned.
AssembledByAssign == Hdr.crc

\* A fragment that begins a record (record_.assign) or goes on with one
\* (record_.insert).  At the end of a record next() returns it; the call after
\* that clears record_.
Assembled ==
    IF Hdr.type \in {"Full", "First"} THEN Hdr.crc ELSE record \o Hdr.crc

TakeFragment ==
    /\ FragmentRead
    /\ Hdr.type \in {"Full", "First"} <=> ~open
    /\ offset' = Begin + Hdr.len
    /\ IF Hdr.type \in {"Full", "Last"}
       THEN open' = FALSE /\ record' = <<>> /\ returned' = Append(returned, Assembled)
       ELSE open' = TRUE /\ record' = Assembled /\ UNCHANGED returned
    /\ UNCHANGED <<phase, written, result>>

-----------------------------------------------------------------------------
Init ==
    /\ phase = "idle"
    /\ buf = <<>> /\ body = 0 /\ pos = 0
    /\ base = 0 /\ spans = <<>> /\ bad = 0
    /\ offset = 0 /\ open = FALSE /\ record = <<>>
    /\ returned = <<>> /\ result = "none"

Next ==
    \/ \E n \in 0..MaxBody : log(n)
    \/ Fragment
    \/ close_page
    \/ Truncate
    \/ Spoil
    \/ AtEnd
    \/ SkipPadding
    \/ HeaderFails
    \/ FragmentFails
    \/ OutOfPlace
    \/ TakeFragment

Spec == Init /\ [][Next]_vars

-----------------------------------------------------------------------------
(* Properties.                                                             *)

\* A record that log() began in the last HeaderSize bytes of a page: its first
\* fragment is empty, so that the next one is again marked as a first one.
ZeroFirst(s) == s.len = 0 /\ ~s.last

\* The records that lie in the file whole.
Whole == {i \in Ends : spans[i].to <= Len(buf)}
WholeRecords ==
    [r \in 1..Cardinality(Whole) |->
        Body(r, spans[CHOOSE i \in Whole : spans[i].rec = r].size)]

\* Those among them with nothing wrong in or before them.
Sound ==
    {i \in Whole : /\ \A j \in 1..i : ~ZeroFirst(spans[j])
                   /\ bad # 0 => spans[i].to < bad}

\* The state of a segment: cells, fragments, records and errors.
TypeOK ==
    /\ phase \in {"idle", "framing", "reading", "done"}
    /\ \A i \in DOMAIN buf : buf[i].k \in {"zero", "hdr", "ext", "body", "junk"}
    /\ body \in 0..MaxBody /\ pos \in 0..body /\ base \in Nat
    /\ bad \in 0..Len(buf) /\ offset \in 0..Len(buf)
    /\ open \in BOOLEAN
    /\ Len(record) <= MaxBody
    /\ Len(returned) <= MaxRecords + 1
    /\ result \in {"none", "EndOfStream", "TornRecord", "UnexpectedEnd", "InvalidRecType",
                   "UnsupportedCompression", "CrcMismatch", "UnexpectedFirst", "UnexpectedMiddle"}

\* How next() ends on a file that was only cut short, and in which no record
\* began with an empty fragment: a cut inside a fragment is UnexpectedEnd, one
\* between the fragments of a record is TornRecord, and any other cut cannot be
\* told from the end of the log.  This is the distinction on which
\* SegmentReader decides between "torn tail" and "corrupt".
Verdict ==
    (phase = "done" /\ bad = 0 /\ \A i \in DOMAIN spans : ~ZeroFirst(spans[i])) =>
        result =
            IF \E i \in DOMAIN spans : spans[i].from < Len(buf) /\ Len(buf) < spans[i].to
            THEN "UnexpectedEnd"
            ELSE IF \E i \in DOMAIN spans :
                       /\ spans[i].to <= Len(buf) /\ ~spans[i].last
                       /\ \A j \in DOMAIN spans : j > i => spans[j].to > Len(buf)
            THEN "TornRecord"
            ELSE "EndOfStream"

\* The size that SegmentWriter::log reserves for a record before it decides to
\* roll over is never exceeded by more than one byte, wherever in a page the
\* record starts and however many pages it crosses.
FramedWithinBound ==
    [][phase = "framing" => Len(buf') - base <= framed_size_upper_bound(body) + 1]_vars

Spans ==
    [from : Nat, to : Nat, rec : Nat, last : BOOLEAN, at : Nat, len : Nat, size : Nat]

\* The types that the proofs need.
Segment ==
    /\ phase \in {"idle", "framing", "reading", "done"}
    /\ buf \in Seq({buf[i] : i \in DOMAIN buf})
    /\ spans \in Seq(Spans)
    /\ body \in Nat /\ pos \in Nat /\ base \in Nat /\ bad \in Nat
    /\ pos <= body

\* A record after f of its fragments fills its pages but for what the padding
\* before the first of them took, and only a first fragment is shorter than its
\* page allows: what makes FramedWithinBound inductive.
FramedSoFar ==
    Segment /\ (phase = "framing" =>
        /\ base <= Len(buf)
        /\ \/ pos = 0 /\ Len(buf) = base
           \/ /\ pos < body /\ Len(buf) % PageSize = 0
              /\ \E f \in 1..body + 1 :
                    \/ /\ Len(buf) - base = f * HeaderSize + pos
                       /\ (f - 1) * (PageSize - HeaderSize) <= pos
                    \/ /\ Len(buf) - base <= f * HeaderSize + pos + (HeaderSize - 1)
                       /\ f * (PageSize - HeaderSize) = pos)

-----------------------------------------------------------------------------
(* Where the bytes of a segment are.                                       *)

\* Where the i-th fragment ends, and the next page begins.
To(i) == IF i = 0 THEN 0 ELSE spans[i].to
PageEnd(o) == IF o % PageSize = 0 THEN o ELSE o + PageSize - (o % PageSize)

\* A record has ended with the i-th fragment.
Between(i) == i = 0 \/ spans[i].last

\* Fragments lie in one page each, one behind the other, and what is between
\* them is the rest of a page.
SpansInPages ==
    /\ \A i \in DOMAIN spans :
         /\ spans[i].to = spans[i].from + HeaderSize + spans[i].len
         /\ (spans[i].from % PageSize) + HeaderSize + spans[i].len <= PageSize
         /\ spans[i].from \in {To(i - 1), PageEnd(To(i - 1))}
    /\ \A i, j \in DOMAIN spans : i < j => spans[i].to <= spans[j].from

\* The file ends with the last fragment or its page, or was cut before that.
FileEnd ==
    IF phase \in {"idle", "framing"}
    THEN Len(buf) \in {To(Len(spans)), PageEnd(To(Len(spans)))}
    ELSE Len(buf) <= PageEnd(To(Len(spans)))

\* The fragments of a record follow each other, and records are numbered.
SpansOfRecords ==
    /\ \A i \in DOMAIN spans :
         /\ spans[i].rec = Cardinality(Ends \cap 1..i - 1) + 1
         /\ spans[i].at = IF Between(i - 1) THEN 0 ELSE spans[i - 1].at + spans[i - 1].len
         /\ ~Between(i - 1) => spans[i].size = spans[i - 1].size
         /\ spans[i].at + spans[i].len <= spans[i].size
         /\ spans[i].last <=> spans[i].at + spans[i].len = spans[i].size
    /\ \A r \in 1..Cardinality(Ends) : \E i \in Ends : spans[i].rec = r

\* The part of a record that a fragment holds.
Piece(s) == SubSeq(Body(s.rec, s.size), s.at + 1, s.at + s.len)

\* The header and the bytes of a fragment, among the first n bytes of a file w.
FragmentAt(w, n, s) ==
    s.from < n =>
        LET h == w[s.from + 1]
        IN /\ h.k = "hdr" /\ h.type \in RecTypes /\ h.len = s.len /\ h.crc = Piece(s)
           /\ \A j \in 2..HeaderSize : s.from + j <= n => w[s.from + j] = LenAndCrc(h)
           /\ \A j \in 1..s.len : s.from + HeaderSize + j <= n =>
                 w[s.from + HeaderSize + j] = Piece(s)[j]

\* How many bytes of the file are as they were written.
Intact == IF bad = 0 THEN Len(buf) ELSE bad - 1

\* The type of a fragment says where in its record it is, as long as no record
\* began with an empty one.
TypeAt(i) ==
    (spans[i].from < Intact /\ \A j \in 1..i - 1 : ~ZeroFirst(spans[j])) =>
        buf[spans[i].from + 1].type = FragmentType(Between(i - 1), spans[i].last)

\* The bytes of a file up to the one that went bad: its fragments, and zeros.
BytesInPlace ==
    /\ bad <= Len(buf)
    /\ \A i \in DOMAIN spans : FragmentAt(buf, Intact, spans[i]) /\ TypeAt(i)
    /\ \A i \in 0..Len(spans) : \A j \in To(i) + 1..Intact :
         (i < Len(spans) => j <= spans[i + 1].from) => buf[j] = Zero

\* Where log() is in its record.
WriterInPlace ==
    /\ phase = "idle" => Between(Len(spans))
    /\ phase = "framing" =>
         IF Between(Len(spans)) THEN pos = 0
         ELSE /\ pos = spans[Len(spans)].at + spans[Len(spans)].len
              /\ body = spans[Len(spans)].size
              /\ pos < body
    /\ (phase = "framing" /\ \A i \in DOMAIN spans : ~ZeroFirst(spans[i])) =>
         (pos = 0 <=> Between(Len(spans)))

\* next() has read the first k fragments: it stands behind the last of them, or
\* behind the padding that follows, and assembles a record unless one ended.
ReadUpTo(k) ==
    /\ To(k) <= offset /\ offset <= Len(buf)
    /\ \/ offset = To(k)
       \/ k < Len(spans) /\ offset = spans[k + 1].from
       \/ offset = Len(buf) /\ (k < Len(spans) => offset <= spans[k + 1].from)
    /\ open = ~Between(k)

ReaderInPlace ==
    (phase = "reading" /\ bad = 0 /\ \A i \in DOMAIN spans : ~ZeroFirst(spans[i])) =>
        \E k \in 0..Len(spans) : ReadUpTo(k)

\* Where writer, reader and the bytes of the file are: what makes Verdict
\* inductive.
PageLayout ==
    /\ Segment /\ SpansInPages /\ SpansOfRecords /\ FileEnd /\ BytesInPlace
    /\ WriterInPlace /\ ReaderInPlace
    /\ phase \in {"idle", "framing"} =>
         bad = 0 /\ offset = 0 /\ open = FALSE /\ record = <<>> /\ returned = <<>>
    /\ Verdict

\* There is something in the file that next() stumbles over.
Damage == bad # 0 \/ \E i \in DOMAIN spans : ZeroFirst(spans[i])

\* next() has read the first k fragments, nothing is wrong with any of them, and
\* it has returned the records that end there and assembled what is behind.
SoundUpTo(k) ==
    /\ ReadUpTo(k)
    /\ \A i \in 1..k : ~ZeroFirst(spans[i]) /\ (bad # 0 => spans[i].to < bad)
    /\ Len(returned) = Cardinality(Ends \cap 1..k)
    /\ record = IF Between(k) THEN <<>>
                ELSE SubSeq(Body(spans[k].rec, spans[k].size), 1, spans[k].at + spans[k].len)

\* next() is among the sound records of the file or has returned them all: what
\* makes ImplementsRecordLog inductive.
ReaderSound ==
    /\ returned \in Seq({returned[i] : i \in DOMAIN returned})
    /\ phase = "reading" =>
         \/ \E k \in 0..Len(spans) : SoundUpTo(k)
         \/ Damage /\ Len(returned) >= Cardinality(Sound)

-----------------------------------------------------------------------------
(* The record log.                                                         *)

\* The pages implement the record log: what next() returns are the records
\* that log() was given, in order and unaltered, up to the first damage.
Log == INSTANCE RecordLog WITH
    mode    <- IF phase \in {"idle", "framing"} THEN "writing" ELSE phase,
    logged  <- WholeRecords,
    returned <- returned,
    sound   <- IF phase \in {"idle", "framing"} THEN 0 ELSE Cardinality(Sound),
    damaged <- phase \in {"reading", "done"} /\ Damage

ImplementsRecordLog == Log!Spec

\* Records written with log() and left alone are read back by next(), all of
\* them, before EndOfStream (page.hpp: "The body is fragmented across page
\* boundaries as needed").
RoundTrip ==
    (phase = "done" /\ bad = 0 /\ Whole = Ends) =>
        result = "EndOfStream" /\ returned = WholeRecords
=============================================================================
