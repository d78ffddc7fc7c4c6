---------------------------- MODULE WalReadProofs ----------------------------
(***************************************************************************)
(* Proofs about WalPage: where the bytes of a segment are, and how the     *)
(* reading of a file that was cut short ends.                              *)
(***************************************************************************)
EXTENDS WalPageProofs

NoZeroFirst == \A i \in DOMAIN spans : ~ZeroFirst(spans[i])

-----------------------------------------------------------------------------
(* Fragments and padding.                                                  *)

LEMMA PageEndFacts ==
    ASSUME NEW o \in Nat
    PROVE  /\ PageEnd(o) \in Nat /\ o <= PageEnd(o)
           /\ PageEnd(o) % PageSize = 0
           /\ o < PageEnd(o) => o % PageSize # 0 /\ PageEnd(o) = o + PageSize - (o % PageSize)
  <1> DEFINE r == o % PageSize
  <1>1. r \in 0..PageSize - 1
    BY DivMod
  <1>2. CASE r = 0
    BY <1>2 DEF PageEnd
  <1>3. CASE r # 0
    <2>1. PageEnd(o) = o + PageSize - r
      BY <1>3 DEF PageEnd
    <2> HIDE DEF r
    <2>2. PageSize - r \in Nat /\ r + (PageSize - r) = PageSize
      BY <1>1, PageConstants
    <2>3. (o + (PageSize - r)) % PageSize = 0
      <3>1. PICK y \in Nat : y = PageSize - r
        BY <2>2
      <3>2. r + y = PageSize
        BY <2>2, <3>1
      <3>3. (o % PageSize) + y = PageSize
        BY <3>2 DEF r
      <3>4. (o + y) % PageSize = 0
        <4>1. (o % PageSize) + y <= PageSize
          BY <3>3, PageConstants
        <4> QED
          BY <3>3, <4>1, ModAdd, Zenon
      <3> QED
        BY <3>1, <3>4
    <2>4. o + (PageSize - r) = o + PageSize - r
      BY <1>1, PageConstants
    <2> QED
      BY <1>1, <1>3, <2>1, <2>2, <2>3, <2>4, PageConstants DEF r
  <1> QED
    BY <1>2, <1>3

LEMMA SpanTypes ==
    ASSUME Segment
    PROVE  /\ Len(spans) \in Nat /\ DOMAIN spans = 1..Len(spans)
           /\ \A i \in 1..Len(spans) :
                /\ spans[i].from \in Nat /\ spans[i].to \in Nat /\ spans[i].len \in Nat
                /\ spans[i].at \in Nat /\ spans[i].size \in Nat /\ spans[i].rec \in Nat
                /\ spans[i].last \in BOOLEAN
           /\ \A i \in 0..Len(spans) : To(i) \in Nat
           /\ Len(buf) \in Nat /\ DOMAIN buf = 1..Len(buf)
  <1>1. Len(spans) \in Nat /\ DOMAIN spans = 1..Len(spans)
    BY LenProperties DEF Segment
  <1>2. \A i \in 1..Len(spans) : spans[i] \in Spans
    BY ElementOfSeq DEF Segment
  <1>3. \A i \in 1..Len(spans) :
          /\ spans[i].from \in Nat /\ spans[i].to \in Nat /\ spans[i].len \in Nat
          /\ spans[i].at \in Nat /\ spans[i].size \in Nat /\ spans[i].rec \in Nat
          /\ spans[i].last \in BOOLEAN
    BY <1>2 DEF Spans
  <1>4. \A i \in 0..Len(spans) : To(i) \in Nat
    BY <1>1, <1>3 DEF To
  <1>5. Len(buf) \in Nat /\ DOMAIN buf = 1..Len(buf)
    BY LenProperties DEF Segment
  <1> QED
    BY <1>1, <1>3, <1>4, <1>5

(* Fragments end in the order they were written. *)
LEMMA SpansOrdered ==
    ASSUME Segment, SpansInPages
    PROVE  /\ \A i \in 1..Len(spans) : /\ To(i) = spans[i].to
                                       /\ spans[i].to = spans[i].from + HeaderSize + spans[i].len
                                       /\ spans[i].from < spans[i].to
                                       /\ To(i - 1) <= spans[i].from
           /\ \A i, j \in 0..Len(spans) : i <= j => To(i) <= To(j)
           /\ \A i \in 0..Len(spans), j \in 1..Len(spans) : i < j => To(i) <= spans[j].from
  <1>1. \A i \in 1..Len(spans) : To(i) = spans[i].to
    BY SpanTypes DEF To
  <1>6. \A i \in 1..Len(spans) : spans[i].to = spans[i].from + HeaderSize + spans[i].len
    BY SpanTypes, Zenon DEF SpansInPages
  <1>7. \A i, j \in 1..Len(spans) : i < j => spans[i].to <= spans[j].from
    BY SpanTypes, Zenon DEF SpansInPages
  <1>2. \A i \in 1..Len(spans) : /\ spans[i].to = spans[i].from + HeaderSize + spans[i].len
                                 /\ spans[i].from < spans[i].to
    BY <1>6, SpanTypes, PageConstants, SMTT(30)
  <1>3. \A i \in 0..Len(spans), j \in 1..Len(spans) : i < j => To(i) <= spans[j].from
    <2> SUFFICES ASSUME NEW i \in 0..Len(spans), NEW j \in 1..Len(spans), i < j
                 PROVE  To(i) <= spans[j].from
      OBVIOUS
    <2>1. CASE i = 0
      BY <2>1, SpanTypes DEF To
    <2>2. CASE i # 0
      <3>1. i \in 1..Len(spans)
        BY <2>2, SpanTypes
      <3> QED
        BY <1>1, <1>7, <3>1
    <2> QED
      BY <2>1, <2>2
  <1>4. \A i, j \in 0..Len(spans) : i <= j => To(i) <= To(j)
    <2> SUFFICES ASSUME NEW i \in 0..Len(spans), NEW j \in 0..Len(spans), i < j
                 PROVE  To(i) <= To(j)
      <3>1. \A i, j \in 0..Len(spans) : i <= j => i < j \/ i = j
        BY SpanTypes
      <3>2. \A i \in 0..Len(spans) : To(i) <= To(i)
        BY SpanTypes
      <3> QED
        BY <3>1, <3>2
    <2>1. j \in 1..Len(spans)
      BY SpanTypes
    <2>2. To(i) <= spans[j].from /\ spans[j].from < To(j)
      BY <1>1, <1>2, <1>3, <2>1
    <2> QED
      BY <2>1, <2>2, SpanTypes
  <1>5. \A i \in 1..Len(spans) : To(i - 1) <= spans[i].from
    BY <1>3, SpanTypes
  <1> QED
    BY <1>1, <1>2, <1>3, <1>4, <1>5

(* A fragment is where it was in a file that has the same bytes there. *)
LEMMA FragmentKept ==
    ASSUME NEW w, NEW x, NEW n \in Nat, NEW m \in Nat, NEW s \in Spans,
           s.to = s.from + HeaderSize + s.len, FragmentAt(w, n, s),
           \A j \in s.from + 1..s.to : j <= m => j <= n /\ x[j] = w[j]
    PROVE  /\ FragmentAt(x, m, s)
           /\ s.from < m => s.from < n /\ x[s.from + 1] = w[s.from + 1]
  <1> DEFINE a == s.from
             l == s.len
             p == Piece(s)
             h == w[a + 1]
  <1>1. a \in Nat /\ l \in Nat /\ HeaderSize \in Nat /\ 1 < HeaderSize
    BY PageConstants DEF Spans
  <1>2. s.to = a + HeaderSize + l
    OBVIOUS
  <1>3. SUFFICES ASSUME a < m
                 PROVE  FragmentAt(x, m, s) /\ a < n /\ x[a + 1] = h
    BY DEF FragmentAt
  <1>4. \A j \in a + 1..a + HeaderSize + l : j <= m => j <= n /\ x[j] = w[j]
    BY <1>2
  <1>5. a < n /\ x[a + 1] = h
    <2>1. a + 1 \in a + 1..a + HeaderSize + l /\ a + 1 <= m
      <3> HIDE DEF a, l
      <3> QED
        BY <1>1, <1>3
    <2>2. a + 1 <= n /\ x[a + 1] = w[a + 1]
      BY <1>4, <2>1, Zenon
    <2>3. a < n
      <3> HIDE DEF a
      <3> QED
        BY <1>1, <2>2
    <2> QED
      BY <2>2, <2>3
  <1>6. /\ h.k = "hdr" /\ h.type \in RecTypes /\ h.len = l /\ h.crc = p
        /\ \A j \in 2..HeaderSize : a + j <= n => w[a + j] = LenAndCrc(h)
        /\ \A j \in 1..l : a + HeaderSize + j <= n => w[a + HeaderSize + j] = p[j]
    BY <1>5, Zenon DEF FragmentAt
  <1> HIDE DEF a, l, h, p
  <1>7. \A j \in 2..HeaderSize : a + j <= m => x[a + j] = LenAndCrc(h)
    <2> SUFFICES ASSUME NEW j \in 2..HeaderSize, a + j <= m
                 PROVE  x[a + j] = LenAndCrc(h)
      OBVIOUS
    <2>1. a + j \in a + 1..a + HeaderSize + l
      BY <1>1
    <2> QED
      BY <1>4, <1>6, <2>1
  <1>8. \A j \in 1..l : a + HeaderSize + j <= m => x[a + HeaderSize + j] = p[j]
    <2> SUFFICES ASSUME NEW j \in 1..l, a + HeaderSize + j <= m
                 PROVE  x[a + HeaderSize + j] = p[j]
      OBVIOUS
    <2>1. a + HeaderSize + j \in a + 1..a + HeaderSize + l
      BY <1>1
    <2> QED
      BY <1>4, <1>6, <2>1
  <1>9. FragmentAt(x, m, s)
    BY <1>5, <1>6, <1>7, <1>8, Zenon DEF FragmentAt, a, l, p
  <1> QED
    BY <1>5, <1>9

LEMMA BeforeBad ==
    ASSUME NEW n \in Nat, NEW b \in Nat
    PROVE  (IF b = 0 THEN n ELSE b - 1) \in Nat
  OBVIOUS

LEMMA IntactFits ==
    ASSUME Segment, bad <= Len(buf)
    PROVE  Intact \in Nat /\ Intact <= Len(buf) /\ (bad = 0 => Intact = Len(buf))
  <1>1. Len(buf) \in Nat /\ bad \in Nat
    BY SpanTypes DEF Segment
  <1> QED
    BY <1>1 DEF Intact

-----------------------------------------------------------------------------
(* Steps that leave the fragments alone.                                   *)

LEMMA SpansStay ==
    ASSUME SpansInPages, SpansOfRecords, spans' = spans
    PROVE  /\ SpansInPages' /\ SpansOfRecords'
           /\ \A i : To(i)' = To(i) /\ Between(i)' = Between(i)
  <1>1. \A i : To(i)' = To(i) /\ Between(i)' = Between(i)
    BY DEF To, Between
  <1>2. SpansInPages'
    BY <1>1, Zenon DEF SpansInPages, PageEnd, To
  <1>3. Ends' = Ends
    BY DEF Ends
  <1>4. SpansOfRecords'
    BY <1>1, <1>3, Zenon DEF SpansOfRecords
  <1> QED
    BY <1>1, <1>2, <1>4

(* A file that is padded behind its last fragment, cut, spoilt or left alone. *)
LEMMA BytesStay ==
    ASSUME Segment, Segment', SpansInPages, BytesInPlace, spans' = spans, bad' <= Len(buf'),
           \A j \in 1..Intact' : j <= Intact => buf'[j] = buf[j],
           \A j \in Intact + 1..Intact' : buf'[j] = Zero,
           Intact < Intact' => To(Len(spans)) <= Intact
    PROVE  BytesInPlace'
  <1> DEFINE n == Len(spans)
  <1>1. SUFFICES /\ \A i \in 1..n : FragmentAt(buf', Intact', spans[i]) /\ TypeAt(i)'
                 /\ \A i \in 0..n : \A j \in To(i) + 1..Intact' :
                      (i < n => j <= spans[i + 1].from) => buf'[j] = Zero
    <2>1. \A i : To(i)' = To(i)
      BY DEF To
    <2>2. DOMAIN spans = 1..n
      BY SpanTypes
    <2> QED
      BY <2>1, <2>2, Zenon DEF BytesInPlace
  <1>2. /\ n \in Nat /\ Intact \in Nat /\ Intact' \in Nat
        /\ \A i \in 0..n : To(i) \in Nat
    <2>1. Intact \in Nat
      BY IntactFits DEF BytesInPlace
    <2>2. Intact' \in Nat
      <3>1. Len(buf') \in Nat /\ bad' \in Nat
        BY LenProperties DEF Segment
      <3> QED
        BY <3>1, BeforeBad, Zenon DEF Intact
    <2> QED
      BY <2>1, <2>2, SpanTypes
  <1>3. ASSUME NEW i \in 1..n
        PROVE  FragmentAt(buf', Intact', spans[i]) /\ TypeAt(i)'
    <2> DEFINE s == spans[i]
    <2>1. s \in Spans
      BY ElementOfSeq DEF Segment
    <2>2. s.to = s.from + HeaderSize + s.len /\ s.to <= To(n) /\ s.from \in Nat /\ s.to \in Nat
      BY <1>2, SpanTypes, SpansOrdered
    <2>3. FragmentAt(buf, Intact, s) /\ TypeAt(i)
      BY SpanTypes, Zenon DEF BytesInPlace
    <2>4. \A j \in s.from + 1..s.to : j <= Intact' => j <= Intact /\ buf'[j] = buf[j]
      <3>1. n \in 0..n
        BY <1>2
      <3>2. To(n) \in Nat
        BY <1>2, <3>1
      <3> HIDE DEF s
      <3>3. \A j \in s.from + 1..s.to : j \in Nat /\ 1 <= j /\ j <= To(n)
        BY <2>2, <3>2
      <3> QED
        BY <1>2, <3>2, <3>3
    <2> HIDE DEF s
    <2>5. /\ FragmentAt(buf', Intact', s)
          /\ s.from < Intact' => s.from < Intact /\ buf'[s.from + 1] = buf[s.from + 1]
      <3>1. PICK w : w = buf
        OBVIOUS
      <3>2. PICK x : x = buf'
        OBVIOUS
      <3>3. PICK c \in Nat : c = Intact
        BY <1>2
      <3>4. PICK d \in Nat : d = Intact'
        BY <1>2
      <3>5. s.to = s.from + HeaderSize + s.len /\ FragmentAt(w, c, s)
        BY <2>2, <2>3, <3>1, <3>3
      <3>6. \A j \in s.from + 1..s.to : j <= d => j <= c /\ x[j] = w[j]
        BY <2>4, <3>1, <3>2, <3>3, <3>4, Zenon
      <3>7. /\ FragmentAt(x, d, s)
            /\ s.from < d => s.from < c /\ x[s.from + 1] = w[s.from + 1]
        BY <2>1, <3>5, <3>6, FragmentKept, ZenonT(30)
      <3> QED
        BY <3>1, <3>2, <3>3, <3>4, <3>7, Zenon
    <2>6. TypeAt(i)'
      BY <2>3, <2>5, Zenon DEF TypeAt, Between, s
    <2> QED
      BY <2>5, <2>6 DEF s
  <1>4. ASSUME NEW i \in 0..n, NEW j \in To(i) + 1..Intact', i < n => j <= spans[i + 1].from
        PROVE  buf'[j] = Zero
    <2>1. CASE j <= Intact
      <3>1. j \in To(i) + 1..Intact
        BY <1>2, <2>1
      <3>2. buf[j] = Zero
        BY <1>4, <3>1, Zenon DEF BytesInPlace
      <3>3. j \in 1..Intact'
        BY <1>2
      <3> QED
        BY <2>1, <3>2, <3>3
    <2>2. CASE ~(j <= Intact)
      BY <1>2, <2>2
    <2> QED
      BY <2>1, <2>2
  <1> QED
    BY <1>3, <1>4

-----------------------------------------------------------------------------
(* The writer and the end of the file.                                     *)

LEMMA InitLayout ==
    ASSUME Init
    PROVE  PageLayout
  <1>1. /\ phase = "idle" /\ buf = <<>> /\ spans = <<>> /\ bad = 0 /\ offset = 0 /\ open = FALSE
        /\ record = <<>> /\ returned = <<>>
    BY DEF Init
  <1>2. Segment
    BY InitSegment
  <1>3. Len(spans) = 0 /\ DOMAIN spans = {} /\ Len(buf) = 0
    BY <1>1
  <1>4. SpansInPages /\ SpansOfRecords
    <2>1. Ends = {}
      BY <1>3 DEF Ends
    <2>2. Cardinality(Ends) = 0
      BY <2>1, FS_EmptySet
    <2>3. \A r \in 1..Cardinality(Ends) : FALSE
      BY <2>2
    <2> QED
      BY <1>3, <2>3, Zenon DEF SpansInPages, SpansOfRecords
  <1>5. FileEnd /\ WriterInPlace /\ ReaderInPlace /\ Verdict
    BY <1>1, <1>3 DEF FileEnd, To, WriterInPlace, ReaderInPlace, Between, Verdict
  <1>6. BytesInPlace
    <2>1. \A i \in 0..Len(spans) : To(i) = 0
      BY <1>3 DEF To
    <2>2. Intact = 0
      BY <1>1, <1>3 DEF Intact
    <2> QED
      BY <1>1, <1>3, <2>1, <2>2 DEF BytesInPlace
  <1> QED
    BY <1>1, <1>2, <1>4, <1>5, <1>6 DEF PageLayout

LEMMA LogLayout ==
    ASSUME PageLayout, NEW n \in 0..MaxBody, log(n)
    PROVE  PageLayout'
  <1>1. /\ phase = "idle" /\ phase' = "framing" /\ pos' = 0
        /\ UNCHANGED <<buf, spans, bad, offset, open, record, returned>>
    BY DEF log, read
  <1>2. Segment /\ Segment' /\ SpansInPages /\ SpansOfRecords /\ FileEnd /\ BytesInPlace
        /\ WriterInPlace /\ bad = 0 /\ offset = 0 /\ open = FALSE
        /\ record = <<>> /\ returned = <<>>
    BY <1>1, SegmentStays DEF PageLayout, Next
  <1>3. SpansInPages' /\ SpansOfRecords' /\ \A i : To(i)' = To(i) /\ Between(i)' = Between(i)
    BY <1>1, <1>2, SpansStay
  <1>4. FileEnd'
    BY <1>1, <1>2, <1>3 DEF FileEnd
  <1>5. BytesInPlace'
    <2>1. Intact' = Intact /\ Intact \in Nat /\ bad' <= Len(buf')
      BY <1>1, <1>2, IntactFits DEF Intact, BytesInPlace
    <2> QED
      BY <1>1, <1>2, <2>1, BytesStay
  <1>6. WriterInPlace' /\ ReaderInPlace' /\ Verdict'
    BY <1>1, <1>2, <1>3 DEF WriterInPlace, ReaderInPlace, Verdict
  <1> QED
    BY <1>1, <1>2, <1>3, <1>4, <1>5, <1>6 DEF PageLayout

LEMMA CloseLayout ==
    ASSUME PageLayout, close_page
    PROVE  PageLayout'
  <1> DEFINE L == Len(buf)
             n == Len(spans)
  <1>1. /\ phase = "idle" /\ phase' = "idle" /\ L % PageSize # 0
        /\ UNCHANGED <<pos, spans, bad, offset, open, record, returned>>
    BY DEF close_page, read
  <1>2. Segment /\ Segment' /\ SpansInPages /\ SpansOfRecords /\ FileEnd /\ BytesInPlace
        /\ WriterInPlace /\ bad = 0 /\ offset = 0 /\ open = FALSE
        /\ record = <<>> /\ returned = <<>>
    BY <1>1, SegmentStays DEF PageLayout, Next
  <1>3. SpansInPages' /\ SpansOfRecords' /\ \A i : To(i)' = To(i) /\ Between(i)' = Between(i)
    BY <1>1, <1>2, SpansStay
  <1>4. L \in Nat /\ n \in Nat /\ To(n) \in Nat
    BY <1>2, SpanTypes
  <1>5. L = To(n)
    <2>1. PageEnd(To(n)) % PageSize = 0
      BY <1>4, PageEndFacts
    <2> QED
      BY <1>1, <1>2, <2>1 DEF FileEnd
  <1>6. /\ L <= Len(buf') /\ Len(buf') = PageEnd(To(n))
        /\ \A j \in 1..L : buf'[j] = buf[j]
        /\ \A j \in L + 1..Len(buf') : buf'[j] = Zero
    <2> DEFINE m == PageSize - (L % PageSize)
    <2>1. /\ m \in Nat /\ Len(buf') = L + m
          /\ \A j \in 1..L : buf'[j] = buf[j]
          /\ \A j \in L + 1..Len(buf') : buf'[j] = Zero
      BY <1>2, PaddedBytes
    <2>2. PageEnd(To(n)) = L + PageSize - (L % PageSize)
      BY <1>1, <1>5 DEF PageEnd
    <2>3. L % PageSize \in Nat
      BY <1>4, DivMod
    <2>4. L + m = L + PageSize - (L % PageSize)
      BY <1>4, <2>3, PageConstants
    <2> HIDE DEF m
    <2> QED
      BY <1>4, <2>1, <2>2, <2>4
  <1>7. FileEnd'
    <2>1. To(n)' = To(n)
      BY <1>1 DEF To
    <2>2. PageEnd(To(n))' = PageEnd(To(n))
      BY <2>1, Zenon DEF PageEnd
    <2> QED
      BY <1>1, <1>6, <2>2 DEF FileEnd
  <1>8. BytesInPlace'
    <2>1. Intact = L /\ Intact' = Len(buf') /\ bad' = 0
      BY <1>1, <1>2 DEF Intact
    <2>2. Len(buf') \in Nat
      BY <1>2, LenProperties DEF Segment
    <2> QED
      BY <1>1, <1>2, <1>4, <1>5, <1>6, <2>1, <2>2, BytesStay
  <1>9. WriterInPlace' /\ ReaderInPlace' /\ Verdict'
    BY <1>1, <1>2, <1>3 DEF WriterInPlace, ReaderInPlace, Verdict
  <1> QED
    BY <1>1, <1>2, <1>3, <1>7, <1>8, <1>9 DEF PageLayout

LEMMA CutLayout ==
    ASSUME PageLayout, Truncate
    PROVE  PageLayout'
  <1>1. /\ phase = "idle" /\ phase' = "reading" /\ UNCHANGED <<spans, bad, offset, open>>
    BY DEF Truncate, read
  <1>2. Segment /\ Segment' /\ SpansInPages /\ SpansOfRecords /\ FileEnd /\ BytesInPlace
        /\ bad = 0 /\ offset = 0 /\ open = FALSE
    BY <1>1, SegmentStays DEF PageLayout, Next
  <1>3. SpansInPages' /\ SpansOfRecords' /\ \A i : To(i)' = To(i) /\ Between(i)' = Between(i)
    BY <1>1, <1>2, SpansStay
  <1>4. Len(buf') \in 0..Len(buf) /\ \A j \in 1..Len(buf') : buf'[j] = buf[j]
    BY <1>2, CutBytes
  <1>5. Len(buf) \in Nat /\ Len(spans) \in Nat /\ To(Len(spans)) \in Nat
    BY <1>2, SpanTypes
  <1>6. FileEnd'
    <2>1. To(Len(spans)) <= PageEnd(To(Len(spans))) /\ PageEnd(To(Len(spans))) \in Nat
      BY <1>5, PageEndFacts
    <2>2. Len(buf') <= PageEnd(To(Len(spans)))
      BY <1>1, <1>2, <1>4, <1>5, <2>1 DEF FileEnd
    <2>3. To(Len(spans))' = To(Len(spans))
      BY <1>1 DEF To
    <2>4. PageEnd(To(Len(spans)))' = PageEnd(To(Len(spans)))
      BY <2>3, Zenon DEF PageEnd
    <2> QED
      BY <1>1, <2>2, <2>4 DEF FileEnd
  <1>7. BytesInPlace'
    <2>1. Intact = Len(buf) /\ Intact' = Len(buf') /\ bad' = 0
      BY <1>1, <1>2 DEF Intact
    <2> QED
      BY <1>1, <1>2, <1>4, <1>5, <2>1, BytesStay
  <1>8. ReadUpTo(0)'
    <2>1. offset' = 0 /\ open' = FALSE /\ Len(buf') \in Nat
      BY <1>1, <1>2, <1>4, <1>5
    <2>2. To(0)' = 0 /\ Between(0)' = TRUE
      BY DEF To, Between
    <2>3. To(0)' <= offset' /\ offset' <= Len(buf') /\ offset' = To(0)'
      BY <2>1, <2>2
    <2> QED
      BY <2>1, <2>2, <2>3, Zenon DEF ReadUpTo
  <1>9. WriterInPlace' /\ ReaderInPlace' /\ Verdict'
    BY <1>1, <1>5, <1>8 DEF WriterInPlace, ReaderInPlace, Verdict
  <1> QED
    BY <1>1, <1>2, <1>3, <1>6, <1>7, <1>9 DEF PageLayout

LEMMA SpoilLayout ==
    ASSUME PageLayout, Spoil
    PROVE  PageLayout'
  <1>1. phase = "idle" /\ phase' = "reading" /\ spans' = spans
    BY DEF Spoil
  <1>2. Segment /\ Segment' /\ SpansInPages /\ SpansOfRecords /\ FileEnd /\ BytesInPlace /\ bad = 0
    BY <1>1, SegmentStays DEF PageLayout, Next
  <1>3. SpansInPages' /\ SpansOfRecords'
    BY <1>1, <1>2, SpansStay
  <1>4. /\ Len(buf') = Len(buf) /\ bad' # 0 /\ bad' \in 1..Len(buf)
        /\ \A j \in 1..Len(buf) : j # bad' => buf'[j] = buf[j]
    BY <1>2, SpoiltBytes
  <1>5. FileEnd'
    <2>1. To(Len(spans)) \in Nat /\ Len(buf) \in Nat
      BY <1>2, SpanTypes
    <2>2. To(Len(spans)) <= PageEnd(To(Len(spans))) /\ PageEnd(To(Len(spans))) \in Nat
      BY <2>1, PageEndFacts
    <2>3. Len(buf') <= PageEnd(To(Len(spans)))
      BY <1>1, <1>2, <1>4, <2>1, <2>2 DEF FileEnd
    <2>4. To(Len(spans))' = To(Len(spans))
      BY <1>1 DEF To
    <2>5. PageEnd(To(Len(spans)))' = PageEnd(To(Len(spans)))
      BY <2>4, Zenon DEF PageEnd
    <2> QED
      BY <1>1, <2>3, <2>5 DEF FileEnd
  <1>6. WriterInPlace' /\ ReaderInPlace' /\ Verdict'
    BY <1>1, <1>4 DEF WriterInPlace, ReaderInPlace, Verdict
  <1>7. BytesInPlace'
    <2>1. Intact = Len(buf) /\ Intact' = bad' - 1 /\ Len(buf) \in Nat
      BY <1>2, <1>4, SpanTypes DEF Intact
    <2>2. PICK m \in 1..Len(buf) : m = bad'
      BY <1>4, Zenon
    <2>3. PICK n \in Nat : n = Len(buf)
      BY <2>1
    <2>4. /\ m \in 1..n /\ m <= n /\ ~(n < m - 1) /\ \A j \in n + 1..m - 1 : FALSE
          /\ \A j \in 1..m - 1 : j \in 1..n /\ j # m
      BY <2>3
    <2>5. \A j \in 1..Intact' : buf'[j] = buf[j]
      BY <1>4, <2>1, <2>2, <2>3, <2>4, Zenon
    <2>6. bad' <= Len(buf')
      BY <1>4, <2>2, <2>3, <2>4, Zenon
    <2>7. ~(Intact < Intact') /\ \A j \in Intact + 1..Intact' : FALSE
      BY <2>1, <2>2, <2>3, <2>4, Zenon
    <2> QED
      BY <1>1, <1>2, <2>5, <2>6, <2>7, BytesStay
  <1> QED
    BY <1>1, <1>2, <1>3, <1>5, <1>6, <1>7 DEF PageLayout

(* The fragment that log() appends, and the ones before it. *)
LEMMA NewSpan ==
    ASSUME Segment, Fragment
    PROVE  /\ Len(spans') = Len(spans) + 1
           /\ \A i \in 1..Len(spans) : spans'[i] = spans[i]
           /\ spans'[Len(spans) + 1] \in Spans
           /\ spans'[Len(spans) + 1].from = Start
           /\ spans'[Len(spans) + 1].to = Start + HeaderSize + Size
           /\ spans'[Len(spans) + 1].last = Ended
           /\ spans'[Len(spans) + 1].len = Size
           /\ spans'[Len(spans) + 1].at = pos /\ spans'[Len(spans) + 1].size = body
           /\ spans'[Len(spans) + 1].rec = Cardinality(Ends) + 1
           /\ \A i \in 0..Len(spans) : To(i)' = To(i) /\ Between(i)' = Between(i)
  <1>1. PICK s : s = [from |-> Start, to |-> Start + HeaderSize + Size,
                      rec |-> Cardinality(Ends) + 1, last |-> Ended,
                      at |-> pos, len |-> Size, size |-> body]
    OBVIOUS
  <1>2. /\ s.from = Start /\ s.to = Start + HeaderSize + Size /\ s.last = Ended /\ s.len = Size
        /\ s.at = pos /\ s.size = body /\ s.rec = Cardinality(Ends) + 1
    BY <1>1
  <1>3. s \in Spans
    <2>1. /\ Size \in Nat /\ Start \in Nat /\ Ended \in BOOLEAN
          /\ Cardinality(Ends) \in Nat /\ body \in Nat /\ pos \in Nat
      BY SizeFits, EndsCounted DEF Segment
    <2> QED
      BY <1>1, <2>1, PageConstants DEF Spans
  <1>4. spans' = Append(spans, s)
    BY <1>1, FragmentState
  <1>5. spans \in Seq(Spans) /\ Len(spans) \in Nat
    BY SpanTypes DEF Segment
  <1>6. /\ Len(spans') = Len(spans) + 1
        /\ \A i \in 1..Len(spans) : spans'[i] = spans[i]
        /\ spans'[Len(spans) + 1] = s
    BY <1>3, <1>4, <1>5, AppendProperties
  <1>7. \A i \in 0..Len(spans) : To(i)' = To(i) /\ Between(i)' = Between(i)
    BY <1>5, <1>6 DEF To, Between
  <1> QED
    BY <1>2, <1>3, <1>6, <1>7

LEMMA NewStart ==
    ASSUME Segment, FileEnd, phase = "framing"
    PROVE  /\ Start \in {To(Len(spans)), PageEnd(To(Len(spans)))}
           /\ To(Len(spans)) <= Len(buf) /\ Len(buf) <= Start
  <1> DEFINE L == Len(buf)
             t == To(Len(spans))
  <1>1. /\ L \in Nat /\ t \in Nat /\ Pad(L) \in Nat /\ Start = L + Pad(L)
        /\ Pad(L) # 0 => L % PageSize # 0 /\ Start = L + PageSize - (L % PageSize)
    <2>1. /\ L \in Nat /\ Pad(L) \in 0..HeaderSize - 1
          /\ Pad(L) # 0 => L % PageSize # 0 /\ Start = L + PageSize - (L % PageSize)
      BY SizeFits, Zenon
    <2>2. Pad(L) \in Nat
      BY <2>1, PageConstants
    <2> QED
      BY <2>1, <2>2, SpanTypes DEF Start
  <1>2. L \in {t, PageEnd(t)}
    BY DEF FileEnd
  <1>3. PageEnd(t) % PageSize = 0 /\ t <= PageEnd(t) /\ PageEnd(t) \in Nat
    BY <1>1, PageEndFacts
  <1>4. t <= L /\ L <= Start
    <2>1. t <= L
      BY <1>1, <1>2, <1>3
    <2> QED
      BY <1>1, <2>1
  <1>5. CASE Pad(L) = 0
    <2>1. Start = L
      BY <1>1, <1>5
    <2> QED
      BY <1>2, <1>4, <2>1
  <1>6. CASE Pad(L) # 0
    <2>1. L % PageSize # 0 /\ Start = L + PageSize - (L % PageSize)
      BY <1>1, <1>6
    <2>2. L = t
      BY <1>2, <1>3, <2>1
    <2>3. Start = PageEnd(t)
      BY <2>1, <2>2, Zenon DEF PageEnd
    <2> QED
      BY <1>4, <2>3
  <1> QED
    BY <1>5, <1>6

LEMMA FragmentSpans ==
    ASSUME PageLayout, Fragment
    PROVE  SpansInPages'
  <1> DEFINE n == Len(spans)
             r == Start % PageSize
  <1>1. Segment /\ Segment' /\ SpansInPages /\ FileEnd /\ phase = "framing"
    BY FragmentSegment, FragmentState DEF PageLayout
  <1>2. /\ Len(spans') = n + 1
        /\ \A i \in 1..n : spans'[i] = spans[i]
        /\ spans'[n + 1].from = Start /\ spans'[n + 1].to = Start + HeaderSize + Size
        /\ spans'[n + 1].len = Size
        /\ \A i \in 0..n : To(i)' = To(i)
    BY <1>1, NewSpan
  <1>3. n \in Nat /\ DOMAIN spans = 1..n /\ DOMAIN spans' = 1..n + 1
    BY <1>1, <1>2, SpanTypes, LenProperties DEF Segment
  <1>4. r + HeaderSize + Size <= PageSize
    <2>1. r + HeaderSize + page_room(Start) = PageSize /\ Size <= page_room(Start)
          /\ page_room(Start) \in Nat /\ Size \in Nat /\ Start \in Nat
      BY <1>1, SizeFits
    <2>2. r \in Nat
      BY <2>1, DivMod
    <2> HIDE DEF r
    <2> QED
      BY <2>1, <2>2, PageConstants
  <1>5. Start \in {To(n), PageEnd(To(n))} /\ To(n) <= Start
    <2>1. Start \in Nat /\ Len(buf) \in Nat /\ To(n) \in Nat
      BY <1>1, <1>3, SizeFits, SpanTypes
    <2> QED
      BY <1>1, <2>1, NewStart
  <1>6. ASSUME NEW i \in 1..n + 1
        PROVE  /\ spans'[i].to = spans'[i].from + HeaderSize + spans'[i].len
               /\ (spans'[i].from % PageSize) + HeaderSize + spans'[i].len <= PageSize
               /\ spans'[i].from \in {To(i - 1)', PageEnd(To(i - 1))'}
    <2>1. CASE i \in 1..n
      <3>1. /\ spans[i].to = spans[i].from + HeaderSize + spans[i].len
            /\ (spans[i].from % PageSize) + HeaderSize + spans[i].len <= PageSize
            /\ spans[i].from \in {To(i - 1), PageEnd(To(i - 1))}
        BY <1>1, <1>3, <2>1, Zenon DEF SpansInPages
      <3>2. To(i - 1)' = To(i - 1)
        BY <1>2, <1>3, <2>1
      <3>3. PageEnd(To(i - 1))' = PageEnd(To(i - 1))
        BY <3>2, Zenon DEF PageEnd
      <3>4. spans'[i] = spans[i]
        BY <1>2, <2>1
      <3> QED
        BY <3>1, <3>2, <3>3, <3>4, Zenon
    <2>2. CASE i = n + 1
      <3>1. i - 1 = n
        BY <1>3, <2>2
      <3>2. To(i - 1)' = To(n)
        <4>1. n \in 0..n
          BY <1>3
        <4>2. \A m \in 0..n : m = n => To(m)' = To(n)
          BY <1>2
        <4>3. i - 1 \in 0..n
          BY <1>3, <3>1
        <4> QED
          BY <3>1, <4>2, <4>3
      <3>3. PageEnd(To(i - 1))' = PageEnd(To(n))
        BY <3>2, Zenon DEF PageEnd
      <3> QED
        BY <1>2, <1>4, <1>5, <2>2, <3>2, <3>3, Zenon
    <2> QED
      BY <1>3, <2>1, <2>2
  <1>7. ASSUME NEW i \in 1..n + 1, NEW j \in 1..n + 1, i < j
        PROVE  spans'[i].to <= spans'[j].from
    <2>1. i \in 1..n
      BY <1>3, <1>7
    <2>2. spans'[i] = spans[i]
      BY <1>2, <2>1
    <2>3. CASE j \in 1..n
      <3>1. spans'[j] = spans[j] /\ spans[i].to <= spans[j].from
        BY <1>1, <1>2, <1>3, <1>7, <2>1, <2>3, Zenon DEF SpansInPages
      <3> QED
        BY <2>2, <3>1
    <2>4. CASE j = n + 1
      <3>1. spans[i].to <= To(n) /\ spans[i].to \in Nat /\ To(n) \in Nat
        BY <1>1, <1>3, <2>1, SpansOrdered, SpanTypes
      <3>2. Start \in Nat
        BY <1>1, SizeFits
      <3> QED
        BY <1>2, <1>5, <2>2, <2>4, <3>1, <3>2
    <2> QED
      BY <1>3, <2>3, <2>4
  <1> QED
    BY <1>3, <1>6, <1>7, Zenon DEF SpansInPages

(* A fragment that ends a record adds one to the records written. *)
LEMMA NewEnds ==
    ASSUME Segment, Segment', Fragment
    PROVE  /\ IsFiniteSet(Ends) /\ Cardinality(Ends) \in Nat
           /\ Ends \subseteq 1..Len(spans) /\ Ends \subseteq Ends'
           /\ Ended => Ends' = Ends \cup {Len(spans) + 1} /\ Cardinality(Ends') = Cardinality(Ends) + 1
           /\ ~Ended => Ends' = Ends
  <1>0. PICK n : n = Len(spans)
    OBVIOUS
  <1> USE <1>0
  <1>1. /\ Len(spans') = n + 1 /\ spans'[n + 1].last = Ended
        /\ \A i \in 1..n : spans'[i] = spans[i]
    BY NewSpan
  <1>2. n \in Nat /\ DOMAIN spans = 1..n /\ DOMAIN spans' = 1..n + 1 /\ Ended \in BOOLEAN
    BY <1>1, SpanTypes, LenProperties, SizeFits DEF Segment
  <1>3. Ends \subseteq 1..n /\ Ends' \subseteq 1..n + 1
    BY <1>2 DEF Ends
  <1>4. /\ \A i \in 1..n + 1 : i \in 1..n \/ i = n + 1
        /\ n + 1 \notin 1..n /\ n + 1 \in 1..n + 1 /\ 1..n \subseteq 1..n + 1
    BY <1>2
  <1>5. \A i \in 1..n : i \in Ends' <=> i \in Ends
    BY <1>1, <1>2, <1>4 DEF Ends
  <1>6. n + 1 \in Ends' <=> Ended
    BY <1>1, <1>2, <1>4 DEF Ends
  <1>7. IsFiniteSet(Ends) /\ Cardinality(Ends) \in Nat
    <2>1. IsFiniteSet(1..n)
      BY <1>2, FS_Interval
    <2>2. IsFiniteSet(Ends)
      BY <1>3, <2>1, FS_Subset
    <2> QED
      BY <2>2, FS_CardinalityType
  <1>8. Ended => Ends' = Ends \cup {n + 1}
    BY <1>3, <1>4, <1>5, <1>6
  <1>9. ~Ended => Ends' = Ends
    BY <1>3, <1>4, <1>5, <1>6
  <1>10. Ended => Cardinality(Ends') = Cardinality(Ends) + 1
    <2>1. n + 1 \notin Ends
      BY <1>3, <1>4
    <2> QED
      BY <1>7, <1>8, <2>1, FS_AddElement
  <1> QED
    BY <1>3, <1>5, <1>7, <1>8, <1>9, <1>10

(* The new fragment goes on with the record of the last one, or begins one. *)
LEMMA FragmentRecords ==
    ASSUME PageLayout, Fragment
    PROVE  SpansOfRecords'
  <1>0. PICK n : n = Len(spans)
    OBVIOUS
  <1> USE <1>0
  <1>1. /\ Segment /\ Segment' /\ SpansOfRecords /\ WriterInPlace /\ phase = "framing"
    BY FragmentSegment, FragmentState DEF PageLayout
  <1>2. /\ Len(spans') = n + 1
        /\ \A i \in 1..n : spans'[i] = spans[i]
        /\ spans'[n + 1].last = Ended /\ spans'[n + 1].len = Size
        /\ spans'[n + 1].at = pos /\ spans'[n + 1].size = body
        /\ spans'[n + 1].rec = Cardinality(Ends) + 1
        /\ \A i \in 0..n : Between(i)' = Between(i)
    BY <1>1, NewSpan
  <1>3. n \in Nat /\ DOMAIN spans = 1..n /\ DOMAIN spans' = 1..n + 1
    BY <1>1, <1>2, SpanTypes, LenProperties DEF Segment
  <1>4. ASSUME NEW i \in 1..n + 1
        PROVE  (Ends \cap 1..i - 1)' = Ends \cap 1..i - 1
    <2>1. \A j \in 1..i - 1 : j \in 1..n /\ j \in 1..n + 1
      BY <1>3
    <2>2. \A j \in 1..i - 1 : j \in Ends' <=> j \in Ends
      BY <1>2, <1>3, <2>1 DEF Ends
    <2> QED
      BY <2>2
  <1>5. ASSUME NEW i \in 1..n
        PROVE  /\ spans'[i].rec = Cardinality(Ends \cap 1..i - 1)' + 1
               /\ spans'[i].at = IF Between(i - 1)' THEN 0 ELSE spans'[i - 1].at + spans'[i - 1].len
               /\ ~Between(i - 1)' => spans'[i].size = spans'[i - 1].size
               /\ spans'[i].at + spans'[i].len <= spans'[i].size
               /\ spans'[i].last <=> spans'[i].at + spans'[i].len = spans'[i].size
    <2>1. /\ spans[i].rec = Cardinality(Ends \cap 1..i - 1) + 1
          /\ spans[i].at = IF Between(i - 1) THEN 0 ELSE spans[i - 1].at + spans[i - 1].len
          /\ ~Between(i - 1) => spans[i].size = spans[i - 1].size
          /\ spans[i].at + spans[i].len <= spans[i].size
          /\ spans[i].last <=> spans[i].at + spans[i].len = spans[i].size
      BY <1>1, <1>3, Zenon DEF SpansOfRecords
    <2>2. i - 1 \in 0..n /\ i \in 1..n + 1
      BY <1>3
    <2>3. Between(i - 1)' = Between(i - 1)
      BY <1>2, <2>2
    <2>4. ~Between(i - 1) => i - 1 \in 1..n
      BY <1>3, <2>2 DEF Between
    <2>5. ~Between(i - 1) => spans'[i - 1] = spans[i - 1]
      BY <1>2, <2>4
    <2>6. spans'[i] = spans[i]
      BY <1>2
    <2>7. (Ends \cap 1..i - 1)' = Ends \cap 1..i - 1
      BY <1>4, <2>2
    <2> QED
      BY <2>1, <2>3, <2>5, <2>6, <2>7, Zenon
  <1>6. ASSUME NEW i, i = n + 1
        PROVE  /\ spans'[i].rec = Cardinality(Ends \cap 1..i - 1)' + 1
               /\ spans'[i].at = IF Between(i - 1)' THEN 0 ELSE spans'[i - 1].at + spans'[i - 1].len
               /\ ~Between(i - 1)' => spans'[i].size = spans'[i - 1].size
               /\ spans'[i].at + spans'[i].len <= spans'[i].size
               /\ spans'[i].last <=> spans'[i].at + spans'[i].len = spans'[i].size
    <2>1. i - 1 = n /\ i - 1 \in 0..n /\ i \in 1..n + 1
      BY <1>3, <1>6
    <2>2. (Ends \cap 1..i - 1)' = Ends
      <3>1. Ends \subseteq 1..n
        BY <1>3 DEF Ends
      <3> QED
        BY <1>4, <2>1, <3>1
    <2>3. Between(i - 1)' = Between(n)
      BY <1>2, <2>1
    <2>4. ~Between(n) => spans'[n] = spans[n]
      <3>1. ~Between(n) => n \in 1..n
        BY <1>3 DEF Between
      <3> QED
        BY <1>2, <3>1
    <2>5. IF Between(n) THEN pos = 0 ELSE pos = spans[n].at + spans[n].len /\ body = spans[n].size
      BY <1>1, Zenon DEF WriterInPlace
    <2>6. pos + Size <= body /\ (Ended <=> pos + Size = body)
      BY <1>1, SizeFits DEF Ended
    <2> QED
      BY <1>2, <1>6, <2>1, <2>2, <2>3, <2>4, <2>5, <2>6, Zenon
  <1>7. \A i \in 1..n + 1 : i \in 1..n \/ i = n + 1
    BY <1>3
  <1>8. \A r \in 1..Cardinality(Ends') : \E i \in Ends' : spans'[i].rec = r
    <2> SUFFICES ASSUME NEW r \in 1..Cardinality(Ends')
                 PROVE  \E i \in Ends' : spans'[i].rec = r
      OBVIOUS
    <2>1. /\ Cardinality(Ends) \in Nat /\ Ends \subseteq 1..n /\ Ends \subseteq Ends'
          /\ Ended => Ends' = Ends \cup {n + 1} /\ Cardinality(Ends') = Cardinality(Ends) + 1
          /\ ~Ended => Ends' = Ends
      BY <1>1, NewEnds
    <2>2. \A i \in Ends : i \in Ends' /\ spans'[i] = spans[i]
      BY <1>2, <2>1
    <2>3. CASE r \in 1..Cardinality(Ends)
      <3>1. PICK i \in Ends : spans[i].rec = r
        BY <1>1, <2>3 DEF SpansOfRecords
      <3> QED
        BY <2>2, <3>1
    <2>4. CASE r \notin 1..Cardinality(Ends)
      <3>1. Ended
        BY <2>1, <2>4
      <3>2. n + 1 \in Ends' /\ Cardinality(Ends') = Cardinality(Ends) + 1
        BY <2>1, <3>1
      <3>4. r = Cardinality(Ends) + 1
        BY <2>1, <2>4, <3>2
      <3> QED
        BY <1>2, <3>2, <3>4
    <2> QED
      BY <2>3, <2>4
  <1> QED
    BY <1>3, <1>5, <1>6, <1>7, <1>8, Zenon DEF SpansOfRecords

(* The bytes of the file with one more fragment. *)
LEMMA FragmentInPlace ==
    ASSUME PageLayout, Fragment
    PROVE  BytesInPlace'
  <1> DEFINE L == Len(buf)
             M == Len(buf')
  <1>0. PICK n : n = Len(spans)
    OBVIOUS
  <1> USE <1>0
  <1>1. /\ Segment /\ Segment' /\ SpansInPages /\ FileEnd /\ BytesInPlace /\ WriterInPlace
        /\ phase = "framing" /\ bad = 0 /\ bad' = 0
    BY FragmentSegment, FragmentState DEF PageLayout
  <1>2. /\ Len(spans') = n + 1
        /\ \A i \in 1..n : spans'[i] = spans[i]
        /\ spans'[n + 1].from = Start /\ spans'[n + 1].last = Ended
        /\ spans'[n + 1].len = Size /\ spans'[n + 1].to = Start + HeaderSize + Size
        /\ spans'[n + 1].at = pos /\ spans'[n + 1].size = body
        /\ spans'[n + 1].rec = Cardinality(Ends) + 1
        /\ \A i \in 0..n : To(i)' = To(i) /\ Between(i)' = Between(i)
    BY <1>1, NewSpan
  <1>3. n \in Nat /\ DOMAIN spans = 1..n /\ DOMAIN spans' = 1..n + 1
        /\ \A i \in 0..n : To(i) \in Nat
    BY <1>1, <1>2, SpanTypes, LenProperties DEF Segment
  <1>4. /\ M = Start + HeaderSize + Size
        /\ \A j \in 1..L : buf'[j] = buf[j]
        /\ \A j \in L + 1..Start : buf'[j] = Zero
        /\ buf'[Start + 1] = First
        /\ \A j \in 2..HeaderSize : buf'[Start + j] = LenAndCrc(First)
        /\ \A j \in 1..Size : buf'[Start + HeaderSize + j] = Frag[j]
        /\ Len(Frag) = Size
    BY <1>1, FragmentBytes
  <1>5. /\ L \in Nat /\ Start \in Nat /\ Size \in Nat /\ M \in Nat /\ L < M /\ Start < M
        /\ To(n) <= L /\ L <= Start
    <2>1. L \in Nat /\ Start \in Nat /\ Size \in Nat /\ To(n) <= L /\ L <= Start
      BY <1>1, SizeFits, NewStart
    <2> QED
      BY <1>4, <2>1, PageConstants
  <1>55. Intact = L /\ Intact' = M
    BY <1>1 DEF Intact
  <1>6. ASSUME NEW i \in 1..n
        PROVE  FragmentAt(buf', M, spans'[i]) /\ TypeAt(i)'
    <2> DEFINE s == spans[i]
    <2>1. s \in Spans /\ spans'[i] = s
      BY <1>1, <1>2, ElementOfSeq DEF Segment
    <2>2. s.to = s.from + HeaderSize + s.len /\ s.to <= To(n) /\ s.from \in Nat /\ s.to \in Nat
      BY <1>1, <1>3, SpanTypes, SpansOrdered
    <2>3. FragmentAt(buf, L, s) /\ TypeAt(i)
      BY <1>1, <1>3, <1>55 DEF BytesInPlace
    <2>4. \A j \in s.from + 1..s.to : j <= M => j <= L /\ buf'[j] = buf[j]
      <3>1. \A j \in s.from + 1..s.to : j \in 1..L
        <4> HIDE DEF s
        <4>1. n \in 0..n
          BY <1>3
        <4>2. To(n) \in Nat
          BY <1>3, <4>1
        <4> QED
          BY <1>5, <2>2, <4>2
      <3> QED
        BY <1>4, <1>5, <3>1
    <2>5. i - 1 \in 0..n /\ 1..i - 1 \subseteq 1..n
      BY <1>3
    <2>6. Between(i - 1)' = Between(i - 1) /\ \A j \in 1..i - 1 : spans'[j] = spans[j]
      BY <1>2, <2>5
    <2> HIDE DEF s
    <2>7. /\ FragmentAt(buf', M, s)
          /\ s.from < M => s.from < L /\ buf'[s.from + 1] = buf[s.from + 1]
      <3>1. PICK w : w = buf
        OBVIOUS
      <3>2. PICK x : x = buf'
        OBVIOUS
      <3>3. PICK c \in Nat : c = L
        BY <1>5
      <3>4. PICK d \in Nat : d = M
        BY <1>5
      <3>5. s.to = s.from + HeaderSize + s.len /\ FragmentAt(w, c, s)
        BY <2>2, <2>3, <3>1, <3>3
      <3>6. \A j \in s.from + 1..s.to : j <= d => j <= c /\ x[j] = w[j]
        BY <2>4, <3>1, <3>2, <3>3, <3>4, Zenon
      <3>7. /\ FragmentAt(x, d, s)
            /\ s.from < d => s.from < c /\ x[s.from + 1] = w[s.from + 1]
        BY <2>1, <3>5, <3>6, FragmentKept, ZenonT(30)
      <3> QED
        BY <3>1, <3>2, <3>3, <3>4, <3>7, Zenon
    <2>8. TypeAt(i)'
      BY <1>55, <2>1, <2>3, <2>6, <2>7, Zenon DEF TypeAt, s
    <2> QED
      BY <2>1, <2>7, <2>8
  <1>7. FragmentAt(buf', M, spans'[n + 1])
    <2>1. First.k = "hdr" /\ First.len = Size /\ First.crc = Frag /\ First.type \in RecTypes
      BY <1>4 DEF First, HeaderByte, FragmentType, RecTypes
    <2>3. PICK s : s = spans'[n + 1]
      OBVIOUS
    <2>4. s.from = Start /\ s.len = Size
      BY <1>2, <2>3
    <2>2. Piece(s) = Frag
      BY <1>2, <2>3, Zenon DEF Piece, Frag
    <2>5. FragmentAt(buf', M, s)
      BY <1>4, <2>1, <2>2, <2>4, Zenon DEF FragmentAt
    <2> QED
      BY <2>3, <2>5
  <1>8. ASSUME NEW i, i = n + 1
        PROVE  TypeAt(i)'
    <2> DEFINE m == i - 1
    <2>1. SUFFICES ASSUME \A j \in 1..m : ~ZeroFirst(spans'[j])
                   PROVE  buf'[spans'[i].from + 1].type =
                            FragmentType(Between(m)', spans'[i].last)
      BY Zenon DEF TypeAt
    <2>2. \A j \in DOMAIN spans : ~ZeroFirst(spans[j])
      <3>1. m = n
        BY <1>3, <1>8
      <3> QED
        BY <1>2, <1>3, <2>1, <3>1
    <2>3. pos = 0 <=> Between(n)
      BY <1>1, <2>2 DEF WriterInPlace
    <2>4. Between(m)' = Between(n)
      <3>1. m = n /\ m \in 0..n
        BY <1>3, <1>8
      <3> HIDE DEF m
      <3> QED
        BY <1>2, <3>1
    <2>5. First.type = FragmentType(pos = 0, Ended)
      BY DEF First, HeaderByte
    <2>6. FragmentType(pos = 0, Ended) = FragmentType(Between(n), Ended)
      BY <2>3 DEF FragmentType
    <2> QED
      BY <1>2, <1>4, <1>8, <2>4, <2>5, <2>6
  <1>9. ASSUME NEW i \in 0..n + 1, NEW j \in To(i)' + 1..M, i < n + 1 => j <= spans'[i + 1].from
        PROVE  buf'[j] = Zero
    <2>1. CASE i = n + 1
      <3>1. To(i)' = M
        BY <1>2, <1>3, <1>4, <2>1 DEF To
      <3> QED
        BY <1>5, <3>1
    <2>2. CASE i \in 0..n
      <3>1. To(i)' = To(i) /\ j <= spans'[i + 1].from
        BY <1>2, <1>3, <1>9, <2>2
      <3>2. CASE j <= L
        <4>1. j \in To(i) + 1..L /\ j \in 1..L
          BY <1>3, <1>5, <2>2, <3>1, <3>2
        <4>2. i < n => j <= spans[i + 1].from
          BY <1>2, <1>3, <2>2, <3>1
        <4>3. buf[j] = Zero
          BY <1>1, <1>55, <2>2, <4>1, <4>2, Zenon DEF BytesInPlace
        <4> QED
          BY <1>4, <4>1, <4>3
      <3>3. CASE ~(j <= L)
        <4>1. spans'[i + 1].from <= Start
          <5>1. CASE i = n
            BY <1>2, <1>5, <5>1
          <5>2. CASE i < n
            <6>1. i + 1 \in 1..n
              BY <1>3, <2>2, <5>2
            <6>2. spans[i + 1].from < spans[i + 1].to /\ spans[i + 1].to = To(i + 1)
                  /\ To(i + 1) <= To(n) /\ spans[i + 1].from \in Nat
              BY <1>1, <1>3, <6>1, SpansOrdered, SpanTypes
            <6>3. spans'[i + 1] = spans[i + 1]
              BY <1>2, <6>1
            <6> QED
              BY <1>3, <1>5, <6>1, <6>2, <6>3
          <5>3. i = n \/ i < n
            BY <1>3, <2>2
          <5> QED
            BY <5>1, <5>2, <5>3
        <4>2. spans'[i + 1].from \in Nat
          <5>1. i + 1 \in 1..n + 1
            BY <1>3, <2>2
          <5>2. spans'[i + 1] \in Spans
            BY <1>1, <1>2, <5>1, ElementOfSeq DEF Segment
          <5> QED
            BY <5>2 DEF Spans
        <4>3. j \in L + 1..Start
          BY <1>3, <1>5, <2>2, <3>1, <3>3, <4>1, <4>2
        <4> QED
          BY <1>4, <4>3
      <3> QED
        BY <3>2, <3>3
    <2> QED
      BY <1>3, <2>1, <2>2
  <1>10. \A i \in 1..n + 1 : FragmentAt(buf', M, spans'[i]) /\ TypeAt(i)'
    <2>1. \A i \in 1..n + 1 : i \in 1..n \/ i = n + 1
      BY <1>3
    <2> QED
      BY <1>6, <1>7, <1>8, <2>1, Zenon
  <1>11. bad' <= Len(buf')
    BY <1>1, <1>5
  <1> QED
    BY <1>2, <1>3, <1>55, <1>9, <1>10, <1>11, Zenon DEF BytesInPlace

LEMMA FragmentLayout ==
    ASSUME PageLayout, Fragment
    PROVE  PageLayout'
  <1>1. /\ Segment /\ Segment' /\ bad = 0 /\ offset = 0 /\ open = FALSE
        /\ record = <<>> /\ returned = <<>>
        /\ UNCHANGED <<bad, offset, open, record, returned>>
        /\ phase' = IF Ended THEN "idle" ELSE "framing"
        /\ pos' = IF Ended THEN 0 ELSE pos + Size
        /\ body' = IF Ended THEN 0 ELSE body
    BY FragmentSegment, FragmentState DEF PageLayout, read
  <1>2. SpansInPages' /\ SpansOfRecords' /\ BytesInPlace'
    BY FragmentSpans, FragmentRecords, FragmentInPlace
  <1>3. PICK m \in Nat : m = Len(spans) + 1
    BY <1>1, SpanTypes
  <1>4. /\ Len(spans') = m /\ m # 0 /\ m \in DOMAIN spans'
        /\ spans'[m].to = Start + HeaderSize + Size
        /\ spans'[m].last = Ended /\ spans'[m].len = Size
        /\ spans'[m].at = pos /\ spans'[m].size = body
    <2>1. /\ Len(spans') = m
          /\ spans'[m].to = Start + HeaderSize + Size
          /\ spans'[m].last = Ended /\ spans'[m].len = Size
          /\ spans'[m].at = pos /\ spans'[m].size = body
      BY <1>1, <1>3, NewSpan
    <2>2. m # 0 /\ m \in 1..m
      BY <1>1, <1>3, SpanTypes
    <2>3. DOMAIN spans' = 1..Len(spans')
      BY <1>1, LenProperties DEF Segment
    <2> QED
      BY <2>1, <2>2, <2>3
  <1>5. FileEnd'
    <2>1. Len(buf') = Start + HeaderSize + Size
      BY <1>1, FragmentBytes
    <2>2. Len(buf') = To(m)'
      BY <1>4, <2>1 DEF To
    <2>3. phase' \in {"idle", "framing"}
      BY <1>1
    <2> QED
      BY <1>4, <2>2, <2>3, Zenon DEF FileEnd
  <1>6. WriterInPlace'
    <2>1. Between(m)' = Ended
      BY <1>1, <1>4, SizeFits DEF Between
    <2>2. CASE Ended
      BY <1>1, <1>4, <2>1, <2>2 DEF WriterInPlace
    <2>3. CASE ~Ended
      <3>1. Size \in Nat /\ pos \in Nat /\ pos + Size < body
        BY <1>1, <2>3, SizeFits DEF Segment
      <3>2. (\A i \in DOMAIN spans' : ~ZeroFirst(spans'[i])) => pos' # 0
        BY <1>1, <1>4, <2>3, <3>1 DEF ZeroFirst
      <3>3. phase' = "framing" /\ pos' = pos + Size /\ body' = body
        BY <1>1, <2>3
      <3>4. ~Between(Len(spans))'
        BY <1>4, <2>1, <2>3
      <3>5. (IF Between(Len(spans)) THEN pos = 0
             ELSE /\ pos = spans[Len(spans)].at + spans[Len(spans)].len
                  /\ body = spans[Len(spans)].size
                  /\ pos < body)'
        BY <1>4, <3>1, <3>3, <3>4, Zenon
      <3> QED
        BY <3>2, <3>3, <3>4, <3>5, Zenon DEF WriterInPlace
    <2> QED
      BY <2>2, <2>3
  <1>7. ReaderInPlace' /\ Verdict'
    BY <1>1 DEF ReaderInPlace, Verdict
  <1> QED
    BY <1>1, <1>2, <1>5, <1>6, <1>7 DEF PageLayout

-----------------------------------------------------------------------------
(* The reader.                                                             *)

(* Nothing that next() does changes the file. *)
LEMMA ReaderLayout ==
    ASSUME PageLayout, phase = "reading", phase' \in {"reading", "done"}, UNCHANGED written,
           ReaderInPlace', Verdict'
    PROVE  PageLayout'
  <1>1. UNCHANGED <<buf, body, pos, base, spans, bad>>
    BY DEF written
  <1>2. Segment /\ SpansInPages /\ SpansOfRecords /\ FileEnd /\ BytesInPlace
    BY DEF PageLayout
  <1>3. Segment'
    BY <1>1, <1>2 DEF Segment
  <1>4. SpansInPages' /\ SpansOfRecords' /\ \A i : To(i)' = To(i)
    BY <1>1, <1>2, SpansStay
  <1>5. FileEnd'
    <2>1. To(Len(spans))' = To(Len(spans))
      BY <1>1 DEF To
    <2>2. PageEnd(To(Len(spans)))' = PageEnd(To(Len(spans)))
      BY <2>1, Zenon DEF PageEnd
    <2> QED
      BY <1>1, <1>2, <2>2 DEF FileEnd
  <1>6. BytesInPlace'
    <2>1. Intact' = Intact /\ Intact \in Nat /\ bad' <= Len(buf')
      BY <1>1, <1>2, IntactFits DEF Intact, BytesInPlace
    <2> QED
      BY <1>1, <1>2, <1>3, <2>1, BytesStay
  <1>7. WriterInPlace'
    BY DEF WriterInPlace
  <1> QED
    BY <1>3, <1>4, <1>5, <1>6, <1>7 DEF PageLayout

(* next() has read k fragments of a file, none of them empty without being a  *)
(* record's last, and no byte up to the end of the next fragment went bad.    *)
Reading(k) ==
    /\ PageLayout /\ phase = "reading"
    /\ k \in 0..Len(spans) /\ ReadUpTo(k)
    /\ \A i \in 1..k : ~ZeroFirst(spans[i])
    /\ bad = 0 \/ (k < Len(spans) /\ spans[k + 1].to < bad)

LEMMA ReadingUndamaged ==
    ASSUME PageLayout, phase = "reading", bad = 0, NoZeroFirst, NEW k \in 0..Len(spans), ReadUpTo(k)
    PROVE  Reading(k)
  <1>1. 1..k \subseteq DOMAIN spans
    BY SpanTypes DEF PageLayout
  <1> QED
    BY <1>1 DEF Reading, NoZeroFirst

(* The bytes before the reader, up to the end of the next fragment. *)
LEMMA IntactAhead ==
    ASSUME NEW k, Reading(k)
    PROVE  /\ Intact \in Nat /\ Intact <= Len(buf)
           /\ bad # 0 => k < Len(spans)
           /\ k < Len(spans) => \A j \in Nat : j <= Len(buf) /\ j <= spans[k + 1].to => j <= Intact
  <1>1. Segment /\ bad <= Len(buf)
    BY DEF Reading, PageLayout, BytesInPlace
  <1>2. Intact \in Nat /\ Intact <= Len(buf) /\ (bad = 0 => Intact = Len(buf))
    BY <1>1, IntactFits
  <1>3. bad \in Nat /\ Len(spans) \in Nat /\ k \in 0..Len(spans)
    BY <1>1, SpanTypes DEF Segment, Reading
  <1>4. bad # 0 => k < Len(spans) /\ spans[k + 1].to < bad
    BY DEF Reading
  <1>5. k < Len(spans) => spans[k + 1].to \in Nat
    BY <1>1, <1>3, SpanTypes
  <1>6. bad # 0 => Intact = bad - 1
    BY DEF Intact
  <1> QED
    BY <1>2, <1>3, <1>4, <1>5, <1>6

(* What lies behind the reader, and what before it. *)
LEMMA ReadingFacts ==
    ASSUME NEW k, Reading(k)
    PROVE  /\ Len(buf) \in Nat /\ Len(spans) \in Nat /\ k \in Nat /\ offset \in Nat
           /\ To(k) \in Nat /\ To(k) <= offset /\ offset <= Len(buf)
           /\ open = ~Between(k) /\ Between(k) \in BOOLEAN
           /\ \A i \in DOMAIN spans :
                /\ i \in Nat /\ spans[i].from \in Nat /\ spans[i].to \in Nat
                /\ spans[i].from < spans[i].to
                /\ i <= k => spans[i].to <= To(k)
                /\ i > k => offset <= spans[i].from
  <1>1. Segment /\ SpansInPages /\ ReadUpTo(k) /\ k \in 0..Len(spans)
    BY DEF Reading, PageLayout
  <1>2. /\ Len(buf) \in Nat /\ Len(spans) \in Nat /\ k \in Nat /\ To(k) \in Nat
        /\ DOMAIN spans = 1..Len(spans)
        /\ \A i \in 1..Len(spans) : spans[i].from \in Nat /\ spans[i].to \in Nat
    BY <1>1, SpanTypes
  <1>3. To(k) <= offset /\ offset <= Len(buf) /\ open = ~Between(k)
    BY <1>1 DEF ReadUpTo
  <1>4. Between(k) \in BOOLEAN
    <2>1. k # 0 => spans[k].last \in BOOLEAN
      BY <1>1, SpanTypes
    <2> QED
      BY <2>1 DEF Between
  <1>5. offset \in Nat
    BY <1>1, <1>2 DEF ReadUpTo
  <1>6. ASSUME NEW i \in 1..Len(spans)
        PROVE  /\ spans[i].from < spans[i].to
               /\ i <= k => spans[i].to <= To(k)
               /\ i > k => offset <= spans[i].from
    <2>1. /\ spans[i].from < spans[i].to /\ To(i) = spans[i].to
          /\ i <= k => To(i) <= To(k)
          /\ k < i => To(k) <= spans[i].from
      <3>1. i \in 0..Len(spans)
        BY <1>2
      <3> QED
        BY <1>1, <3>1, SpansOrdered
    <2>2. ASSUME k < i
          PROVE  offset <= spans[i].from
      <3>1. k + 1 \in 1..Len(spans) /\ k < Len(spans)
        BY <1>2, <2>2
      <3>2. spans[k + 1].from <= spans[i].from
        <4>1. CASE k + 1 = i
          BY <1>2, <4>1
        <4>2. CASE k + 1 < i
          <5>1. spans[k + 1].from < spans[k + 1].to
            BY <1>1, <3>1, SpansOrdered
          <5>2. spans[k + 1].to <= spans[i].from
            BY <1>1, <1>2, <3>1, <4>2, Zenon DEF SpansInPages
          <5> QED
            BY <1>2, <3>1, <5>1, <5>2
        <4> QED
          BY <1>2, <2>2, <4>1, <4>2
      <3>3. offset = To(k) \/ offset <= spans[k + 1].from
        <4>1. \/ offset = To(k)
              \/ offset = spans[k + 1].from
              \/ offset <= spans[k + 1].from
          BY <1>1, <3>1 DEF ReadUpTo
        <4> QED
          BY <1>2, <3>1, <4>1
      <3> QED
        BY <1>2, <1>5, <2>1, <2>2, <3>1, <3>2, <3>3
    <2> QED
      BY <1>2, <2>1, <2>2
  <1> QED
    BY <1>2, <1>3, <1>4, <1>5, <1>6

(* The reader is before a fragment, or before padding. *)
LEMMA PaddingAhead ==
    ASSUME NEW k, Reading(k), offset < Len(buf),
           ~(k < Len(spans) /\ offset = spans[k + 1].from)
    PROVE  /\ offset = To(k)
           /\ PaddingEnd \in Nat /\ offset < PaddingEnd /\ PaddingEnd <= Len(buf)
           /\ \/ k < Len(spans) /\ PaddingEnd = spans[k + 1].from
              \/ PaddingEnd = Len(buf) /\ (k < Len(spans) => Len(buf) <= spans[k + 1].from)
           /\ \A j \in offset + 1..PaddingEnd : buf[j] = Zero
  <1> DEFINE p == PageEnd(offset)
  <1>1. /\ Len(buf) \in Nat /\ Len(spans) \in Nat /\ k \in Nat /\ offset \in Nat
        /\ k \in 0..Len(spans)
    BY ReadingFacts DEF Reading
  <1>2. offset = To(k)
    BY <1>1 DEF Reading, ReadUpTo
  <1>3. Segment /\ SpansInPages /\ BytesInPlace /\ FileEnd /\ phase = "reading"
    BY DEF Reading, PageLayout
  <1>4. /\ p \in Nat /\ offset <= p
        /\ offset < p => p = offset + PageSize - (offset % PageSize)
    BY <1>1, PageEndFacts
  <1>5. k < Len(spans) => spans[k + 1].from = p /\ spans[k + 1].from \in Nat /\ offset < p
    <2> SUFFICES ASSUME k < Len(spans)
                 PROVE  spans[k + 1].from = p /\ spans[k + 1].from \in Nat /\ offset < p
      OBVIOUS
    <2>1. k + 1 \in 1..Len(spans) /\ (k + 1) - 1 = k
      BY <1>1
    <2>2. spans[k + 1].from \in {To((k + 1) - 1), PageEnd(To((k + 1) - 1))}
      BY <1>3, <2>1, SpanTypes, Zenon DEF SpansInPages
    <2>3. spans[k + 1].from \in Nat /\ spans[k + 1].from # offset
      BY <1>3, <2>1, SpanTypes
    <2>4. spans[k + 1].from = p
      BY <1>2, <2>1, <2>2, <2>3, Zenon
    <2> QED
      BY <1>1, <1>4, <2>3, <2>4
  <1>6. k = Len(spans) => Len(buf) <= p
    BY <1>2, <1>3 DEF FileEnd
  <1>7. offset < p
    BY <1>1, <1>4, <1>5, <1>6
  <1>8. PaddingEnd = Min2(p, Len(buf))
    BY <1>4, <1>7 DEF PaddingEnd
  <1> HIDE DEF p
  <1>9. /\ PaddingEnd \in Nat /\ offset < PaddingEnd /\ PaddingEnd <= Len(buf)
        /\ \/ PaddingEnd = p /\ k < Len(spans)
           \/ PaddingEnd = Len(buf) /\ Len(buf) <= p
        /\ PaddingEnd <= p
    BY <1>1, <1>4, <1>6, <1>7, <1>8 DEF Min2
  <1>10. \A j \in offset + 1..PaddingEnd : buf[j] = Zero
    <2> SUFFICES ASSUME NEW j \in offset + 1..PaddingEnd
                 PROVE  buf[j] = Zero
      OBVIOUS
    <2>1. j \in Nat /\ offset + 1 <= j /\ j <= Len(buf) /\ j <= p
      BY <1>1, <1>4, <1>9
    <2>2. k < Len(spans) => j <= spans[k + 1].from
      BY <1>5, <2>1
    <2>3. j <= Intact
      <3>1. CASE k < Len(spans)
        <4>1. k + 1 \in 1..Len(spans)
          BY <1>1, <3>1
        <4>2. spans[k + 1].from < spans[k + 1].to /\ spans[k + 1].from \in Nat /\ spans[k + 1].to \in Nat
          BY <1>3, <4>1, SpansOrdered, SpanTypes
        <4>3. j <= spans[k + 1].to
          BY <2>1, <2>2, <3>1, <4>2
        <4> QED
          BY <2>1, <3>1, <4>3, IntactAhead
      <3>2. CASE ~(k < Len(spans))
        <4>1. bad = 0
          BY <3>2, IntactAhead
        <4> QED
          BY <2>1, <4>1 DEF Intact
      <3> QED
        BY <3>1, <3>2
    <2>4. j \in To(k) + 1..Intact
      BY <1>1, <1>2, <2>1, <2>3, IntactAhead
    <2> QED
      BY <1>1, <1>3, <2>2, <2>4, Zenon DEF BytesInPlace
  <1> QED
    BY <1>1, <1>2, <1>5, <1>9, <1>10

(* The part of its record that a fragment carries is as long as the fragment says. *)
LEMMA PieceSeq ==
    ASSUME NEW s, s.size \in Nat, s.at \in Nat, s.len \in Nat, s.at + s.len <= s.size
    PROVE  Len(Piece(s)) = s.len /\ \E S : Piece(s) \in Seq(S)
  <1>1. PICK n \in Nat : n = s.size
    OBVIOUS
  <1>2. PICK p \in Nat : p = s.at
    OBVIOUS
  <1>3. PICK l \in Nat : l = s.len
    OBVIOUS
  <1>4. p + l <= n
    BY <1>1, <1>2, <1>3
  <1>5. PICK b : b = Body(s.rec, n)
    OBVIOUS
  <1>6. PICK q : q = SubSeq(b, p + 1, p + l)
    OBVIOUS
  <1>7. q = Piece(s)
    BY <1>1, <1>2, <1>3, <1>5, <1>6, Zenon DEF Piece
  <1>8. q \in Seq({b[j] : j \in 1..n}) /\ Len(q) = l
    BY <1>4, <1>5, <1>6, FragmentSeq
  <1> QED
    BY <1>3, <1>7, <1>8, Zenon

LEMMA HeaderAhead ==
    ASSUME NEW k, Reading(k), offset < Len(buf), k < Len(spans), offset = spans[k + 1].from
    PROVE  /\ k + 1 \in 1..Len(spans)
           /\ Hdr.k = "hdr" /\ Hdr.type \in RecTypes
           /\ Hdr.type = FragmentType(Between(k), spans[k + 1].last)
           /\ spans[k + 1].last \in BOOLEAN /\ spans[k + 1].to \in Nat
           /\ Begin + Hdr.len = spans[k + 1].to /\ Hdr.len \in Nat /\ Begin \in Nat
           /\ Hdr.len = spans[k + 1].len /\ Hdr.crc = Piece(spans[k + 1])
           /\ \A j \in offset + 2..Begin : j <= Len(buf) => buf[j] = LenAndCrc(Hdr)
           /\ Begin + Hdr.len <= Len(buf) => SubSeq(buf, Begin + 1, Begin + Hdr.len) = Hdr.crc
  <1> DEFINE s == spans[k + 1]
  <1>1. /\ Len(buf) \in Nat /\ Len(spans) \in Nat /\ k \in Nat /\ offset \in Nat
        /\ k + 1 \in 1..Len(spans) /\ (k + 1) - 1 = k
    BY ReadingFacts
  <1>2. Segment /\ SpansInPages /\ SpansOfRecords /\ BytesInPlace
    BY DEF Reading, PageLayout
  <1>3. s.last \in BOOLEAN /\ s.to \in Nat /\ s.from \in Nat /\ s.len \in Nat
        /\ s.to = s.from + HeaderSize + s.len /\ s.from < s.to
    BY <1>1, <1>2, SpanTypes, SpansOrdered
  <1>4. FragmentAt(buf, Intact, s) /\ TypeAt(k + 1)
    BY <1>1, <1>2, SpanTypes, Zenon DEF BytesInPlace
  <1>35. /\ Intact \in Nat /\ s.from < Intact
         /\ \A j \in Nat : j <= Len(buf) /\ j <= s.to => j <= Intact
    <2>1. Intact \in Nat /\ \A j \in Nat : j <= Len(buf) /\ j <= s.to => j <= Intact
      BY IntactAhead
    <2>2. offset + 1 <= Len(buf) /\ offset + 1 <= s.to /\ offset + 1 \in Nat /\ offset = s.from
      BY <1>1, <1>3
    <2>3. offset + 1 <= Intact
      BY <2>1, <2>2
    <2> QED
      BY <1>1, <2>1, <2>2, <2>3
  <1>5. Hdr.type = FragmentType(Between(k), s.last)
    <2>1. \A j \in 1..(k + 1) - 1 : ~ZeroFirst(spans[j])
      BY <1>1, Zenon DEF Reading
    <2> QED
      BY <1>1, <1>35, <1>4, <2>1, Zenon DEF TypeAt, Hdr
  <1> HIDE DEF s
  <1>6. PICK a \in Nat : a = s.from /\ a = offset
    BY <1>1 DEF s
  <1>7. PICK h : h = Hdr
    OBVIOUS
  <1>8. PICK l \in Nat : l = s.len
    BY <1>3
  <1>85. PICK q : q = Piece(s)
    OBVIOUS
  <1>9. /\ h.k = "hdr" /\ h.type \in RecTypes /\ h.len = l /\ h.crc = q
        /\ \A j \in 2..HeaderSize : a + j <= Intact => buf[a + j] = LenAndCrc(h)
        /\ \A j \in 1..l : a + HeaderSize + j <= Intact => buf[a + HeaderSize + j] = h.crc[j]
    BY <1>35, <1>4, <1>6, <1>7, <1>8, <1>85, Zenon DEF FragmentAt, Hdr
  <1>95. Len(q) = l /\ q \in Seq({q[j] : j \in DOMAIN q})
    <2>1. s.size \in Nat /\ s.at \in Nat /\ s.len \in Nat /\ s.at + s.len <= s.size
      BY <1>1, <1>2, SpanTypes DEF SpansOfRecords, s
    <2>2. Len(Piece(s)) = s.len /\ \E S : Piece(s) \in Seq(S)
      BY <2>1, PieceSeq
    <2>3. PICK S : q \in Seq(S)
      BY <1>85, <2>2
    <2>4. Len(q) = l
      BY <1>8, <1>85, <2>2
    <2> QED
      BY <2>3, <2>4, OwnElements
  <1>10. Begin = a + HeaderSize /\ Begin \in Nat /\ Begin + l = s.to /\ HeaderSize \in Nat
    <2>1. Begin = a + HeaderSize /\ s.to = a + HeaderSize + l
      BY <1>3, <1>6, <1>8, Zenon DEF Begin
    <2> QED
      BY <2>1, PageConstants
  <1>11. \A j \in offset + 2..Begin : j <= Len(buf) => buf[j] = LenAndCrc(h)
    <2> SUFFICES ASSUME NEW j \in offset + 2..Begin, j <= Len(buf)
                 PROVE  buf[j] = LenAndCrc(h)
      OBVIOUS
    <2>1. PICK i \in 2..HeaderSize : j = a + i
      <3>1. j \in a + 2..a + HeaderSize
        BY <1>6, <1>10, Zenon
      <3>2. j - a \in 2..HeaderSize /\ j = a + (j - a)
        BY <1>10, <3>1
      <3> QED
        BY <3>2
    <2>2. j \in Nat /\ j <= s.to
      BY <1>1, <1>10, <1>8, SMTT(30)
    <2>3. a + i <= Intact
      BY <1>35, <2>1, <2>2
    <2> QED
      BY <1>9, <2>1, <2>3
  <1>12. ASSUME Begin + l <= Len(buf)
         PROVE  SubSeq(buf, Begin + 1, Begin + l) = h.crc
    <2> DEFINE S == {buf[i] : i \in DOMAIN buf}
               f == SubSeq(buf, Begin + 1, Begin + l)
    <2>0. Len(buf) \in Nat /\ DOMAIN buf = 1..Len(buf)
      BY <1>2, SpanTypes
    <2>1. \A i \in Begin + 1..Begin + l : buf[i] \in S
      <3>1. \A i \in Begin + 1..Begin + l : i \in 1..Len(buf)
        BY <1>10, <1>12, <2>0
      <3> QED
        BY <2>0, <3>1, Zenon
    <2> HIDE DEF S
    <2>2. /\ f \in Seq(S)
          /\ Len(f) = IF Begin + 1 <= Begin + l THEN Begin + l - (Begin + 1) + 1 ELSE 0
          /\ \A j \in 1..Begin + l - (Begin + 1) + 1 : f[j] = buf[Begin + 1 + j - 1]
      BY <1>10, <2>1, SubSeqProperties
    <2> HIDE DEF f
    <2>3. Len(f) = l /\ \A j \in 1..l : f[j] = buf[Begin + j]
      BY <1>10, <2>2
    <2>4. \A j \in 1..l : f[j] = h.crc[j]
      <3> SUFFICES ASSUME NEW j \in 1..l
                   PROVE  f[j] = h.crc[j]
        OBVIOUS
      <3>0. Begin + j <= Len(buf) /\ Begin + j <= Begin + l /\ Begin + j \in Nat
        BY <1>1, <1>10, <1>12
      <3>1. a + HeaderSize + j <= Len(buf) /\ Begin + j = a + HeaderSize + j
            /\ a + HeaderSize + j <= s.to /\ a + HeaderSize + j \in Nat
        BY <1>10, <3>0
      <3>2. a + HeaderSize + j <= Intact
        BY <1>35, <3>1
      <3> QED
        BY <1>9, <2>3, <3>1, <3>2
    <2>5. f = h.crc
      <3> DEFINE T == {q[j] : j \in DOMAIN q}
                 U == S \cup T
      <3>1. h.crc \in Seq(T) /\ f \in Seq(S) /\ Len(h.crc) = l
        BY <1>9, <1>95, <2>2
      <3> HIDE DEF T
      <3>2. h.crc \in Seq(U)
        BY <3>1
      <3>3. f \in Seq(U)
        BY <3>1
      <3> HIDE DEF U
      <3> QED
        BY <2>3, <2>4, <3>1, <3>2, <3>3, SeqEqual
    <2> QED
      BY <2>5 DEF f
  <1> QED
    BY <1>1, <1>3, <1>5, <1>7, <1>8, <1>85, <1>9, <1>10, <1>11, <1>12 DEF s

(* How the reading of a file that was only cut short must end. *)
Ending ==
    IF \E i \in DOMAIN spans : spans[i].from < Len(buf) /\ Len(buf) < spans[i].to
    THEN "UnexpectedEnd"
    ELSE IF \E i \in DOMAIN spans :
               /\ spans[i].to <= Len(buf) /\ ~spans[i].last
               /\ \A j \in DOMAIN spans : j > i => spans[j].to > Len(buf)
    THEN "TornRecord"
    ELSE "EndOfStream"

LEMMA FailsRight ==
    ASSUME PageLayout, phase = "reading", NEW e, Fail(e), \A k : Reading(k) => e = Ending
    PROVE  PageLayout'
  <1>1. phase' = "done" /\ result' = e /\ UNCHANGED written /\ UNCHANGED <<buf, spans, bad>>
    BY DEF Fail, written
  <1>2. ReaderInPlace'
    BY <1>1 DEF ReaderInPlace
  <1>3. Verdict'
    <2>1. SUFFICES ASSUME bad = 0, NoZeroFirst
                   PROVE  result' = Ending
      BY <1>1, Zenon DEF Verdict, NoZeroFirst, Ending
    <2>2. PICK k : Reading(k)
      <3>1. \E k \in 0..Len(spans) : ReadUpTo(k)
        BY <2>1 DEF PageLayout, ReaderInPlace, NoZeroFirst
      <3> QED
        BY <2>1, <3>1, ReadingUndamaged
    <2> QED
      BY <1>1, <2>2
  <1> QED
    BY <1>1, <1>2, <1>3, ReaderLayout

LEMMA AtEndLayout ==
    ASSUME PageLayout, AtEnd
    PROVE  PageLayout'
  <1>1. phase = "reading" /\ offset >= Len(buf) /\ Fail(IF open THEN "TornRecord" ELSE "EndOfStream")
    BY DEF AtEnd
  <1>2. ASSUME NEW k, Reading(k)
        PROVE  (IF open THEN "TornRecord" ELSE "EndOfStream") = Ending
    <2>1. /\ offset = Len(buf) /\ Len(buf) \in Nat /\ k \in Nat /\ To(k) \in Nat
          /\ To(k) <= Len(buf) /\ open = ~Between(k) /\ Between(k) \in BOOLEAN
          /\ \A i \in DOMAIN spans :
               /\ i \in Nat /\ spans[i].from \in Nat /\ spans[i].to \in Nat
               /\ spans[i].from < spans[i].to
               /\ i <= k => spans[i].to <= To(k)
               /\ i > k => Len(buf) <= spans[i].from
      BY <1>1, <1>2, ReadingFacts
    <2>2. \A i \in DOMAIN spans : ~(spans[i].from < Len(buf) /\ Len(buf) < spans[i].to)
      BY <2>1
    <2>3. \A i \in DOMAIN spans : i > k => spans[i].to > Len(buf)
      BY <2>1
    <2>4. k # 0 => k \in DOMAIN spans /\ To(k) = spans[k].to
      BY <1>2, SpanTypes DEF Reading, PageLayout, To
    <2>5. CASE open
      <3>1. k # 0 /\ ~spans[k].last
        BY <2>1, <2>5 DEF Between
      <3> QED
        BY <2>1, <2>2, <2>3, <2>4, <2>5, <3>1 DEF Ending
    <2>6. CASE ~open
      <3>1. ASSUME NEW i \in DOMAIN spans, spans[i].to <= Len(buf), ~spans[i].last,
                   \A j \in DOMAIN spans : j > i => spans[j].to > Len(buf)
            PROVE  FALSE
        <4>1. i <= k
          BY <2>1, <2>3, <3>1
        <4>2. k # 0
          BY <2>1, <4>1, SpanTypes, <1>2 DEF Reading, PageLayout
        <4>3. i = k
          BY <2>1, <2>4, <3>1, <4>1, <4>2
        <4> QED
          BY <2>1, <2>6, <3>1, <4>2, <4>3 DEF Between
      <3> QED
        BY <2>2, <2>6, <3>1 DEF Ending
    <2> QED
      BY <2>5, <2>6
  <1> QED
    BY <1>1, <1>2, FailsRight

(* Padding is skipped: the reader stands before the next fragment, or at the  *)
(* end of the file.                                                           *)
LEMMA SkipReads ==
    ASSUME NEW k, Reading(k), SkipPadding
    PROVE  /\ offset' = PaddingEnd /\ phase' = "reading" /\ ReadUpTo(k)'
           /\ UNCHANGED <<written, open, record, returned, result>>
  <1>1. phase = "reading" /\ offset < Len(buf) /\ buf[offset + 1].k = "zero"
    BY DEF SkipPadding, More
  <1>2. ~(k < Len(spans) /\ offset = spans[k + 1].from)
    BY <1>1, HeaderAhead DEF Hdr
  <1>3. /\ offset = To(k)
        /\ PaddingEnd \in Nat /\ offset < PaddingEnd /\ PaddingEnd <= Len(buf)
        /\ \/ k < Len(spans) /\ PaddingEnd = spans[k + 1].from
           \/ PaddingEnd = Len(buf) /\ (k < Len(spans) => Len(buf) <= spans[k + 1].from)
        /\ \A j \in offset + 1..PaddingEnd : buf[j] = Zero
    BY <1>1, <1>2, PaddingAhead
  <1>4. offset \in Nat /\ open = ~Between(k)
    BY ReadingFacts
  <1>5. ~\E i \in DOMAIN buf : offset < i /\ i <= PaddingEnd /\ buf[i].k # "zero"
    <2> SUFFICES ASSUME NEW i \in DOMAIN buf, offset < i, i <= PaddingEnd, buf[i].k # "zero"
                 PROVE  FALSE
      OBVIOUS
    <2>1. i \in offset + 1..PaddingEnd
      <3>1. i \in Nat
        BY SpanTypes DEF Reading, PageLayout
      <3> QED
        BY <1>3, <1>4, <3>1
    <2> QED
      BY <1>3, <2>1 DEF Zero
  <1>6. /\ offset' = PaddingEnd /\ phase' = "reading"
        /\ UNCHANGED <<written, open, record, returned, result>> /\ UNCHANGED <<buf, spans>>
    BY <1>1, <1>5 DEF SkipPadding, written
  <1>7. To(k)' = To(k) /\ Between(k)' = Between(k)
    BY <1>6 DEF To, Between
  <1>8. ReadUpTo(k)'
    BY <1>3, <1>4, <1>6, <1>7 DEF ReadUpTo
  <1> QED
    BY <1>6, <1>8

LEMMA SkipLayout ==
    ASSUME PageLayout, SkipPadding
    PROVE  PageLayout'
  <1>1. phase = "reading"
    BY DEF SkipPadding, More
  <1>2. CASE \E i \in DOMAIN buf : offset < i /\ i <= PaddingEnd /\ buf[i].k # "zero"
    <2>1. Fail("InvalidRecType")
      BY <1>2 DEF SkipPadding
    <2>2. ASSUME NEW k, Reading(k)
          PROVE  FALSE
      <3>1. phase' = "reading"
        BY <2>2, SkipReads
      <3> QED
        BY <2>1, <3>1 DEF Fail
    <2> QED
      BY <1>1, <2>1, <2>2, FailsRight
  <1>3. CASE ~\E i \in DOMAIN buf : offset < i /\ i <= PaddingEnd /\ buf[i].k # "zero"
    <2>1. phase' = "reading" /\ UNCHANGED written /\ UNCHANGED <<spans, bad>>
      BY <1>1, <1>3 DEF SkipPadding, written
    <2>2. ReaderInPlace'
      <3>1. SUFFICES ASSUME bad = 0, NoZeroFirst
                     PROVE  \E k \in 0..Len(spans) : ReadUpTo(k)'
        BY <2>1, Zenon DEF ReaderInPlace, NoZeroFirst
      <3>2. PICK k \in 0..Len(spans) : Reading(k)
        BY <1>1, <3>1, ReadingUndamaged DEF PageLayout, ReaderInPlace, NoZeroFirst
      <3> QED
        BY <3>2, SkipReads
    <2>3. Verdict'
      BY <2>1 DEF Verdict
    <2> QED
      BY <1>1, <2>1, <2>2, <2>3, ReaderLayout
  <1> QED
    BY <1>2, <1>3

(* A byte that is not zero begins the next fragment. *)
LEMMA AtHeader ==
    ASSUME NEW k, Reading(k), More, Hdr.k # "zero"
    PROVE  offset < Len(buf) /\ k < Len(spans) /\ offset = spans[k + 1].from
  <1>1. offset < Len(buf)
    BY DEF More
  <1>2. ASSUME ~(k < Len(spans) /\ offset = spans[k + 1].from)
        PROVE  FALSE
    <2>1. /\ offset \in Nat /\ PaddingEnd \in Nat /\ offset < PaddingEnd
          /\ \A j \in offset + 1..PaddingEnd : buf[j] = Zero
      BY <1>1, <1>2, PaddingAhead, ReadingFacts
    <2>2. offset + 1 \in offset + 1..PaddingEnd
      BY <2>1
    <2> QED
      BY <2>1, <2>2 DEF Hdr, Zero
  <1> QED
    BY <1>1, <1>2

LEMMA HeaderFailsLayout ==
    ASSUME PageLayout, HeaderFails
    PROVE  PageLayout'
  <1>1. CASE More /\ Hdr.k # "zero" /\ Begin > Len(buf) /\ Fail("UnexpectedEnd")
    <2>1. phase = "reading"
      BY <1>1 DEF More
    <2>2. ASSUME NEW k, Reading(k)
          PROVE  "UnexpectedEnd" = Ending
      <3>1. offset < Len(buf) /\ k < Len(spans) /\ offset = spans[k + 1].from
        BY <1>1, <2>2, AtHeader
      <3>2. /\ k + 1 \in 1..Len(spans) /\ spans[k + 1].to \in Nat
            /\ Begin + Hdr.len = spans[k + 1].to /\ Hdr.len \in Nat /\ Begin \in Nat
        BY <2>2, <3>1, HeaderAhead
      <3>3. Len(buf) \in Nat /\ DOMAIN spans = 1..Len(spans)
        BY <2>2, SpanTypes DEF Reading, PageLayout
      <3>4. Len(buf) < spans[k + 1].to
        BY <1>1, <3>2, <3>3
      <3> QED
        BY <3>1, <3>2, <3>3, <3>4 DEF Ending
    <2> QED
      BY <1>1, <2>1, <2>2, FailsRight
  <1>2. CASE HeaderFits /\ (Hdr.k # "hdr" \/ Hdr.type = "Invalid"
                             \/ \E i \in offset + 2..Begin : buf[i] # LenAndCrc(Hdr))
    <2>1. phase = "reading" /\ More /\ Hdr.k # "zero" /\ Begin <= Len(buf)
      BY <1>2 DEF HeaderFits, More
    <2>2. PICK e : Fail(e)
      BY <1>2, <2>1 DEF HeaderFails
    <2>3. ASSUME NEW k, Reading(k)
          PROVE  FALSE
      <3>1. offset < Len(buf) /\ k < Len(spans) /\ offset = spans[k + 1].from
        BY <2>1, <2>3, AtHeader
      <3>2. /\ Hdr.k = "hdr" /\ Hdr.type \in RecTypes /\ Begin \in Nat
            /\ \A j \in offset + 2..Begin : j <= Len(buf) => buf[j] = LenAndCrc(Hdr)
        BY <2>3, <3>1, HeaderAhead
      <3>3. Hdr.type # "Invalid"
        BY <3>2 DEF RecTypes
      <3>4. PICK i \in offset + 2..Begin : buf[i] # LenAndCrc(Hdr)
        BY <1>2, <3>2, <3>3
      <3>5. i <= Len(buf)
        BY <2>1, <2>3, <3>2, ReadingFacts
      <3> QED
        BY <3>2, <3>4, <3>5
    <2> QED
      BY <2>1, <2>2, <2>3, FailsRight
  <1> QED
    BY <1>1, <1>2 DEF HeaderFails

LEMMA FragmentFailsLayout ==
    ASSUME PageLayout, FragmentFails
    PROVE  PageLayout'
  <1>1. HeaderRead /\ More /\ phase = "reading" /\ Hdr.k # "zero"
    BY DEF FragmentFails, HeaderRead, HeaderFits, More
  <1>2. CASE Begin + Hdr.len > Len(buf)
    <2>1. Fail("UnexpectedEnd")
      BY <1>2 DEF FragmentFails
    <2>2. ASSUME NEW k, Reading(k)
          PROVE  "UnexpectedEnd" = Ending
      <3>1. offset < Len(buf) /\ k < Len(spans) /\ offset = spans[k + 1].from
        BY <1>1, <2>2, AtHeader
      <3>2. k + 1 \in 1..Len(spans) /\ Begin + Hdr.len = spans[k + 1].to
            /\ spans[k + 1].to \in Nat
        BY <2>2, <3>1, HeaderAhead
      <3>3. Len(buf) \in Nat /\ DOMAIN spans = 1..Len(spans)
        BY <2>2, SpanTypes DEF Reading, PageLayout
      <3>4. Len(buf) < spans[k + 1].to
        BY <1>2, <3>2, <3>3
      <3> QED
        BY <3>1, <3>2, <3>3, <3>4 DEF Ending
    <2> QED
      BY <1>1, <2>1, <2>2, FailsRight
  <1>3. CASE ~(Begin + Hdr.len > Len(buf))
    <2>1. SubSeq(buf, Begin + 1, Begin + Hdr.len) # Hdr.crc /\ Fail("CrcMismatch")
      BY <1>3 DEF FragmentFails
    <2>2. ASSUME NEW k, Reading(k)
          PROVE  FALSE
      <3>1. offset < Len(buf) /\ k < Len(spans) /\ offset = spans[k + 1].from
        BY <1>1, <2>2, AtHeader
      <3>2. Begin + Hdr.len <= Len(buf)
        BY <1>3, <2>2, <3>1, HeaderAhead, ReadingFacts
      <3> QED
        BY <2>1, <2>2, <3>1, <3>2, HeaderAhead
    <2> QED
      BY <1>1, <2>1, <2>2, FailsRight
  <1> QED
    BY <1>2, <1>3

(* A fragment begins a record exactly when none is being assembled. *)
LEMMA TypeInPlace ==
    ASSUME NEW k, Reading(k), FragmentRead
    PROVE  /\ k + 1 \in 1..Len(spans) /\ Begin + Hdr.len = To(k + 1) /\ To(k + 1) \in Nat
           /\ Hdr.type \in {"Full", "First"} <=> ~open
           /\ Hdr.type \in {"Full", "Last"} <=> spans[k + 1].last
           /\ Between(k + 1) = spans[k + 1].last /\ spans[k + 1].last \in BOOLEAN
  <1>1. More /\ Hdr.k # "zero"
    BY DEF FragmentRead, HeaderRead, HeaderFits
  <1>2. offset < Len(buf) /\ k < Len(spans) /\ offset = spans[k + 1].from
    BY <1>1, AtHeader
  <1>3. /\ k + 1 \in 1..Len(spans)
        /\ Hdr.type = FragmentType(Between(k), spans[k + 1].last)
        /\ spans[k + 1].last \in BOOLEAN /\ spans[k + 1].to \in Nat
        /\ Begin + Hdr.len = spans[k + 1].to
    BY <1>2, HeaderAhead
  <1>4. open = ~Between(k) /\ Between(k) \in BOOLEAN /\ k \in Nat /\ k + 1 # 0
    BY ReadingFacts
  <1>5. /\ Hdr.type \in {"Full", "First"} <=> Between(k)
        /\ Hdr.type \in {"Full", "Last"} <=> spans[k + 1].last
    BY <1>3, <1>4 DEF FragmentType
  <1> QED
    BY <1>3, <1>4, <1>5 DEF To, Between

LEMMA OutOfPlaceLayout ==
    ASSUME PageLayout, OutOfPlace
    PROVE  PageLayout'
  <1>1. phase = "reading" /\ FragmentRead /\ (Hdr.type \in {"Full", "First"} <=> open)
    BY DEF OutOfPlace, FragmentRead, HeaderRead, HeaderFits, More
  <1>2. PICK e : Fail(e)
    BY DEF OutOfPlace
  <1>3. \A k : ~Reading(k)
    BY <1>1, TypeInPlace
  <1> QED
    BY <1>1, <1>2, <1>3, FailsRight

(* A fragment is taken: the reader stands behind it. *)
LEMMA TakeReads ==
    ASSUME NEW k, Reading(k), TakeFragment, NEW m, m = k + 1
    PROVE  m \in 0..Len(spans) /\ m \in 1..Len(spans) /\ ReadUpTo(m)'
  <1>1. /\ phase = "reading" /\ phase' = "reading" /\ FragmentRead /\ UNCHANGED <<buf, spans, bad>>
        /\ offset' = Begin + Hdr.len /\ Begin + Hdr.len <= Len(buf)
        /\ open' = ~(Hdr.type \in {"Full", "Last"})
    BY DEF TakeFragment, FragmentRead, HeaderRead, HeaderFits, More, written
  <1>2. m \in 0..Len(spans) /\ m \in 1..Len(spans)
    <2>1. k + 1 \in 1..Len(spans) /\ k \in Nat /\ Len(spans) \in Nat
      BY <1>1, TypeInPlace, ReadingFacts
    <2> QED
      BY <2>1
  <1>3. /\ Begin + Hdr.len = To(m) /\ To(m) \in Nat
        /\ Hdr.type \in {"Full", "Last"} <=> Between(m)
        /\ Between(m) \in BOOLEAN
    BY <1>1, <1>2, TypeInPlace
  <1>4. To(m)' = To(m) /\ Between(m)' = Between(m)
    BY <1>1 DEF To, Between
  <1>5. ReadUpTo(m)'
    BY <1>1, <1>3, <1>4 DEF ReadUpTo
  <1> QED
    BY <1>2, <1>5

LEMMA TakeLayout ==
    ASSUME PageLayout, TakeFragment
    PROVE  PageLayout'
  <1>1. phase = "reading" /\ phase' = "reading" /\ UNCHANGED written /\ UNCHANGED <<spans, bad>>
    BY DEF TakeFragment, FragmentRead, HeaderRead, HeaderFits, More, written
  <1>2. ReaderInPlace'
    <2>1. SUFFICES ASSUME bad = 0, NoZeroFirst
                   PROVE  \E k \in 0..Len(spans) : ReadUpTo(k)'
      BY <1>1, Zenon DEF ReaderInPlace, NoZeroFirst
    <2>2. PICK k \in 0..Len(spans) : Reading(k)
      BY <1>1, <2>1, ReadingUndamaged DEF PageLayout, ReaderInPlace, NoZeroFirst
    <2>3. PICK m : m = k + 1
      OBVIOUS
    <2> QED
      BY <2>2, <2>3, TakeReads
  <1>3. Verdict'
    BY <1>1 DEF Verdict
  <1> QED
    BY <1>1, <1>2, <1>3, ReaderLayout

-----------------------------------------------------------------------------
LEMMA LayoutStays ==
    ASSUME PageLayout, [Next]_vars
    PROVE  PageLayout'
  <1>1. CASE UNCHANGED vars
    <2>1. UNCHANGED <<phase, buf, body, pos, base, spans, bad, offset, open,
                    record, returned, result>>
      BY <1>1 DEF vars, written, read
    <2>2. Segment' /\ SpansInPages' /\ FileEnd' /\ ReaderInPlace' /\ Verdict'
      BY <2>1, Zenon DEF PageLayout, Segment, SpansInPages, FileEnd, ReaderInPlace, ReadUpTo,
                         Verdict, To, Between, PageEnd
    <2>4. SpansOfRecords'
      BY <2>1, SpansStay DEF PageLayout
    <2>5. WriterInPlace'
      BY <2>1, Zenon DEF PageLayout, WriterInPlace, Between
    <2>3. BytesInPlace'
      BY <2>1, Zenon DEF PageLayout, BytesInPlace, TypeAt, To, Between, Intact
    <2> QED
      BY <2>1, <2>2, <2>3, <2>4, <2>5 DEF PageLayout
  <1>2. CASE \E n \in 0..MaxBody : log(n)
    BY <1>2, LogLayout
  <1> QED
    BY <1>1, <1>2, FragmentLayout, CloseLayout, CutLayout, SpoilLayout, AtEndLayout, SkipLayout,
       HeaderFailsLayout, FragmentFailsLayout, OutOfPlaceLayout, TakeLayout DEF Next

(* The bytes of a segment are where PageWriter put them: fragments in one      *)
(* page each, zeros between them; and PageReader stands behind a fragment or   *)
(* the padding that follows it.                                                *)
THEOREM BytesStayInPlace == Spec => []PageLayout
  <1>1. Init => PageLayout
    BY InitLayout
  <1>2. PageLayout /\ [Next]_vars => PageLayout'
    BY LayoutStays
  <1> QED
    BY <1>1, <1>2, PTL DEF Spec

(* PageReader::next tells a cut inside a fragment (UnexpectedEnd) from one     *)
(* between two fragments of a record (TornRecord) and from the end of the log, *)
(* for every page size, header size, record length and place of the cut.       *)
THEOREM ReadingEndsRight == Spec => []Verdict
  <1>1. PageLayout => Verdict
    BY DEF PageLayout
  <1> QED
    BY <1>1, BytesStayInPlace, PTL
=============================================================================
