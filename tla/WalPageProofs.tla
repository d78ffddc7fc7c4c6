---------------------------- MODULE WalPageProofs ----------------------------
(***************************************************************************)
(* Proofs about WalPage: what the bytes of a segment are after each step   *)
(* of the writer, and the bound on the framed size of a record.            *)
(***************************************************************************)
EXTENDS WalPage, SequenceTheorems, FiniteSetTheorems, TLAPS

-----------------------------------------------------------------------------
(* Offsets in pages.                                                       *)

LEMMA Monotone ==
    ASSUME NEW a \in Int, NEW b \in Int, a <= b, NEW c \in Nat
    PROVE  a * c <= b * c
  OBVIOUS

LEMMA DivMod ==
    ASSUME NEW x \in Nat
    PROVE  /\ x % PageSize \in 0..PageSize - 1
           /\ x \div PageSize \in Nat
           /\ x = PageSize * (x \div PageSize) + (x % PageSize)
  BY PageConstants

LEMMA ModUnique ==
    ASSUME NEW q \in Nat, NEW r \in 0..PageSize - 1
    PROVE  (PageSize * q + r) % PageSize = r
  BY PageConstants

LEMMA ModAdd ==
    ASSUME NEW x \in Nat, NEW y \in Nat, (x % PageSize) + y <= PageSize
    PROVE  (x + y) % PageSize = IF (x % PageSize) + y = PageSize THEN 0 ELSE (x % PageSize) + y
  <1> DEFINE q == x \div PageSize
             r == x % PageSize
  <1>1. r \in 0..PageSize - 1 /\ q \in Nat /\ x = PageSize * q + r
    BY DivMod
  <1> HIDE DEF q, r
  <1>2. CASE r + y = PageSize
    <2>1. x + y = PageSize * (q + 1) + 0 /\ q + 1 \in Nat /\ 0 \in 0..PageSize - 1
      BY <1>1, <1>2, PageConstants
    <2>2. (PageSize * (q + 1) + 0) % PageSize = 0
      BY <2>1, ModUnique
    <2> QED
      BY <1>2, <2>1, <2>2 DEF r
  <1>3. CASE r + y < PageSize
    <2>1. x + y = PageSize * q + (r + y) /\ r + y \in 0..PageSize - 1
      BY <1>1, <1>3, PageConstants
    <2>2. (PageSize * q + (r + y)) % PageSize = r + y
      BY <1>1, <2>1, ModUnique
    <2> QED
      BY <1>3, <2>1, <2>2, PageConstants DEF r
  <1> QED
    BY <1>1, <1>2, <1>3, PageConstants DEF r

(* The padding before a header leaves room for it. *)
LEMMA PadFits ==
    ASSUME NEW x \in Nat
    PROVE  /\ Pad(x) \in 0..HeaderSize - 1
           /\ Pad(x) # 0 => x % PageSize # 0 /\ Pad(x) = PageSize - (x % PageSize)
                            /\ (x + Pad(x)) % PageSize = 0
           /\ page_room(x + Pad(x)) \in Nat
           /\ ((x + Pad(x)) % PageSize) + HeaderSize + page_room(x + Pad(x)) = PageSize
  <1>1. x % PageSize \in 0..PageSize - 1
    BY DivMod
  <1>2. CASE PageSize - (x % PageSize) < HeaderSize
    <2>1. Pad(x) = PageSize - (x % PageSize)
      BY <1>2 DEF Pad
    <2>2. (x + Pad(x)) % PageSize = 0
      BY <1>1, <2>1, ModAdd, PageConstants
    <2> QED
      BY <1>1, <1>2, <2>1, <2>2, PageConstants DEF page_room
  <1>3. CASE ~(PageSize - (x % PageSize) < HeaderSize)
    <2>1. Pad(x) = 0 /\ x + Pad(x) = x
      BY <1>3 DEF Pad
    <2> QED
      BY <1>1, <1>3, <2>1, PageConstants DEF page_room
  <1> QED
    BY <1>2, <1>3

-----------------------------------------------------------------------------
(* Types.                                                                  *)

LEMMA EndsCounted ==
    ASSUME spans \in Seq(Spans)
    PROVE  Cardinality(Ends) \in Nat
  <1>1. IsFiniteSet(1..Len(spans))
    BY FS_Interval
  <1>2. Ends \subseteq 1..Len(spans)
    BY DEF Ends
  <1> QED
    BY <1>1, <1>2, FS_Subset, FS_CardinalityType

(* A sequence is one of its own elements. *)
LEMMA OwnElements ==
    ASSUME NEW S, NEW s \in Seq(S)
    PROVE  s \in Seq({s[i] : i \in DOMAIN s})
  BY LenProperties

(* The pieces that log() appends. *)
LEMMA ZerosSeq ==
    ASSUME NEW n \in Nat
    PROVE  /\ Zeros(n) \in Seq({Zero}) /\ Len(Zeros(n)) = n
           /\ \A j \in 1..n : Zeros(n)[j] = Zero
  BY DEF Zeros

LEMMA HeaderSeq ==
    ASSUME NEW type, NEW fragment,
           NEW h, h = HeaderByte(type, fragment), NEW w, w = write_header(type, fragment)
    PROVE  /\ w \in Seq({h, Zero, Ext}) /\ Len(w) = HeaderSize
           /\ w[1] = h /\ \A j \in 2..HeaderSize : w[j] = LenAndCrc(h)
  <1>1. w = [i \in 1..HeaderSize |-> IF i = 1 THEN h ELSE LenAndCrc(h)]
    BY DEF write_header
  <1>2. LenAndCrc(h) \in {Zero, Ext}
    BY DEF LenAndCrc
  <1> QED
    BY <1>1, <1>2, PageConstants

LEMMA FragmentSeq ==
    ASSUME NEW n \in Nat, NEW i, NEW p \in Nat, NEW l \in Nat, p + l <= n,
           NEW b, b = Body(i, n), NEW fragment, fragment = SubSeq(b, p + 1, p + l)
    PROVE  /\ fragment \in Seq({b[j] : j \in 1..n}) /\ Len(fragment) = l
           /\ \A j \in 1..l : fragment[j] = b[p + j]
  <1> DEFINE cells == {b[j] : j \in 1..n}
  <1>1. \A j \in p + 1..p + l : b[j] \in cells
    OBVIOUS
  <1> HIDE DEF cells
  <1>2. /\ fragment \in Seq(cells)
        /\ Len(fragment) = IF p + 1 <= p + l THEN p + l - (p + 1) + 1 ELSE 0
        /\ \A j \in 1..p + l - (p + 1) + 1 : fragment[j] = b[p + 1 + j - 1]
    BY <1>1, SubSeqProperties
  <1>3. Len(fragment) = l /\ p + l - (p + 1) + 1 = l /\ \A j \in 1..l : p + 1 + j - 1 = p + j
    BY <1>2
  <1> QED
    BY <1>2, <1>3 DEF cells

(* Sequences one behind the other. *)
LEMMA Joined ==
    ASSUME NEW S, NEW a \in Seq(S), NEW b \in Seq(S), NEW w, w = a \o b
    PROVE  /\ w \in Seq(S) /\ Len(w) = Len(a) + Len(b)
           /\ \A j \in 1..Len(a) : w[j] = a[j]
           /\ \A j \in 1..Len(b) : w[Len(a) + j] = b[j]
  <1>1. Len(a) \in Nat /\ Len(b) \in Nat
    BY LenProperties
  <1>2. /\ w \in Seq(S) /\ Len(w) = Len(a) + Len(b)
        /\ \A j \in 1..Len(a) + Len(b) : w[j] = IF j <= Len(a) THEN a[j] ELSE b[j - Len(a)]
    BY ConcatProperties
  <1>3. \A j \in 1..Len(a) : w[j] = a[j]
    BY <1>1, <1>2
  <1>4. \A j \in 1..Len(b) : Len(a) + j \in 1..Len(a) + Len(b)
                              /\ ~(Len(a) + j <= Len(a)) /\ Len(a) + j - Len(a) = j
    BY <1>1
  <1> QED
    BY <1>2, <1>3, <1>4

LEMMA Concatenated ==
    ASSUME NEW S, NEW a \in Seq(S), NEW b \in Seq(S), NEW c \in Seq(S), NEW d \in Seq(S),
           NEW w, w = a \o b \o c \o d
    PROVE  /\ w \in Seq(S) /\ Len(w) = Len(a) + Len(b) + Len(c) + Len(d)
           /\ \A j \in 1..Len(a) : w[j] = a[j]
           /\ \A j \in 1..Len(b) : w[Len(a) + j] = b[j]
           /\ \A j \in 1..Len(c) : w[Len(a) + Len(b) + j] = c[j]
           /\ \A j \in 1..Len(d) : w[Len(a) + Len(b) + Len(c) + j] = d[j]
  <1>1. PICK x : x = a \o b
    OBVIOUS
  <1>2. PICK y : y = x \o c
    OBVIOUS
  <1>3. w = y \o d
    BY <1>1, <1>2
  <1>4. Len(a) \in Nat /\ Len(b) \in Nat /\ Len(c) \in Nat /\ Len(d) \in Nat
    BY LenProperties
  <1>5. /\ x \in Seq(S) /\ Len(x) = Len(a) + Len(b)
        /\ \A j \in 1..Len(a) : x[j] = a[j]
        /\ \A j \in 1..Len(b) : x[Len(a) + j] = b[j]
    BY <1>1, Joined
  <1>6. /\ y \in Seq(S) /\ Len(y) = Len(x) + Len(c)
        /\ \A j \in 1..Len(x) : y[j] = x[j]
        /\ \A j \in 1..Len(c) : y[Len(x) + j] = c[j]
    <2>1. x \in Seq(S)
      BY <1>5
    <2> QED
      BY <1>2, <2>1, Joined
  <1>7. /\ w \in Seq(S) /\ Len(w) = Len(y) + Len(d)
        /\ \A j \in 1..Len(y) : w[j] = y[j]
        /\ \A j \in 1..Len(d) : w[Len(y) + j] = d[j]
    <2>1. y \in Seq(S)
      BY <1>6
    <2> QED
      BY <1>3, <2>1, Joined
  <1>8. Len(y) = Len(a) + Len(b) + Len(c) /\ Len(w) = Len(a) + Len(b) + Len(c) + Len(d)
    BY <1>5, <1>6, <1>7
  <1>9. \A j \in 1..Len(a) : w[j] = a[j]
    BY <1>4, <1>5, <1>6, <1>7
  <1>10. \A j \in 1..Len(b) : w[Len(a) + j] = b[j]
    BY <1>4, <1>5, <1>6, <1>7
  <1>11. \A j \in 1..Len(c) : w[Len(a) + Len(b) + j] = c[j]
    BY <1>4, <1>5, <1>6, <1>7
  <1>12. \A j \in 1..Len(d) : w[Len(a) + Len(b) + Len(c) + j] = d[j]
    BY <1>7, <1>8
  <1> QED
    BY <1>7, <1>8, <1>9, <1>10, <1>11, <1>12

-----------------------------------------------------------------------------
(* One iteration of the loop of log().                                     *)

Start == Len(buf) + Pad(Len(buf))
Size  == Min2(body - pos, page_room(Start))
Ended == pos + Size = body
Frag  == SubSeq(Body(Cardinality(Ends) + 1, body), pos + 1, pos + Size)
First == HeaderByte(FragmentType(pos = 0, Ended), Frag)

LEMMA SizeFits ==
    ASSUME Segment
    PROVE  /\ Len(buf) \in Nat /\ Pad(Len(buf)) \in 0..HeaderSize - 1 /\ Start \in Nat
           /\ page_room(Start) \in Nat /\ Size \in Nat /\ Ended \in BOOLEAN
           /\ Size <= page_room(Start) /\ pos + Size <= body
           /\ ~Ended => Size = page_room(Start) /\ pos + Size < body
           /\ (Start % PageSize) + HeaderSize + page_room(Start) = PageSize
           /\ Pad(Len(buf)) # 0 => Len(buf) % PageSize # 0 /\ Start % PageSize = 0
                                   /\ Start = Len(buf) + PageSize - (Len(buf) % PageSize)
  <1>1. Len(buf) \in Nat
    BY LenProperties DEF Segment
  <1>2. /\ Pad(Len(buf)) \in 0..HeaderSize - 1
        /\ page_room(Start) \in Nat
        /\ (Start % PageSize) + HeaderSize + page_room(Start) = PageSize
        /\ Pad(Len(buf)) # 0 => Len(buf) % PageSize # 0 /\ Start % PageSize = 0
                                /\ Pad(Len(buf)) = PageSize - (Len(buf) % PageSize)
    BY <1>1, PadFits DEF Start
  <1>3. Start \in Nat
    <2>1. Pad(Len(buf)) \in Nat
      BY <1>2, PageConstants
    <2> QED
      BY <1>1, <2>1 DEF Start
  <1>4. /\ Size \in Nat /\ Size <= page_room(Start) /\ pos + Size <= body
        /\ pos + Size # body => Size = page_room(Start) /\ pos + Size < body
    BY <1>2 DEF Size, Min2, Segment
  <1>5. Len(buf) % PageSize \in 0..PageSize - 1
    BY <1>1, DivMod
  <1>6. Pad(Len(buf)) # 0 => Start = Len(buf) + PageSize - (Len(buf) % PageSize)
    BY <1>1, <1>2, <1>5, PageConstants DEF Start
  <1> QED
    BY <1>1, <1>2, <1>3, <1>4, <1>6 DEF Ended

LEMMA FragmentState ==
    ASSUME Fragment
    PROVE  /\ phase = "framing"
           /\ buf' = buf \o Zeros(Pad(Len(buf))) \o write_header(FragmentType(pos = 0, Ended), Frag) \o Frag
           /\ phase' = IF Ended THEN "idle" ELSE "framing"
           /\ pos' = IF Ended THEN 0 ELSE pos + Size
           /\ body' = IF Ended THEN 0 ELSE body
           /\ base' = IF Ended THEN 0 ELSE base
           /\ spans' = Append(spans, [from |-> Start, to |-> Start + HeaderSize + Size,
                                      rec |-> Cardinality(Ends) + 1, last |-> Ended,
                                      at |-> pos, len |-> Size, size |-> body])
           /\ UNCHANGED <<bad, read>>
  BY DEF Fragment, Start, Size, Ended, Frag

LEMMA FragmentBytes ==
    ASSUME Segment, Fragment
    PROVE  /\ buf' \in Seq({buf'[i] : i \in DOMAIN buf'})
           /\ Len(buf') = Start + HeaderSize + Size
           /\ \A j \in 1..Len(buf) : buf'[j] = buf[j]
           /\ \A j \in Len(buf) + 1..Start : buf'[j] = Zero
           /\ buf'[Start + 1] = First
           /\ \A j \in 2..HeaderSize : buf'[Start + j] = LenAndCrc(First)
           /\ \A j \in 1..Size : buf'[Start + HeaderSize + j] = Frag[j]
           /\ Len(Frag) = Size
  <1> DEFINE n == Pad(Len(buf))
             z == Zeros(n)
             t == FragmentType(pos = 0, Ended)
             w == write_header(t, Frag)
             b == Body(Cardinality(Ends) + 1, body)
             S == {buf[i] : i \in DOMAIN buf} \cup {First, Zero, Ext} \cup {b[j] : j \in 1..body}
  <1>1. /\ Len(buf) \in Nat /\ n \in 0..HeaderSize - 1 /\ n \in Nat /\ Size \in Nat
        /\ pos + Size <= body /\ body \in Nat /\ pos \in Nat /\ Start = Len(buf) + n
        /\ HeaderSize \in Nat /\ 1 < HeaderSize
    BY SizeFits, PageConstants DEF Segment, Start
  <1>2. z \in Seq({Zero}) /\ Len(z) = n /\ \A j \in 1..n : z[j] = Zero
    BY <1>1, ZerosSeq
  <1>3. /\ w \in Seq({First, Zero, Ext}) /\ Len(w) = HeaderSize
        /\ w[1] = First /\ \A j \in 2..HeaderSize : w[j] = LenAndCrc(First)
    <2>1. First = HeaderByte(t, Frag) /\ w = write_header(t, Frag)
      BY DEF First
    <2> HIDE DEF w, t
    <2> QED
      BY <2>1, HeaderSeq
  <1>4. Frag \in Seq({b[j] : j \in 1..body}) /\ Len(Frag) = Size
    BY <1>1, FragmentSeq DEF Frag
  <1>5. buf' = buf \o z \o w \o Frag
    BY FragmentState
  <1> HIDE DEF n, z, w, b
  <1>6. buf \in Seq(S) /\ z \in Seq(S) /\ w \in Seq(S) /\ Frag \in Seq(S)
    <2>1. buf \in Seq(S)
      BY DEF Segment
    <2>2. z \in Seq(S)
      BY <1>2
    <2>3. w \in Seq(S)
      BY <1>3
    <2>4. Frag \in Seq(S)
      BY <1>4
    <2> QED
      BY <2>1, <2>2, <2>3, <2>4
  <1> HIDE DEF S
  <1>7. /\ buf' \in Seq(S) /\ Len(buf') = Len(buf) + n + HeaderSize + Size
        /\ \A j \in 1..Len(buf) : buf'[j] = buf[j]
        /\ \A j \in 1..n : buf'[Len(buf) + j] = z[j]
        /\ \A j \in 1..HeaderSize : buf'[Len(buf) + n + j] = w[j]
        /\ \A j \in 1..Size : buf'[Len(buf) + n + HeaderSize + j] = Frag[j]
    <2>1. /\ buf' \in Seq(S) /\ Len(buf') = Len(buf) + Len(z) + Len(w) + Len(Frag)
          /\ \A j \in 1..Len(buf) : buf'[j] = buf[j]
          /\ \A j \in 1..Len(z) : buf'[Len(buf) + j] = z[j]
          /\ \A j \in 1..Len(w) : buf'[Len(buf) + Len(z) + j] = w[j]
          /\ \A j \in 1..Len(Frag) : buf'[Len(buf) + Len(z) + Len(w) + j] = Frag[j]
      BY <1>5, <1>6, Concatenated
    <2> QED
      BY <1>2, <1>3, <1>4, <2>1
  <1>8. buf' \in Seq({buf'[i] : i \in DOMAIN buf'})
    BY <1>7, OwnElements
  <1>9. \A j \in Len(buf) + 1..Start : buf'[j] = Zero
    <2> SUFFICES ASSUME NEW j \in Len(buf) + 1..Start
                 PROVE  buf'[j] = Zero
      OBVIOUS
    <2>1. j - Len(buf) \in 1..n /\ Len(buf) + (j - Len(buf)) = j
      BY <1>1
    <2> QED
      BY <1>2, <1>7, <2>1
  <1>10. buf'[Start + 1] = First /\ \A j \in 2..HeaderSize : buf'[Start + j] = LenAndCrc(First)
    <2>1. \A j \in 1..HeaderSize : buf'[Start + j] = w[j]
      BY <1>1, <1>7
    <2>2. 1 \in 1..HeaderSize /\ \A j \in 2..HeaderSize : j \in 1..HeaderSize
      BY <1>1
    <2> QED
      BY <1>3, <2>1, <2>2
  <1> QED
    BY <1>1, <1>4, <1>7, <1>8, <1>9, <1>10

-----------------------------------------------------------------------------
(* Types.                                                                  *)

LEMMA InitSegment ==
    ASSUME Init
    PROVE  Segment
  <1>1. buf = <<>> /\ spans = <<>>
    BY DEF Init
  <1>2. buf \in Seq({buf[i] : i \in DOMAIN buf}) /\ spans \in Seq(Spans)
    BY <1>1
  <1>3. /\ phase \in {"idle", "framing", "reading", "done"} /\ pos <= body
        /\ body \in Nat /\ pos \in Nat /\ base \in Nat /\ bad \in Nat
    BY DEF Init
  <1> QED
    BY <1>2, <1>3, Zenon DEF Segment

LEMMA FragmentSegment ==
    ASSUME Segment, Fragment
    PROVE  Segment'
  <1>1. /\ Size \in Nat /\ Start \in Nat /\ Ended \in BOOLEAN /\ pos + Size <= body
        /\ Cardinality(Ends) \in Nat /\ body \in Nat /\ pos \in Nat /\ base \in Nat
    BY SizeFits, EndsCounted DEF Segment
  <1> DEFINE s == [from |-> Start, to |-> Start + HeaderSize + Size,
                   rec |-> Cardinality(Ends) + 1, last |-> Ended, at |-> pos, len |-> Size,
                   size |-> body]
  <1>2. s \in Spans
    BY <1>1, PageConstants DEF Spans
  <1>3. spans' = Append(spans, s)
    BY FragmentState
  <1> HIDE DEF s
  <1>4. spans' \in Seq(Spans)
    BY <1>2, <1>3, AppendProperties DEF Segment
  <1>5. buf' \in Seq({buf'[i] : i \in DOMAIN buf'})
    BY FragmentBytes
  <1>6. /\ phase' \in {"idle", "framing", "reading", "done"}
        /\ pos' \in Nat /\ body' \in Nat /\ base' \in Nat /\ pos' <= body'
        /\ bad' = bad
    BY <1>1, FragmentState
  <1> QED
    BY <1>4, <1>5, <1>6 DEF Segment

(* What is left of a file that is padded, cut or spoiled. *)
LEMMA PaddedBytes ==
    ASSUME Segment, close_page
    PROVE  LET n == PageSize - (Len(buf) % PageSize)
           IN /\ buf' \in Seq({buf'[i] : i \in DOMAIN buf'})
              /\ n \in Nat /\ Len(buf') = Len(buf) + n
              /\ \A j \in 1..Len(buf) : buf'[j] = buf[j]
              /\ \A j \in Len(buf) + 1..Len(buf') : buf'[j] = Zero
  <1> DEFINE n == PageSize - (Len(buf) % PageSize)
             z == Zeros(n)
             S == {buf[i] : i \in DOMAIN buf} \cup {Zero}
  <1>1. Len(buf) \in Nat
    BY LenProperties DEF Segment
  <1>2. n \in Nat
    BY <1>1, DivMod, PageConstants
  <1>3. buf' = buf \o z
    BY DEF close_page
  <1> HIDE DEF n
  <1>4. z \in Seq({Zero}) /\ Len(z) = n /\ \A j \in 1..n : z[j] = Zero
    BY <1>2, ZerosSeq
  <1> HIDE DEF z
  <1>5. z \in Seq(S) /\ buf \in Seq(S)
    BY <1>4 DEF Segment
  <1> HIDE DEF S
  <1>6. /\ buf' \in Seq(S) /\ Len(buf') = Len(buf) + n
        /\ \A j \in 1..Len(buf) : buf'[j] = buf[j]
        /\ \A j \in 1..n : buf'[Len(buf) + j] = z[j]
    <2>1. /\ buf' \in Seq(S) /\ Len(buf') = Len(buf) + Len(z)
          /\ \A j \in 1..Len(buf) : buf'[j] = buf[j]
          /\ \A j \in 1..Len(z) : buf'[Len(buf) + j] = z[j]
      BY <1>3, <1>5, Joined
    <2> QED
      BY <1>4, <2>1
  <1>7. buf' \in Seq({buf'[i] : i \in DOMAIN buf'})
    BY <1>6, OwnElements
  <1>8. \A j \in Len(buf) + 1..Len(buf') : buf'[j] = Zero
    <2> SUFFICES ASSUME NEW j \in Len(buf) + 1..Len(buf')
                 PROVE  buf'[j] = Zero
      OBVIOUS
    <2>1. j - Len(buf) \in 1..n /\ Len(buf) + (j - Len(buf)) = j
      BY <1>1, <1>2, <1>6
    <2> QED
      BY <1>4, <1>6, <2>1
  <1> QED
    BY <1>2, <1>6, <1>7, <1>8 DEF n

LEMMA CutBytes ==
    ASSUME Segment, Truncate
    PROVE  /\ buf' \in Seq({buf'[i] : i \in DOMAIN buf'})
           /\ Len(buf') \in 0..Len(buf)
           /\ \A j \in 1..Len(buf') : buf'[j] = buf[j]
  <1>1. PICK n \in 0..Len(buf) : buf' = SubSeq(buf, 1, n)
    BY DEF Truncate
  <1>2. Len(buf) \in Nat /\ DOMAIN buf = 1..Len(buf)
    BY LenProperties DEF Segment
  <1> DEFINE S == {buf[i] : i \in DOMAIN buf}
  <1>3. \A j \in 1..n : buf[j] \in S
    BY <1>2
  <1> HIDE DEF S
  <1>4. /\ buf' \in Seq(S) /\ Len(buf') = (IF 1 <= n THEN n - 1 + 1 ELSE 0)
        /\ \A j \in 1..n - 1 + 1 : buf'[j] = buf[1 + j - 1]
    BY <1>1, <1>2, <1>3, SubSeqProperties
  <1>5. Len(buf') = n /\ \A j \in 1..n : buf'[j] = buf[j]
    BY <1>2, <1>4
  <1>6. buf' \in Seq({buf'[i] : i \in DOMAIN buf'})
    BY <1>4, OwnElements
  <1> QED
    BY <1>5, <1>6

LEMMA SpoiltBytes ==
    ASSUME Segment, Spoil
    PROVE  /\ buf' \in Seq({buf'[i] : i \in DOMAIN buf'})
           /\ Len(buf') = Len(buf) /\ bad' \in 1..Len(buf)
           /\ \A j \in 1..Len(buf) : j # bad' => buf'[j] = buf[j]
  <1>0. PICK i \in DOMAIN buf : \E c : buf' = [buf EXCEPT ![i] = c] /\ bad' = i
    BY DEF Spoil
  <1>1. PICK c : buf' = [buf EXCEPT ![i] = c] /\ bad' = i
    BY <1>0
  <1> DEFINE S == {buf[j] : j \in DOMAIN buf} \cup {c}
  <1>2. buf \in Seq(S) /\ c \in S
    BY DEF Segment
  <1> HIDE DEF S
  <1>3. i \in 1..Len(buf)
    BY <1>1, <1>2, LenProperties
  <1>4. buf' \in Seq(S) /\ Len(buf') = Len(buf)
    BY <1>1, <1>2, <1>3, ExceptSeq
  <1>5. buf' \in Seq({buf'[j] : j \in DOMAIN buf'})
    BY <1>4, OwnElements
  <1>6. \A j \in 1..Len(buf) : j # bad' => buf'[j] = buf[j]
    BY <1>1, <1>2, LenProperties
  <1> QED
    BY <1>1, <1>3, <1>4, <1>5, <1>6

(* The steps of the reader leave the file and the history of the writer. *)
LEMMA ReaderSteps ==
    ASSUME AtEnd \/ SkipPadding \/ HeaderFails \/ FragmentFails \/ OutOfPlace \/ TakeFragment
    PROVE  phase = "reading" /\ phase' \in {"reading", "done"} /\ UNCHANGED written
  <1>1. ASSUME NEW e, Fail(e)
        PROVE  phase' = "done" /\ UNCHANGED written
    BY <1>1 DEF Fail
  <1>2. CASE AtEnd
    BY <1>1, <1>2 DEF AtEnd
  <1>3. CASE SkipPadding
    BY <1>1, <1>3 DEF SkipPadding, More
  <1>4. CASE HeaderFails
    BY <1>1, <1>4 DEF HeaderFails, More, HeaderFits
  <1>5. CASE FragmentFails
    BY <1>1, <1>5 DEF FragmentFails, HeaderRead, More, HeaderFits
  <1>6. CASE OutOfPlace
    BY <1>1, <1>6 DEF OutOfPlace, FragmentRead, HeaderRead, More, HeaderFits
  <1>7. CASE TakeFragment
    BY <1>7 DEF TakeFragment, FragmentRead, HeaderRead, More, HeaderFits
  <1> QED
    BY <1>2, <1>3, <1>4, <1>5, <1>6, <1>7

LEMMA SegmentStays ==
    ASSUME Segment, [Next]_vars
    PROVE  Segment'
  <1> USE DEF Segment
  <1>1. CASE \E n \in 0..MaxBody : log(n)
    <2>1. /\ phase' = "framing" /\ body' \in Nat /\ pos' = 0 /\ base' = Len(buf)
          /\ UNCHANGED <<buf, spans, bad>>
      BY <1>1, PageConstants DEF log
    <2>2. Len(buf) \in Nat
      BY LenProperties
    <2> QED
      BY <2>1, <2>2
  <1>2. CASE Fragment
    BY <1>2, FragmentSegment
  <1>3. CASE close_page
    <2>1. buf' \in Seq({buf'[i] : i \in DOMAIN buf'})
      BY <1>3, PaddedBytes
    <2> QED
      BY <1>3, <2>1 DEF close_page
  <1>4. CASE Truncate
    <2>1. buf' \in Seq({buf'[i] : i \in DOMAIN buf'})
      BY <1>4, CutBytes
    <2> QED
      BY <1>4, <2>1 DEF Truncate
  <1>5. CASE Spoil
    <2>1. buf' \in Seq({buf'[i] : i \in DOMAIN buf'}) /\ bad' \in Nat
      BY <1>5, SpoiltBytes
    <2>2. phase' = "reading" /\ UNCHANGED <<body, pos, base, spans>>
      BY <1>5 DEF Spoil
    <2> QED
      BY <2>1, <2>2
  <1>6. CASE AtEnd \/ SkipPadding \/ HeaderFails \/ FragmentFails \/ OutOfPlace \/ TakeFragment
    <2>1. phase' \in {"reading", "done"} /\ UNCHANGED <<buf, body, pos, base, spans, bad>>
      BY <1>6, ReaderSteps DEF written
    <2> QED
      BY <2>1
  <1>7. CASE UNCHANGED vars
    BY <1>7 DEF vars, written
  <1> QED
    BY <1>1, <1>2, <1>3, <1>4, <1>5, <1>6, <1>7 DEF Next

-----------------------------------------------------------------------------
(* The framed size of a record.                                            *)

Per == PageSize - HeaderSize

(* A record of more than k full fragments is allowed k + 1 headers. *)
LEMMA BoundCovers ==
    ASSUME NEW n \in Nat, NEW k \in Nat, k * Per < n \/ k = 0
    PROVE  (k + 1) * HeaderSize + n + (HeaderSize - 1) <= framed_size_upper_bound(n)
  <1> DEFINE nf == IF n = 0 THEN 1 ELSE (n + Per - 1) \div Per
  <1>1. Per \in Nat /\ 0 < Per /\ HeaderSize \in Nat
    BY PageConstants DEF Per
  <1>2. nf \in Nat /\ k + 1 <= nf
    <2>1. CASE n = 0
      <3>1. k = 0
        BY <1>1, <2>1
      <3> QED
        BY <2>1, <3>1
    <2>2. CASE n # 0
      <3> DEFINE x == n + Per - 1
                 q == x \div Per
      <3>1. x \in Nat /\ x >= Per
        BY <1>1, <2>2
      <3>2. q \in Nat /\ x < Per * (q + 1)
        <4> HIDE DEF x
        <4> QED
          BY <1>1, <3>1
      <3>3. k * Per + Per <= x
        BY <1>1, <2>2
      <3> HIDE DEF q, x
      <3>4. k < q + 1 /\ k # q
        <4>1. ASSUME q <= k
              PROVE  FALSE
          <5>1. q * Per <= k * Per
            BY <1>1, <3>2, <4>1, Monotone
          <5>2. Per * (q + 1) = q * Per + Per
            BY <1>1, <3>2
          <5>3. q * Per \in Nat /\ k * Per \in Nat
            BY <1>1, <3>2
          <5> QED
            BY <1>1, <3>1, <3>2, <3>3, <5>1, <5>2, <5>3
        <4> QED
          BY <3>2, <4>1
      <3> QED
        BY <2>2, <3>2, <3>4 DEF q, x
    <2> QED
      BY <2>1, <2>2
  <1>3. framed_size_upper_bound(n) = nf * HeaderSize + n + (HeaderSize - 1)
    BY DEF framed_size_upper_bound, Per
  <1> HIDE DEF nf
  <1>4. (k + 1) * HeaderSize <= nf * HeaderSize
    BY <1>1, <1>2, Monotone
  <1>5. nf * HeaderSize \in Nat /\ (k + 1) * HeaderSize \in Nat
    BY <1>1, <1>2
  <1> QED
    BY <1>1, <1>3, <1>4, <1>5

(* What is framed of the record after one more fragment. *)
LEMMA FragmentFramed ==
    ASSUME FramedSoFar, Fragment
    PROVE  FramedSoFar' /\ Len(buf') - base <= framed_size_upper_bound(body) + 1
  <1> DEFINE L == Len(buf)
             M == Len(buf')
             n == Pad(L)
  <1>1. Segment /\ Segment'
    BY FragmentSegment DEF FramedSoFar
  <1>2. /\ L \in Nat /\ n \in 0..HeaderSize - 1 /\ Start \in Nat /\ Size \in Nat
        /\ pos + Size <= body /\ Size <= page_room(Start) /\ page_room(Start) \in Nat
        /\ ~Ended => Size = page_room(Start) /\ pos + Size < body
        /\ (Start % PageSize) + HeaderSize + page_room(Start) = PageSize
        /\ n # 0 => L % PageSize # 0 /\ Start % PageSize = 0
        /\ Start = L + n
        /\ body \in Nat /\ pos \in Nat /\ base \in Nat
    BY <1>1, SizeFits DEF Start, Segment
  <1>3. M = Start + HeaderSize + Size
    BY <1>1, FragmentBytes
  <1>4. /\ phase = "framing"
        /\ Ended => phase' = "idle"
        /\ ~Ended => phase' = "framing" /\ pos' = pos + Size /\ body' = body /\ base' = base
        /\ Ended => pos + Size = body
    BY FragmentState DEF Ended
  <1>5. HeaderSize \in Nat /\ 1 < HeaderSize /\ Per \in Nat /\ 0 < Per /\ Per = PageSize - HeaderSize
        /\ PageSize \in Nat
    BY PageConstants DEF Per
  <1>6. /\ base <= L
        /\ \/ pos = 0 /\ L = base
           \/ /\ pos < body /\ L % PageSize = 0
              /\ \E f \in 1..body + 1 :
                    \/ L - base = f * HeaderSize + pos /\ (f - 1) * Per <= pos
                    \/ L - base <= f * HeaderSize + pos + (HeaderSize - 1) /\ f * Per = pos
    BY <1>4 DEF FramedSoFar, Per
  <1> HIDE DEF L, M, n
  <1>7. ~Ended => M % PageSize = 0
    <2> SUFFICES ASSUME ~Ended
                 PROVE  M % PageSize = 0
      OBVIOUS
    <2> DEFINE r == Start % PageSize
    <2>1. r \in Nat /\ r + HeaderSize + Size = PageSize
      BY <1>2, DivMod
    <2> HIDE DEF r
    <2>2. r + (HeaderSize + Size) = PageSize /\ HeaderSize + Size \in Nat
      BY <1>2, <1>5, <2>1
    <2>3. (Start + (HeaderSize + Size)) % PageSize = 0
      BY <1>2, <1>5, <2>2, ModAdd DEF r
    <2>4. M = Start + (HeaderSize + Size)
      BY <1>2, <1>3, <1>5
    <2> QED
      BY <2>3, <2>4
  <1> SUFFICES /\ M - base <= framed_size_upper_bound(body) + 1
               /\ base <= M
               /\ ~Ended => \E f \in 1..body + 1 :
                     \/ M - base = f * HeaderSize + (pos + Size) /\ (f - 1) * Per <= pos + Size
                     \/ /\ M - base <= f * HeaderSize + (pos + Size) + (HeaderSize - 1)
                        /\ f * Per = pos + Size
    BY <1>1, <1>2, <1>4, <1>7 DEF FramedSoFar, M, Per
  <1>8. base <= M
    BY <1>2, <1>3, <1>5, <1>6
  <1>9. CASE pos = 0 /\ L = base
    <2>1. M - base = n + HeaderSize + Size /\ pos + Size = Size
      BY <1>2, <1>3, <1>5, <1>9
    <2>2. HeaderSize + body + (HeaderSize - 1) <= framed_size_upper_bound(body)
      <3>1. (0 + 1) * HeaderSize + body + (HeaderSize - 1) <= framed_size_upper_bound(body)
        BY <1>2, BoundCovers
      <3> QED
        BY <1>5, <3>1
    <2>3. framed_size_upper_bound(body) \in Int
      BY <1>2, <1>5 DEF framed_size_upper_bound, Per
    <2>4. M - base <= framed_size_upper_bound(body) + 1
      BY <1>2, <1>5, <1>9, <2>1, <2>2, <2>3
    <2>5. ASSUME ~Ended
          PROVE  \/ M - base = 1 * HeaderSize + (pos + Size) /\ (1 - 1) * Per <= pos + Size
                 \/ /\ M - base <= 1 * HeaderSize + (pos + Size) + (HeaderSize - 1)
                    /\ 1 * Per = pos + Size
      <3>1. CASE n = 0
        BY <1>2, <1>5, <2>1, <3>1
      <3>2. CASE n # 0
        BY <1>2, <1>5, <2>1, <2>5, <3>2
      <3> QED
        BY <3>1, <3>2
    <2>6. 1 \in 1..body + 1
      BY <1>2
    <2> QED
      BY <1>8, <2>4, <2>5, <2>6
  <1>10. CASE pos < body /\ L % PageSize = 0
             /\ \E f \in 1..body + 1 :
                    \/ L - base = f * HeaderSize + pos /\ (f - 1) * Per <= pos
                    \/ L - base <= f * HeaderSize + pos + (HeaderSize - 1) /\ f * Per = pos
    <2>1. PICK f \in 1..body + 1 :
                    \/ L - base = f * HeaderSize + pos /\ (f - 1) * Per <= pos
                    \/ L - base <= f * HeaderSize + pos + (HeaderSize - 1) /\ f * Per = pos
      BY <1>10
    <2>2. f \in Nat /\ f - 1 \in Nat /\ n = 0 /\ Start = L /\ page_room(Start) = Per
      BY <1>2, <1>5, <1>10
    <2>3. M - base = (L - base) + HeaderSize + Size
      BY <1>2, <1>3, <1>5, <2>2
    <2>4. /\ (f + 1) * HeaderSize = f * HeaderSize + HeaderSize /\ (f + 1) * Per = f * Per + Per
          /\ f * Per = (f - 1) * Per + Per
          /\ f * HeaderSize \in Nat /\ f * Per \in Nat /\ (f - 1) * Per \in Nat
          /\ (f - 1) + 1 = f /\ (f + 1) - 1 = f
      BY <1>5, <2>2
    <2>5. framed_size_upper_bound(body) \in Int
      BY <1>2, <1>5 DEF framed_size_upper_bound, Per
    <2>6. CASE L - base = f * HeaderSize + pos /\ (f - 1) * Per <= pos
      <3>1. (f - 1) * Per < body
        BY <1>2, <1>10, <2>4, <2>6
      <3>2. f * HeaderSize + body + (HeaderSize - 1) <= framed_size_upper_bound(body)
        BY <1>2, <2>2, <2>4, <3>1, BoundCovers
      <3>3. M - base <= framed_size_upper_bound(body) + 1
        BY <1>2, <1>5, <2>3, <2>4, <2>5, <2>6, <3>2
      <3>4. f <= body
        <4>1. (f - 1) * 1 <= (f - 1) * Per
          BY <1>5, <2>2, Monotone
        <4> QED
          BY <1>2, <2>2, <2>4, <3>1, <4>1
      <3>5. ~Ended => /\ M - base = (f + 1) * HeaderSize + (pos + Size)
                      /\ ((f + 1) - 1) * Per <= pos + Size
        BY <1>2, <1>5, <2>2, <2>3, <2>4, <2>6
      <3>6. f + 1 \in 1..body + 1
        BY <1>2, <2>2, <3>4
      <3> QED
        BY <1>8, <3>3, <3>5, <3>6
    <2>7. CASE L - base <= f * HeaderSize + pos + (HeaderSize - 1) /\ f * Per = pos
      <3>1. f * Per < body
        BY <1>10, <2>7
      <3>2. (f + 1) * HeaderSize + body + (HeaderSize - 1) <= framed_size_upper_bound(body)
        BY <1>2, <2>2, <3>1, BoundCovers
      <3>3. M - base <= framed_size_upper_bound(body) + 1
        BY <1>2, <1>5, <2>3, <2>4, <2>5, <2>7, <3>2
      <3>4. f <= body
        <4>1. f * 1 <= f * Per
          BY <1>5, <2>2, Monotone
        <4> QED
          BY <1>2, <2>2, <2>4, <3>1, <4>1
      <3>5. ~Ended => /\ M - base <= (f + 1) * HeaderSize + (pos + Size) + (HeaderSize - 1)
                      /\ (f + 1) * Per = pos + Size
        BY <1>2, <1>5, <2>2, <2>3, <2>4, <2>7
      <3>6. f + 1 \in 1..body + 1
        BY <1>2, <2>2, <3>4
      <3> QED
        BY <1>8, <3>3, <3>5, <3>6
    <2> QED
      BY <2>1, <2>6, <2>7
  <1> QED
    BY <1>6, <1>9, <1>10

LEMMA InitFramed ==
    ASSUME Init
    PROVE  FramedSoFar
  BY InitSegment DEF Init, FramedSoFar

LEMMA FramedStays ==
    ASSUME FramedSoFar, [Next]_vars
    PROVE  FramedSoFar'
  <1>1. Segment'
    BY SegmentStays DEF FramedSoFar
  <1>2. CASE \E n \in 0..MaxBody : log(n)
    <2>1. phase' = "framing" /\ pos' = 0 /\ base' = Len(buf) /\ buf' = buf
      BY <1>2 DEF log
    <2>2. Len(buf) \in Nat
      BY LenProperties DEF FramedSoFar, Segment
    <2> QED
      BY <1>1, <2>1, <2>2 DEF FramedSoFar
  <1>3. CASE Fragment
    BY <1>3, FragmentFramed
  <1>4. CASE close_page \/ Truncate \/ Spoil \/ AtEnd \/ SkipPadding \/ HeaderFails
              \/ FragmentFails \/ OutOfPlace \/ TakeFragment
    <2>1. phase' # "framing"
      BY <1>4, ReaderSteps DEF close_page, Truncate, Spoil
    <2> QED
      BY <1>1, <2>1 DEF FramedSoFar
  <1>5. CASE UNCHANGED vars
    BY <1>5 DEF vars, written, FramedSoFar, Segment
  <1> QED
    BY <1>2, <1>3, <1>4, <1>5 DEF Next

(* What is framed of a record is at any time what its fragments, their        *)
(* headers and the padding before the first of them take.                     *)
THEOREM FramedAsCounted == Spec => []FramedSoFar
  <1>1. Init => FramedSoFar
    BY InitFramed
  <1>2. FramedSoFar /\ [Next]_vars => FramedSoFar'
    BY FramedStays
  <1> QED
    BY <1>1, <1>2, PTL DEF Spec

(* PageWriter::log never appends more than one byte beyond what               *)
(* framed_size_upper_bound of SegmentWriter reserves, for every page size,    *)
(* header size and record length.                                             *)
THEOREM FramedSizeBounded == Spec => FramedWithinBound
  <1> DEFINE A == phase = "framing" => Len(buf') - base <= framed_size_upper_bound(body) + 1
  <1>1. FramedSoFar /\ [Next]_vars => [A]_vars
    <2> SUFFICES ASSUME FramedSoFar, Next, phase = "framing"
                 PROVE  Len(buf') - base <= framed_size_upper_bound(body) + 1
      OBVIOUS
    <2>1. Fragment
      BY ReaderSteps DEF Next, log, close_page, Truncate, Spoil
    <2> QED
      BY <2>1, FragmentFramed
  <1>2. Spec => [][A]_vars
    <2> HIDE DEF A
    <2> QED
      BY <1>1, FramedAsCounted, PTL DEF Spec
  <1> QED
    BY <1>2 DEF FramedWithinBound
=============================================================================
