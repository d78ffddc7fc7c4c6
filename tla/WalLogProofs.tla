----------------------------- MODULE WalLogProofs -----------------------------
(***************************************************************************)
(* Proofs about WalPage: the pages of a segment implement the record log.  *)
(***************************************************************************)
EXTENDS WalReadProofs

-----------------------------------------------------------------------------
(* How many records end up to a fragment.                                  *)

EndsUpTo(k) == Ends \cap 1..k

LEMMA EndsFinite ==
    ASSUME Segment
    PROVE  /\ Ends \subseteq 1..Len(spans) /\ IsFiniteSet(Ends) /\ Cardinality(Ends) \in Nat
           /\ \A S \in SUBSET Ends : IsFiniteSet(S) /\ Cardinality(S) \in Nat
           /\ \A S, T \in SUBSET Ends : S \subseteq T => Cardinality(S) <= Cardinality(T)
  <1>1. Ends \subseteq 1..Len(spans)
    BY SpanTypes DEF Ends
  <1>2. IsFiniteSet(1..Len(spans))
    BY SpanTypes, FS_Interval
  <1>3. IsFiniteSet(Ends) /\ Cardinality(Ends) \in Nat
    BY <1>1, <1>2, FS_Subset, FS_CardinalityType
  <1>4. \A S \in SUBSET Ends : IsFiniteSet(S) /\ Cardinality(S) \in Nat
    BY <1>3, FS_Subset, FS_CardinalityType
  <1>5. \A S, T \in SUBSET Ends : S \subseteq T => Cardinality(S) <= Cardinality(T)
    <2> SUFFICES ASSUME NEW S \in SUBSET Ends, NEW T \in SUBSET Ends, S \subseteq T
                 PROVE  Cardinality(S) <= Cardinality(T)
      OBVIOUS
    <2>1. IsFiniteSet(T) /\ S \in SUBSET T
      BY <1>4
    <2> QED
      BY <2>1, FS_Subset
  <1> QED
    BY <1>1, <1>3, <1>4, <1>5

LEMMA EndsCount ==
    ASSUME Segment
    PROVE  /\ \A k : EndsUpTo(k) \in SUBSET Ends /\ Cardinality(EndsUpTo(k)) \in Nat
           /\ EndsUpTo(0) = {} /\ Cardinality(EndsUpTo(0)) = 0
           /\ \A k \in Nat : k + 1 \in Ends =>
                Cardinality(EndsUpTo(k + 1)) = Cardinality(EndsUpTo(k)) + 1
           /\ \A k \in Nat : k + 1 \notin Ends => EndsUpTo(k + 1) = EndsUpTo(k)
  <1>1. \A k : EndsUpTo(k) \in SUBSET Ends
    BY DEF EndsUpTo
  <1>2. \A k : IsFiniteSet(EndsUpTo(k)) /\ Cardinality(EndsUpTo(k)) \in Nat
    BY <1>1, EndsFinite
  <1>3. EndsUpTo(0) = {} /\ Cardinality(EndsUpTo(0)) = 0
    <2>1. EndsUpTo(0) = {}
      BY DEF EndsUpTo
    <2> QED
      BY <2>1, FS_EmptySet
  <1>4. ASSUME NEW k \in Nat
        PROVE  1..k + 1 = (1..k) \cup {k + 1} /\ k + 1 \notin 1..k
    OBVIOUS
  <1>5. ASSUME NEW k \in Nat, k + 1 \in Ends
        PROVE  Cardinality(EndsUpTo(k + 1)) = Cardinality(EndsUpTo(k)) + 1
    <2>1. EndsUpTo(k + 1) = EndsUpTo(k) \cup {k + 1} /\ k + 1 \notin EndsUpTo(k)
      BY <1>4, <1>5 DEF EndsUpTo
    <2> QED
      BY <1>2, <2>1, FS_AddElement
  <1>6. ASSUME NEW k \in Nat, k + 1 \notin Ends
        PROVE  EndsUpTo(k + 1) = EndsUpTo(k)
    BY <1>4, <1>6 DEF EndsUpTo
  <1> QED
    BY <1>1, <1>2, <1>3, <1>5, <1>6

(* Records are numbered in the order of the fragments that end them. *)
LEMMA Numbered ==
    ASSUME Segment, SpansOfRecords
    PROVE  /\ \A i \in 1..Len(spans) : spans[i].rec = Cardinality(EndsUpTo(i - 1)) + 1
           /\ \A i, j \in Ends : i < j => spans[i].rec < spans[j].rec
           /\ \A i, j \in Ends : spans[i].rec = spans[j].rec => i = j
           /\ \A i \in Ends : spans[i].rec <= Cardinality(Ends)
           /\ \A r \in 1..Cardinality(Ends) : \E i \in Ends : spans[i].rec = r
  <1>1. \A i \in 1..Len(spans) : spans[i].rec = Cardinality(EndsUpTo(i - 1)) + 1
    BY SpanTypes, Zenon DEF SpansOfRecords, EndsUpTo
  <1>2. \A i \in Ends : spans[i].rec = Cardinality(EndsUpTo(i))
    <2> SUFFICES ASSUME NEW i \in Ends
                 PROVE  spans[i].rec = Cardinality(EndsUpTo(i))
      OBVIOUS
    <2>1. i \in 1..Len(spans) /\ i - 1 \in Nat /\ (i - 1) + 1 = i
      BY EndsFinite, SpanTypes
    <2>2. Cardinality(EndsUpTo((i - 1) + 1)) = Cardinality(EndsUpTo(i - 1)) + 1
      BY <2>1, EndsCount
    <2> QED
      BY <1>1, <2>1, <2>2
  <1>3. ASSUME NEW i \in Ends, NEW j \in Ends, i < j
        PROVE  spans[i].rec < spans[j].rec
    <2>1. i \in 1..Len(spans) /\ j \in 1..Len(spans) /\ i \in 1..j - 1
      BY <1>3, EndsFinite, SpanTypes
    <2>2. EndsUpTo(i) \subseteq EndsUpTo(j - 1)
      BY <2>1, SpanTypes DEF EndsUpTo
    <2>3. Cardinality(EndsUpTo(i)) <= Cardinality(EndsUpTo(j - 1))
      BY <2>2, EndsCount, EndsFinite
    <2>4. Cardinality(EndsUpTo(i)) \in Nat /\ Cardinality(EndsUpTo(j - 1)) \in Nat
      BY EndsCount
    <2>5. spans[i].rec = Cardinality(EndsUpTo(i)) /\ spans[j].rec = Cardinality(EndsUpTo(j - 1)) + 1
      BY <1>1, <1>2, <2>1
    <2> QED
      BY <2>3, <2>4, <2>5
  <1>4. ASSUME NEW i \in Ends, NEW j \in Ends, spans[i].rec = spans[j].rec
        PROVE  i = j
    <2>1. i \in 1..Len(spans) /\ j \in 1..Len(spans) /\ Len(spans) \in Nat
      BY EndsFinite, SpanTypes
    <2>2. spans[i].rec \in Nat /\ spans[j].rec \in Nat
      BY <2>1, SpanTypes
    <2>3. ~(i < j) /\ ~(j < i)
      BY <1>3, <1>4, <2>2
    <2> QED
      BY <2>1, <2>3
  <1>5. \A i \in Ends : spans[i].rec <= Cardinality(Ends)
    BY <1>2, EndsCount, EndsFinite, SMTT(30)
  <1>6. \A r \in 1..Cardinality(Ends) : \E i \in Ends : spans[i].rec = r
    BY DEF SpansOfRecords
  <1> QED
    BY <1>1, <1>3, <1>4, <1>5, <1>6

-----------------------------------------------------------------------------
(* The records in the file.                                                *)

LEMMA ChooseOnly ==
    ASSUME NEW S, NEW f, NEW r, NEW i \in S, \A j \in S : f[j].rec = r <=> j = i
    PROVE  (CHOOSE j \in S : f[j].rec = r) = i
  OBVIOUS

LEMMA ChooseSame ==
    ASSUME NEW S, NEW T, NEW f, NEW r, \A j : j \in S /\ f[j].rec = r <=> j \in T /\ f[j].rec = r
    PROVE  (CHOOSE j \in S : f[j].rec = r) = (CHOOSE j \in T : f[j].rec = r)
  OBVIOUS

(* The r-th of them. *)
Nth(r) == Body(r, spans[CHOOSE i \in Whole : spans[i].rec = r].size)

LEMMA WholeFacts ==
    ASSUME NEW n \in Nat, n = Cardinality(Whole), NEW w, w = WholeRecords
    PROVE  /\ Len(w) = n /\ DOMAIN w = 1..n /\ \A r \in 1..n : w[r] = Nth(r)
           /\ w \in Seq({w[r] : r \in 1..n})
  <1>1. w = [r \in 1..n |-> Nth(r)]
    BY DEF WholeRecords, Nth
  <1>2. DOMAIN w = 1..n /\ \A r \in 1..n : w[r] = Nth(r)
    BY <1>1
  <1>3. w \in [1..n -> {w[r] : r \in 1..n}]
    BY <1>1
  <1> QED
    BY <1>2, <1>3

LEMMA SamePrefix ==
    ASSUME NEW S, NEW T, NEW a \in Seq(S), NEW b \in Seq(T), NEW n \in Nat, Len(a) = n, n <= Len(b),
           \A r \in 1..n : b[r] = a[r]
    PROVE  SubSeq(b, 1, n) = a
  <1> DEFINE U == S \cup T
             c == SubSeq(b, 1, n)
  <1>1. a \in Seq(U) /\ b \in Seq(U)
    BY SeqMonotonic
  <1> HIDE DEF U
  <1>2. \A r \in 1..n : b[r] \in U
    BY <1>1, LenProperties
  <1>3. /\ c \in Seq(U)
        /\ Len(c) = IF 1 <= n THEN n - 1 + 1 ELSE 0
        /\ \A i \in 1..n - 1 + 1 : c[i] = b[1 + i - 1]
    BY <1>2, SubSeqProperties
  <1> HIDE DEF c
  <1>4. Len(c) = n /\ \A i \in 1..n : c[i] = b[i]
    BY <1>3
  <1>5. c = a
    BY <1>1, <1>3, <1>4, SeqEqual
  <1> QED
    BY <1>5 DEF c

(* Nothing of what was written is missing before the writer stops. *)
LEMMA WholeWritten ==
    ASSUME PageLayout, phase \in {"idle", "framing"}
    PROVE  Whole = Ends
  <1>1. Segment /\ SpansInPages /\ FileEnd
    BY DEF PageLayout
  <1> DEFINE t == To(Len(spans))
  <1>2. t \in Nat /\ Len(buf) \in Nat /\ Len(spans) \in Nat
    BY <1>1, SpanTypes
  <1>3. t <= Len(buf)
    <2>1. t <= PageEnd(t) /\ PageEnd(t) \in Nat
      BY <1>2, PageEndFacts
    <2> QED
      BY <1>1, <1>2, <2>1 DEF FileEnd
  <1>4. ASSUME NEW i \in Ends
        PROVE  spans[i].to <= Len(buf)
    <2>1. i \in 1..Len(spans) /\ i \in 0..Len(spans) /\ Len(spans) \in 0..Len(spans) /\ i <= Len(spans)
      BY <1>1, <1>2, EndsFinite
    <2>2. spans[i].to = To(i) /\ To(i) <= t /\ To(i) \in Nat
      BY <1>1, <2>1, SpansOrdered, SpanTypes
    <2> QED
      BY <1>2, <1>3, <2>2
  <1> QED
    BY <1>4 DEF Whole

(* A fragment that ends a record appends it to the log, any other fragment    *)
(* leaves the log as it is.                                                   *)
LEMMA FragmentLogs ==
    ASSUME PageLayout, Fragment
    PROVE  /\ Ended => /\ Len(WholeRecords') = Len(WholeRecords) + 1
                       /\ SubSeq(WholeRecords', 1, Len(WholeRecords)) = WholeRecords
           /\ ~Ended => WholeRecords' = WholeRecords
  <1>1. /\ PageLayout' /\ Segment /\ Segment' /\ SpansOfRecords
        /\ phase \in {"idle", "framing"} /\ phase' \in {"idle", "framing"}
    <2>1. phase = "framing" /\ phase' = IF Ended THEN "idle" ELSE "framing"
      BY FragmentState
    <2> QED
      BY <2>1, FragmentLayout DEF PageLayout
  <1>2. Whole = Ends /\ Whole' = Ends'
    <2>1. Whole = Ends
      BY <1>1, WholeWritten
    <2>2. PageLayout' /\ (phase \in {"idle", "framing"})' => (Whole = Ends)'
      BY WholeWritten, PTL
    <2> QED
      BY <1>1, <2>1, <2>2
  <1>3. PICK n \in Nat : n = Cardinality(Ends)
    BY <1>1, EndsFinite
  <1>4. /\ Ends \subseteq 1..Len(spans) /\ Ends \subseteq Ends'
        /\ Ended => Ends' = Ends \cup {Len(spans) + 1} /\ Cardinality(Ends') = n + 1
        /\ ~Ended => Ends' = Ends
    BY <1>1, <1>3, NewEnds
  <1>5. /\ \A i \in 1..Len(spans) : spans'[i] = spans[i]
        /\ spans'[Len(spans) + 1].rec = n + 1
    BY <1>1, <1>3, NewSpan
  <1>6. PICK m \in Nat : m = Cardinality(Ends') /\ m = (IF Ended THEN n + 1 ELSE n)
    BY <1>3, <1>4
  <1>7. PICK w : w = WholeRecords
    OBVIOUS
  <1>8. PICK x : x = WholeRecords'
    OBVIOUS
  <1>9. /\ Len(w) = n /\ DOMAIN w = 1..n /\ \A r \in 1..n : w[r] = Nth(r)
        /\ w \in Seq({w[r] : r \in 1..n})
    BY <1>2, <1>3, <1>7, WholeFacts, SMTT(30)
  <1>10. /\ Len(x) = m /\ DOMAIN x = 1..m /\ \A r \in 1..m : x[r] = Nth(r)'
         /\ x \in Seq({x[r] : r \in 1..m})
    <2>1. x = [r \in 1..m |-> Nth(r)']
      BY <1>2, <1>6, <1>8 DEF WholeRecords, Nth
    <2>2. DOMAIN x = 1..m /\ \A r \in 1..m : x[r] = Nth(r)'
      BY <2>1
    <2>3. x \in [1..m -> {x[r] : r \in 1..m}]
      BY <2>1
    <2> QED
      BY <2>2, <2>3, SMTT(30)
  <1>11. ASSUME NEW r \in 1..n
         PROVE  Nth(r)' = Nth(r)
    <2>1. PICK i \in Ends : spans[i].rec = r
      BY <1>1, <1>3, Numbered
    <2>2. \A j \in Ends : spans[j].rec = r <=> j = i
      BY <1>1, <2>1, Numbered
    <2>3. (CHOOSE j \in Whole : spans[j].rec = r) = i
      BY <1>2, <2>1, <2>2, ChooseOnly
    <2>4. \A j \in Ends : spans'[j] = spans[j]
      BY <1>4, <1>5
    <2>5. \A j \in Ends' : spans'[j].rec = r <=> j = i
      <3>1. \A j \in Ends' : j \in Ends \/ (j = Len(spans) + 1 /\ j \notin Ends)
        BY <1>4
      <3>2. n + 1 # r
        OBVIOUS
      <3> QED
        BY <1>5, <2>1, <2>2, <2>4, <3>1, <3>2
    <2>6. i \in Ends'
      BY <1>4, <2>1
    <2>7. (CHOOSE j \in Whole' : spans'[j].rec = r) = i
      <3>1. PICK S : S = Ends'
        OBVIOUS
      <3>2. PICK f : f = spans'
        OBVIOUS
      <3>3. (CHOOSE j \in S : f[j].rec = r) = i
        BY <2>5, <2>6, <3>1, <3>2, ChooseOnly
      <3> QED
        BY <1>2, <3>1, <3>2, <3>3
    <2> QED
      BY <2>3, <2>4, <2>7 DEF Nth
  <1>12. n <= m /\ \A r \in 1..n : r \in 1..m /\ x[r] = w[r]
    BY <1>6, <1>9, <1>10, <1>11
  <1>13. SubSeq(x, 1, n) = w
    BY <1>9, <1>10, <1>12, SamePrefix
  <1>14. ASSUME ~Ended
         PROVE  x = w
    <2>1. m = n
      BY <1>6, <1>14
    <2>2. SubSeq(x, 1, Len(x)) = x
      BY <1>10, SubSeqFull
    <2> QED
      BY <1>10, <1>13, <2>1, <2>2
  <1> QED
    BY <1>6, <1>7, <1>8, <1>9, <1>10, <1>13, <1>14

(* The records that are whole in a file that lost its end are a first part of *)
(* those that were written.                                                   *)
LEMMA StopKeeps ==
    ASSUME PageLayout, Segment', phase = "idle", spans' = spans, Len(buf') <= Len(buf)
    PROVE  \E n \in 0..Len(WholeRecords) : WholeRecords' = SubSeq(WholeRecords, 1, n)
  <1>1. Segment /\ SpansInPages /\ SpansOfRecords
    BY DEF PageLayout
  <1>2. Len(buf) \in Nat /\ Len(buf') \in Nat /\ Len(spans) \in Nat
    BY <1>1, SpanTypes, LenProperties DEF Segment
  <1>3. /\ Ends' = Ends /\ Whole \subseteq Ends /\ Whole' \subseteq Whole
        /\ \A i \in Ends : i \in Whole' <=> spans[i].to <= Len(buf')
    <2>1. Ends' = Ends
      BY DEF Ends
    <2>2. \A i \in Ends : i \in Whole' <=> spans[i].to <= Len(buf')
      BY <2>1 DEF Whole
    <2>3. \A i \in Ends : i \in 1..Len(spans) /\ spans[i].to \in Nat
      BY <1>1, EndsFinite, SpanTypes
    <2>4. \A i \in Ends : spans[i].to <= Len(buf') => spans[i].to <= Len(buf)
      BY <1>2, <2>3
    <2>5. Whole' \subseteq Ends
      BY <2>1 DEF Whole
    <2> QED
      BY <2>1, <2>2, <2>4, <2>5 DEF Whole
  <1>4. PICK n \in Nat : n = Cardinality(Whole)
    BY <1>1, <1>3, EndsFinite
  <1>5. PICK m \in Nat : m = Cardinality(Whole') /\ m <= n
    BY <1>1, <1>3, <1>4, EndsFinite
  <1>6. PICK w : w = WholeRecords
    OBVIOUS
  <1>7. PICK x : x = WholeRecords'
    OBVIOUS
  <1>8. /\ Len(w) = n /\ DOMAIN w = 1..n /\ \A r \in 1..n : w[r] = Nth(r)
        /\ w \in Seq({w[r] : r \in 1..n})
    BY <1>4, <1>6, WholeFacts
  <1>9. /\ Len(x) = m /\ DOMAIN x = 1..m /\ \A r \in 1..m : x[r] = Nth(r)'
        /\ x \in Seq({x[r] : r \in 1..m})
    <2>1. x = [r \in 1..m |-> Nth(r)']
      BY <1>5, <1>7 DEF WholeRecords, Nth
    <2>2. DOMAIN x = 1..m /\ \A r \in 1..m : x[r] = Nth(r)'
      BY <2>1
    <2>3. x \in [1..m -> {x[r] : r \in 1..m}]
      BY <2>1
    <2> QED
      BY <2>2, <2>3
  <1>10. ASSUME NEW r \in 1..m
         PROVE  Nth(r)' = Nth(r)
    <2>1. ASSUME NEW j \in Whole, spans[j].rec = r
          PROVE  j \in Whole'
      <3> SUFFICES ASSUME j \notin Whole'
                   PROVE  FALSE
        OBVIOUS
      <3>1. j \in Ends /\ j \in 1..Len(spans) /\ j - 1 \in Nat
        BY <1>1, <1>3, EndsFinite
      <3>2. ~(spans[j].to <= Len(buf')) /\ spans[j].to \in Nat
        BY <1>1, <1>3, <3>1, SpanTypes
      <3>3. ASSUME NEW i \in Whole'
            PROVE  i \in 1..j - 1
        <4>1. i \in Ends /\ i \in 1..Len(spans) /\ spans[i].to <= Len(buf') /\ spans[i].to \in Nat
          BY <1>1, <1>3, EndsFinite, SpanTypes
        <4>2. ~(j <= i)
          <5>1. j <= i => To(j) <= To(i)
            BY <1>1, <3>1, <4>1, SpansOrdered
          <5>2. To(j) = spans[j].to /\ To(i) = spans[i].to
            BY <1>1, <3>1, <4>1, SpansOrdered
          <5> QED
            BY <1>2, <3>2, <4>1, <5>1, <5>2
        <4> QED
          BY <1>2, <3>1, <4>1, <4>2
      <3>4. Whole' \subseteq EndsUpTo(j - 1)
        BY <1>3, <3>3 DEF EndsUpTo
      <3>5. m <= Cardinality(EndsUpTo(j - 1)) /\ Cardinality(EndsUpTo(j - 1)) \in Nat
        BY <1>1, <1>3, <1>5, <3>4, EndsCount, EndsFinite
      <3>6. r = Cardinality(EndsUpTo(j - 1)) + 1
        BY <1>1, <2>1, <3>1, Numbered
      <3> QED
        BY <3>5, <3>6
    <2>2. PICK T : T = Whole'
      OBVIOUS
    <2>3. \A j : j \in T /\ spans[j].rec = r <=> j \in Whole /\ spans[j].rec = r
      BY <1>3, <2>1, <2>2
    <2>4. (CHOOSE j \in T : spans[j].rec = r) = (CHOOSE j \in Whole : spans[j].rec = r)
      BY <2>3, ChooseSame
    <2> QED
      BY <2>2, <2>4 DEF Nth
  <1>11. SubSeq(w, 1, m) = x
    <2>1. \A r \in 1..m : r \in 1..n /\ w[r] = x[r]
      BY <1>5, <1>8, <1>9, <1>10
    <2> QED
      BY <1>5, <1>8, <1>9, <2>1, SamePrefix
  <1> QED
    BY <1>5, <1>6, <1>7, <1>8, <1>11

-----------------------------------------------------------------------------
(* The sound records.                                                      *)

LEMMA SoundFacts ==
    ASSUME Segment
    PROVE  /\ Sound \subseteq Whole /\ Whole \subseteq Ends
           /\ Cardinality(Whole) \in Nat /\ Cardinality(Sound) \in 0..Cardinality(Whole)
           /\ Len(WholeRecords) = Cardinality(Whole)
           /\ ~Damage => Cardinality(Sound) = Cardinality(Whole)
  <1>1. Sound \subseteq Whole /\ Whole \subseteq Ends
    BY DEF Sound, Whole
  <1>2. /\ Cardinality(Whole) \in Nat /\ Cardinality(Sound) \in Nat
        /\ Cardinality(Sound) <= Cardinality(Whole)
    BY <1>1, EndsFinite
  <1>3. Len(WholeRecords) = Cardinality(Whole)
    BY <1>2, WholeFacts
  <1>4. ASSUME ~Damage
        PROVE  Sound = Whole
    <2>1. bad = 0 /\ \A i \in DOMAIN spans : ~ZeroFirst(spans[i])
      BY <1>4 DEF Damage
    <2>2. \A i \in Whole : \A j \in 1..i : j \in DOMAIN spans
      BY <1>1, EndsFinite, SpanTypes
    <2> QED
      BY <2>1, <2>2 DEF Sound
  <1> QED
    BY <1>1, <1>2, <1>3, <1>4

(* None of them lies behind a fragment that is not whole, that is empty       *)
(* without being a record's last, or that a bad byte can reach.               *)
LEMMA SoundBehind ==
    ASSUME Segment, SpansInPages, NEW k \in 0..Len(spans),
           \/ k = Len(spans)
           \/ Len(buf) < spans[k + 1].to
           \/ ZeroFirst(spans[k + 1])
           \/ bad # 0 /\ ~(spans[k + 1].to < bad)
    PROVE  Cardinality(Sound) <= Cardinality(EndsUpTo(k))
  <1>1. Len(buf) \in Nat /\ bad \in Nat /\ Len(spans) \in Nat
    BY SpanTypes DEF Segment
  <1>2. ASSUME NEW i \in Sound
        PROVE  i \in EndsUpTo(k)
    <2>1. /\ i \in Ends /\ spans[i].to <= Len(buf)
          /\ \A j \in 1..i : ~ZeroFirst(spans[j])
          /\ bad # 0 => spans[i].to < bad
      BY DEF Sound, Whole
    <2>2. i \in 1..Len(spans)
      BY <2>1, EndsFinite
    <2>3. i <= k
      <3> SUFFICES ASSUME k < i
                   PROVE  FALSE
        BY <1>1, <2>2
      <3>1. k + 1 \in 1..Len(spans) /\ k + 1 \in 1..i /\ k + 1 <= i /\ k # Len(spans)
        BY <1>1, <2>2
      <3>2. spans[k + 1].to <= spans[i].to /\ spans[k + 1].to \in Nat /\ spans[i].to \in Nat
        <4>1. k + 1 \in 0..Len(spans) /\ i \in 0..Len(spans)
          BY <1>1, <2>2, <3>1
        <4>2. To(k + 1) <= To(i) /\ To(k + 1) = spans[k + 1].to /\ To(i) = spans[i].to
          BY <2>2, <3>1, <4>1, SpansOrdered
        <4> QED
          BY <2>2, <3>1, <4>2, SpanTypes
      <3> QED
        BY <1>1, <2>1, <3>1, <3>2
    <2> QED
      BY <1>1, <2>1, <2>2, <2>3 DEF EndsUpTo
  <1>3. Sound \in SUBSET Ends
    BY SoundFacts
  <1> QED
    BY <1>2, <1>3, EndsCount, EndsFinite

-----------------------------------------------------------------------------
(* The reader.                                                             *)

LEMMA FileStays ==
    ASSUME UNCHANGED written
    PROVE  /\ WholeRecords' = WholeRecords /\ Sound' = Sound /\ Damage' = Damage /\ Ends' = Ends
           /\ UNCHANGED <<buf, spans, bad>>
  <1>1. UNCHANGED <<buf, spans, bad>>
    BY DEF written
  <1>2. Ends' = Ends
    BY <1>1 DEF Ends
  <1>3. Whole' = Whole
    BY <1>1, <1>2 DEF Whole
  <1>4. Sound' = Sound
    BY <1>1, <1>3, Zenon DEF Sound
  <1>5. Damage' = Damage
    BY <1>1, Zenon DEF Damage
  <1>6. WholeRecords' = WholeRecords
    BY <1>1, <1>3 DEF WholeRecords
  <1> QED
    BY <1>1, <1>2, <1>4, <1>5, <1>6

(* All sound records were returned, and the file is damaged. *)
Past == Damage /\ Len(returned) >= Cardinality(Sound)

LEMMA PastOrReading ==
    ASSUME PageLayout, ReaderSound, phase = "reading", ~Past
    PROVE  \E k : Reading(k) /\ SoundUpTo(k)
  <1>1. PICK k \in 0..Len(spans) : SoundUpTo(k)
    BY DEF ReaderSound, Past
  <1>2. ReadUpTo(k) /\ \A i \in 1..k : ~ZeroFirst(spans[i])
    BY <1>1, Zenon DEF SoundUpTo
  <1>3. Segment /\ SpansInPages
    BY DEF PageLayout
  <1>4. bad = 0 \/ (k < Len(spans) /\ spans[k + 1].to < bad)
    <2> SUFFICES ASSUME bad # 0, ~(k < Len(spans) /\ spans[k + 1].to < bad)
                 PROVE  FALSE
      OBVIOUS
    <2>1. k = Len(spans) \/ (bad # 0 /\ ~(spans[k + 1].to < bad))
      <3>1. Len(spans) \in Nat
        BY <1>3, SpanTypes
      <3>2. k = Len(spans) \/ k < Len(spans)
        BY <3>1
      <3> QED
        BY <3>2
    <2>2. Cardinality(Sound) <= Cardinality(EndsUpTo(k))
      BY <1>3, <2>1, SoundBehind
    <2>3. Len(returned) = Cardinality(EndsUpTo(k))
      BY <1>1 DEF SoundUpTo, EndsUpTo
    <2>4. Cardinality(Sound) \in Nat /\ Cardinality(EndsUpTo(k)) \in Nat
      BY <1>3, SoundFacts, EndsCount
    <2> QED
      BY <2>2, <2>3, <2>4 DEF Past, Damage
  <1>5. Reading(k)
    BY <1>2, <1>4 DEF Reading
  <1> QED
    BY <1>1, <1>5

(* What is returned when nothing sound lies ahead. *)
LEMMA NothingAhead ==
    ASSUME NEW k, Reading(k), SoundUpTo(k),
           \/ k = Len(spans)
           \/ Len(buf) < spans[k + 1].to
           \/ ZeroFirst(spans[k + 1])
    PROVE  Len(returned) >= Cardinality(Sound)
  <1>1. Segment /\ SpansInPages /\ k \in 0..Len(spans)
    BY DEF Reading, PageLayout
  <1>2. Cardinality(Sound) <= Cardinality(EndsUpTo(k))
    BY <1>1, SoundBehind
  <1>3. Len(returned) = Cardinality(EndsUpTo(k))
    BY DEF SoundUpTo, EndsUpTo
  <1>4. Cardinality(Sound) \in Nat /\ Cardinality(EndsUpTo(k)) \in Nat
    BY <1>1, SoundFacts, EndsCount
  <1> QED
    BY <1>2, <1>3, <1>4

(* next() does not fail before all sound records were returned. *)
LEMMA FailsBehind ==
    ASSUME PageLayout, ReaderSound, NEW e, Fail(e),
           AtEnd \/ SkipPadding \/ HeaderFails \/ FragmentFails \/ OutOfPlace
    PROVE  Len(returned) >= Cardinality(Sound)
  <1>1. phase = "reading" /\ phase' = "done"
    BY ReaderSteps DEF Fail
  <1>2. CASE Past
    BY <1>2 DEF Past
  <1>3. CASE ~Past
    <2>1. PICK k : Reading(k) /\ SoundUpTo(k)
      BY <1>1, <1>3, PastOrReading
    <2>2. /\ Len(buf) \in Nat /\ offset \in Nat /\ Len(spans) \in Nat /\ k \in 0..Len(spans)
          /\ \A i \in DOMAIN spans : /\ spans[i].from \in Nat /\ spans[i].to \in Nat
                                     /\ spans[i].from < spans[i].to
                                     /\ i > k => offset <= spans[i].from
          /\ DOMAIN spans = 1..Len(spans)
      <3>1. DOMAIN spans = 1..Len(spans) /\ k \in 0..Len(spans)
        BY <2>1, SpanTypes DEF Reading, PageLayout
      <3> QED
        BY <2>1, <3>1, ReadingFacts
    <2>3. SUFFICES ASSUME k # Len(spans)
                   PROVE  Len(buf) < spans[k + 1].to
      BY <2>1, NothingAhead
    <2>4. k + 1 \in DOMAIN spans /\ k + 1 > k
      <3>1. k \in 0..Len(spans) /\ Len(spans) \in Nat
        BY <2>2
      <3>2. k + 1 \in 1..Len(spans) /\ k + 1 > k
        BY <2>3, <3>1
      <3> QED
        BY <2>2, <3>2
    <2>5. CASE AtEnd
      BY <2>2, <2>4, <2>5 DEF AtEnd
    <2>6. CASE SkipPadding
      <3>1. phase' = "reading"
        BY <2>1, <2>6, SkipReads
      <3> QED
        BY <1>1, <3>1
    <2>7. CASE HeaderFails \/ FragmentFails
      <3>1. More /\ Hdr.k # "zero" /\ offset < Len(buf)
        BY <2>7 DEF HeaderFails, FragmentFails, HeaderRead, HeaderFits, More
      <3>2. k < Len(spans) /\ offset = spans[k + 1].from
        BY <2>1, <3>1, AtHeader
      <3>3. /\ Hdr.k = "hdr" /\ Hdr.type \in RecTypes
            /\ Begin + Hdr.len = spans[k + 1].to /\ Hdr.len \in Nat /\ Begin \in Nat
            /\ \A j \in offset + 2..Begin : j <= Len(buf) => buf[j] = LenAndCrc(Hdr)
            /\ Begin + Hdr.len <= Len(buf) => SubSeq(buf, Begin + 1, Begin + Hdr.len) = Hdr.crc
        BY <2>1, <3>1, <3>2, HeaderAhead
      <3>4. Begin > Len(buf) \/ Begin + Hdr.len > Len(buf)
        <4> SUFFICES ASSUME ~(Begin > Len(buf)), ~(Begin + Hdr.len > Len(buf))
                     PROVE  FALSE
          OBVIOUS
        <4>1. \A j \in offset + 2..Begin : buf[j] = LenAndCrc(Hdr)
          BY <2>2, <3>3
        <4>2. Hdr.type # "Invalid"
          BY <3>3 DEF RecTypes
        <4>3. ~HeaderFails
          BY <3>3, <4>1, <4>2, Zenon DEF HeaderFails
        <4>4. Begin + Hdr.len <= Len(buf)
          BY <2>2, <3>3
        <4>5. ~FragmentFails
          BY <3>3, <4>4, Zenon DEF FragmentFails
        <4> QED
          BY <2>7, <4>3, <4>5
      <3> QED
        BY <2>2, <3>3, <3>4
    <2>8. CASE OutOfPlace
      <3>1. FragmentRead /\ (Hdr.type \in {"Full", "First"} <=> open)
        BY <2>8 DEF OutOfPlace
      <3> QED
        BY <2>1, <3>1, TypeInPlace
    <2> QED
      BY <2>5, <2>6, <2>7, <2>8
  <1> QED
    BY <1>2, <1>3

(* What next() has assembled with the next fragment. *)
LEMMA AssembledNext ==
    ASSUME NEW k, Reading(k), SoundUpTo(k), FragmentRead, NEW m, m = k + 1
    PROVE  LET s == spans[m]
           IN /\ Assembled = SubSeq(Body(s.rec, s.size), 1, s.at + s.len)
              /\ s.last => Assembled = Body(s.rec, s.size)
  <1> DEFINE s == spans[m]
             b == Body(s.rec, s.size)
             p == s.at
             q == s.at + s.len
  <1>1. Segment /\ SpansOfRecords /\ k \in 0..Len(spans) /\ Len(spans) \in Nat /\ k \in Nat
    BY SpanTypes DEF Reading, PageLayout
  <1>2. /\ More /\ Hdr.k # "zero"
    BY DEF FragmentRead, HeaderRead, HeaderFits
  <1>3. /\ m \in 1..Len(spans) /\ m - 1 = k
        /\ Hdr.type \in {"Full", "First"} <=> ~open
        /\ open = ~Between(k) /\ Between(k) \in BOOLEAN
        /\ Hdr.crc = Piece(s)
    <2>1. offset < Len(buf) /\ k < Len(spans) /\ offset = spans[k + 1].from
      BY <1>2, AtHeader
    <2>2. Hdr.crc = Piece(s) /\ m \in 1..Len(spans)
      BY <2>1, HeaderAhead
    <2>3. m - 1 = k
      BY <1>1
    <2> QED
      BY <2>2, <2>3, TypeInPlace, ReadingFacts
  <1>4. /\ s.rec = Cardinality(EndsUpTo(k)) + 1
        /\ s.at = IF Between(k) THEN 0 ELSE spans[k].at + spans[k].len
        /\ ~Between(k) => s.size = spans[k].size
        /\ s.at + s.len <= s.size
        /\ s.last <=> s.at + s.len = s.size
    <2>1. /\ s.rec = Cardinality(EndsUpTo(m - 1)) + 1
          /\ s.at = IF Between(m - 1) THEN 0 ELSE spans[m - 1].at + spans[m - 1].len
          /\ ~Between(m - 1) => s.size = spans[m - 1].size
          /\ s.at + s.len <= s.size
          /\ s.last <=> s.at + s.len = s.size
      BY <1>1, <1>3, SpanTypes, Zenon DEF SpansOfRecords, EndsUpTo
    <2> HIDE DEF s
    <2> QED
      BY <1>3, <2>1, Zenon
  <1>5. p \in Nat /\ s.len \in Nat /\ s.size \in Nat /\ q \in Nat /\ p <= q /\ q <= s.size
    BY <1>1, <1>3, <1>4, SpanTypes, SMTT(30)
  <1>6. PICK z \in Nat : z = s.size
    BY <1>5
  <1>7. b \in Seq({b[j] : j \in 1..z}) /\ Len(b) = z
    <2>1. b = [j \in 1..z |-> [k |-> "body", rec |-> s.rec, at |-> j]]
      BY <1>6 DEF Body
    <2> HIDE DEF b, s
    <2>2. DOMAIN b = 1..z /\ b \in [1..z -> {b[j] : j \in 1..z}]
      BY <2>1
    <2> QED
      BY <2>2
  <1>8. Assembled = SubSeq(b, 1, q)
    <2>1. CASE Between(k)
      <3>1. Assembled = Piece(s) /\ p = 0 /\ q = 0 + s.len
        BY <1>3, <1>4, <2>1 DEF Assembled
      <3> QED
        BY <3>1 DEF Piece
    <2>2. CASE ~Between(k)
      <3>1. Assembled = record \o Piece(s) /\ p = spans[k].at + spans[k].len
        BY <1>3, <1>4, <2>2 DEF Assembled
      <3>2. record = SubSeq(Body(spans[k].rec, spans[k].size), 1, p)
        BY <2>2, <3>1 DEF SoundUpTo
      <3>3. spans[k].rec = s.rec /\ spans[k].size = s.size
        <4>1. k \in 1..Len(spans) /\ k - 1 \in Nat /\ (k - 1) + 1 = k /\ ~spans[k].last
          BY <1>1, <2>2 DEF Between
        <4>2. k \notin Ends
          BY <4>1 DEF Ends
        <4>3. EndsUpTo((k - 1) + 1) = EndsUpTo(k - 1)
          BY <1>1, <4>1, <4>2, EndsCount
        <4>4. spans[k].rec = Cardinality(EndsUpTo(k - 1)) + 1
          BY <1>1, <4>1, Numbered
        <4> QED
          BY <1>4, <2>2, <4>1, <4>3, <4>4
      <3>4. Assembled = SubSeq(b, 1, p) \o SubSeq(b, p + 1, q)
        BY <3>1, <3>2, <3>3 DEF Piece
      <3> HIDE DEF b, p, q, s
      <3>5. PICK T : T = {b[j] : j \in 1..z}
        OBVIOUS
      <3>6. b \in Seq(T) /\ Len(b) = z
        BY <1>7, <3>5
      <3>7. p \in 0..z /\ q \in p..z /\ q <= z
        BY <1>5, <1>6
      <3>8. 1 \in 1..Len(b) + 1 /\ p \in 1 - 1..Len(b) /\ q \in p..Len(b)
        BY <3>6, <3>7
      <3>9. SubSeq(b, 1, p) \o SubSeq(b, p + 1, q) = SubSeq(b, 1, q)
        BY <3>6, <3>8, ConcatAdjacentSubSeq
      <3> QED
        BY <3>4, <3>9
    <2> QED
      BY <2>1, <2>2
  <1>9. s.last => Assembled = b
    <2>1. SubSeq(b, 1, Len(b)) = b
      BY <1>7, SubSeqFull
    <2> QED
      BY <1>4, <1>6, <1>7, <1>8, <2>1
  <1> QED
    BY <1>8, <1>9

(* The record that ends with the next fragment is the next one of the log. *)
LEMMA ReturnsNext ==
    ASSUME NEW k, Reading(k), SoundUpTo(k), FragmentRead, NEW m, m = k + 1, spans[m].last
    PROVE  Len(returned) < Len(WholeRecords) /\ Assembled = WholeRecords[Len(returned) + 1]
  <1>1. /\ Segment /\ SpansInPages /\ SpansOfRecords
        /\ k \in 0..Len(spans) /\ Len(spans) \in Nat /\ k \in Nat /\ Len(buf) \in Nat
    BY SpanTypes DEF Reading, PageLayout
  <1>2. m \in 1..Len(spans) /\ To(m) <= Len(buf) /\ m - 1 = k
    BY <1>1, TypeInPlace DEF FragmentRead
  <1>3. m \in Ends
    BY <1>1, <1>2, SpanTypes DEF Ends
  <1>4. EndsUpTo(m) \subseteq Whole
    <2> SUFFICES ASSUME NEW i \in EndsUpTo(m)
                 PROVE  i \in Whole
      OBVIOUS
    <2>1. i \in Ends /\ i \in 1..Len(spans) /\ i <= m
      BY <1>1, <1>2, EndsFinite DEF EndsUpTo
    <2>2. i \in 0..Len(spans) /\ m \in 0..Len(spans)
      BY <1>1, <1>2, <2>1
    <2>3. To(i) <= To(m) /\ To(i) = spans[i].to /\ To(i) \in Nat /\ To(m) \in Nat
      BY <1>1, <2>1, <2>2, SpansOrdered, SpanTypes
    <2>4. spans[i].to <= Len(buf)
      BY <1>1, <1>2, <2>3
    <2> QED
      BY <2>1, <2>4 DEF Whole
  <1>5. PICK c \in Nat : c = Len(returned) /\ c = Cardinality(EndsUpTo(k))
    BY <1>1, EndsCount DEF SoundUpTo, EndsUpTo
  <1>6. Cardinality(EndsUpTo(m)) = c + 1
    BY <1>1, <1>3, <1>5, EndsCount
  <1>7. PICK n \in Nat : n = Cardinality(Whole) /\ c + 1 <= n
    <2>1. Whole \in SUBSET Ends
      BY <1>1, SoundFacts
    <2> QED
      BY <1>1, <1>4, <1>6, <2>1, EndsCount, EndsFinite, SMTT(30)
  <1>8. Len(WholeRecords) = n /\ WholeRecords[c + 1] = Nth(c + 1)
    <2>1. c + 1 \in 1..n
      BY <1>7
    <2> QED
      BY <1>7, <2>1, WholeFacts
  <1>9. spans[m].rec = c + 1
    BY <1>1, <1>2, <1>5, Numbered
  <1>10. (CHOOSE i \in Whole : spans[i].rec = c + 1) = m
    <2>1. m \in Whole
      <3>1. m \in EndsUpTo(m)
        BY <1>2, <1>3 DEF EndsUpTo
      <3> QED
        BY <1>4, <3>1
    <2>2. \A i \in Whole : spans[i].rec = c + 1 <=> i = m
      BY <1>1, <1>3, <1>9, Numbered DEF Whole
    <2> QED
      BY <2>1, <2>2, ChooseOnly
  <1>11. Assembled = Body(c + 1, spans[m].size)
    BY <1>9, AssembledNext
  <1>12. Nth(c + 1) = Assembled
    BY <1>10, <1>11, Zenon DEF Nth
  <1>13. c < n
    BY <1>7
  <1> QED
    BY <1>5, <1>8, <1>12, <1>13, Zenon

(* What one fragment more does to the records returned. *)
LEMMA TakeReturns ==
    ASSUME TakeFragment, returned \in Seq({returned[i] : i \in DOMAIN returned})
    PROVE  /\ phase = "reading" /\ phase' = "reading" /\ UNCHANGED written /\ FragmentRead
           /\ record' = IF Hdr.type \in {"Full", "Last"} THEN <<>> ELSE Assembled
           /\ returned' \in Seq({returned'[i] : i \in DOMAIN returned'}) /\ Len(returned) \in Nat
           /\ IF Hdr.type \in {"Full", "Last"}
              THEN /\ returned' = Append(returned, Assembled)
                   /\ Len(returned') = Len(returned) + 1
                   /\ SubSeq(returned', 1, Len(returned)) = returned
              ELSE returned' = returned
  <1>1. /\ phase = "reading" /\ phase' = "reading" /\ UNCHANGED written /\ FragmentRead
        /\ record' = IF Hdr.type \in {"Full", "Last"} THEN <<>> ELSE Assembled
        /\ returned' = IF Hdr.type \in {"Full", "Last"} THEN Append(returned, Assembled) ELSE returned
    BY DEF TakeFragment, FragmentRead, HeaderRead, HeaderFits, More
  <1>2. PICK n \in Nat : n = Len(returned)
    BY LenProperties
  <1>3. CASE Hdr.type \in {"Full", "Last"}
    <2>1. PICK a : a = Assembled
      OBVIOUS
    <2>2. PICK S : S = {returned[i] : i \in DOMAIN returned} \cup {a}
      OBVIOUS
    <2>3. returned \in Seq(S) /\ a \in S
      BY <2>2, SeqMonotonic
    <2>4. PICK x : x = returned'
      OBVIOUS
    <2>5. x = Append(returned, a)
      BY <1>1, <1>3, <2>1, <2>4
    <2>6. x \in Seq(S) /\ Len(x) = n + 1 /\ \A i \in 1..n : x[i] = returned[i]
      BY <1>2, <2>3, <2>5, AppendProperties
    <2>7. SubSeq(x, 1, n) = returned
      BY <1>2, <2>3, <2>6, SamePrefix
    <2>8. x \in Seq({x[i] : i \in DOMAIN x})
      BY <2>6, OwnElements
    <2> QED
      BY <1>1, <1>2, <1>3, <2>1, <2>4, <2>5, <2>6, <2>7, <2>8
  <1>4. CASE ~(Hdr.type \in {"Full", "Last"})
    BY <1>1, <1>2, <1>4
  <1> QED
    BY <1>3, <1>4

(* One fragment more: the reader is still among the sound records, or past    *)
(* them; and what it returns is the next record of the log, unless it is past *)
(* the sound ones.                                                            *)
LEMMA TakeSound ==
    ASSUME PageLayout, ReaderSound, TakeFragment
    PROVE  /\ ReaderSound'
           /\ \/ returned' = returned
              \/ /\ Len(returned) < Len(WholeRecords)
                 /\ returned' = Append(returned, WholeRecords[Len(returned) + 1])
              \/ /\ Damage /\ Len(returned) >= Cardinality(Sound)
                 /\ Len(returned') = Len(returned) + 1
                 /\ SubSeq(returned', 1, Len(returned)) = returned
  <1>1. /\ phase = "reading" /\ phase' = "reading" /\ UNCHANGED written /\ FragmentRead
        /\ record' = IF Hdr.type \in {"Full", "Last"} THEN <<>> ELSE Assembled
        /\ returned' \in Seq({returned'[i] : i \in DOMAIN returned'}) /\ Len(returned) \in Nat
        /\ IF Hdr.type \in {"Full", "Last"}
           THEN /\ returned' = Append(returned, Assembled)
                /\ Len(returned') = Len(returned) + 1
                /\ SubSeq(returned', 1, Len(returned)) = returned
           ELSE returned' = returned
    BY TakeReturns DEF ReaderSound
  <1>2. Sound' = Sound /\ Damage' = Damage /\ Ends' = Ends /\ UNCHANGED <<buf, spans, bad>>
    BY <1>1, FileStays
  <1>3. Segment /\ Cardinality(Sound) \in Nat
    BY SoundFacts DEF PageLayout
  <1>4. CASE Past
    <2>1. Damage /\ Len(returned) >= Cardinality(Sound)
      BY <1>4 DEF Past
    <2>2. Len(returned') >= Cardinality(Sound)
      BY <1>1, <1>3, <2>1
    <2>3. ReaderSound'
      BY <1>1, <1>2, <2>1, <2>2 DEF ReaderSound
    <2> QED
      BY <1>1, <2>1, <2>3
  <1>5. CASE ~Past
    <2>1. PICK k : Reading(k) /\ SoundUpTo(k)
      BY <1>1, <1>5, PastOrReading
    <2>2. PICK m : m = k + 1
      OBVIOUS
    <2>3. m \in 0..Len(spans) /\ m \in 1..Len(spans) /\ ReadUpTo(m)'
      BY <2>1, <2>2, TakeReads
    <2>4. /\ Hdr.type \in {"Full", "Last"} <=> spans[m].last
          /\ Between(m) = spans[m].last /\ spans[m].last \in BOOLEAN
      BY <1>1, <2>1, <2>2, TypeInPlace
    <2>5. CASE ZeroFirst(spans[m])
      <3>1. ~spans[m].last /\ Damage
        BY <1>3, <2>3, <2>5, SpanTypes DEF ZeroFirst, Damage
      <3>2. returned' = returned
        BY <1>1, <2>4, <3>1
      <3>3. Len(returned) >= Cardinality(Sound)
        BY <2>1, <2>2, <2>5, NothingAhead
      <3> QED
        BY <1>1, <1>2, <3>1, <3>2, <3>3 DEF ReaderSound
    <2>6. CASE ~ZeroFirst(spans[m])
      <3>1. k \in Nat /\ m - 1 = k
        BY <2>1, <2>2, ReadingFacts
      <3>2. \A i \in 1..m : ~ZeroFirst(spans[i]) /\ (bad # 0 => spans[i].to < bad)
        <4>1. \A i \in 1..m : i \in 1..k \/ i = m
          BY <2>2, <3>1
        <4>2. \A i \in 1..k : ~ZeroFirst(spans[i]) /\ (bad # 0 => spans[i].to < bad)
          BY <2>1, Zenon DEF SoundUpTo
        <4>3. bad # 0 => spans[m].to < bad
          BY <2>1, <2>2, Zenon DEF Reading
        <4> QED
          BY <2>6, <4>1, <4>2, <4>3
      <3>3. Len(returned) = Cardinality(EndsUpTo(k)) /\ Cardinality(EndsUpTo(k)) \in Nat
        BY <1>3, <2>1, EndsCount DEF SoundUpTo, EndsUpTo
      <3>4. m \in Ends <=> spans[m].last
        BY <1>3, <2>3, SpanTypes DEF Ends
      <3>5. Len(returned') = Cardinality(EndsUpTo(m))
        <4>1. CASE spans[m].last
          BY <1>1, <1>3, <2>2, <2>4, <3>1, <3>3, <3>4, <4>1, EndsCount
        <4>2. CASE ~spans[m].last
          BY <1>1, <1>3, <2>2, <2>4, <3>1, <3>3, <3>4, <4>2, EndsCount
        <4> QED
          BY <4>1, <4>2
      <3>6. record' = IF Between(m) THEN <<>>
                      ELSE SubSeq(Body(spans[m].rec, spans[m].size), 1, spans[m].at + spans[m].len)
        BY <1>1, <2>1, <2>2, <2>4, AssembledNext
      <3>7. SoundUpTo(m)'
        <4>1. Between(m)' = Between(m)
          BY <1>2 DEF Between
        <4>2. (\A i \in 1..m : ~ZeroFirst(spans[i]) /\ (bad # 0 => spans[i].to < bad))'
          BY <1>2, <3>2, Zenon
        <4>3. (Len(returned) = Cardinality(Ends \cap 1..m))'
          BY <1>2, <3>5 DEF EndsUpTo
        <4>4. (record = IF Between(m) THEN <<>>
                ELSE SubSeq(Body(spans[m].rec, spans[m].size), 1, spans[m].at + spans[m].len))'
          BY <1>2, <3>6, <4>1, Zenon
        <4> QED
          BY <2>3, <4>2, <4>3, <4>4, Zenon DEF SoundUpTo
      <3>8. ReaderSound'
        BY <1>1, <1>2, <2>3, <3>7 DEF ReaderSound
      <3>9. CASE spans[m].last
        <4>1. Len(returned) < Len(WholeRecords) /\ Assembled = WholeRecords[Len(returned) + 1]
          BY <1>1, <2>1, <2>2, <3>9, ReturnsNext
        <4>2. returned' = Append(returned, WholeRecords[Len(returned) + 1])
          BY <1>1, <2>4, <3>9, <4>1
        <4> QED
          BY <3>8, <4>1, <4>2
      <3>10. CASE ~spans[m].last
        BY <1>1, <2>4, <3>8, <3>10
      <3> QED
        BY <3>9, <3>10
    <2> QED
      BY <2>5, <2>6
  <1> QED
    BY <1>4, <1>5

(* Padding is skipped, or next() fails. *)
LEMMA SkipSound ==
    ASSUME PageLayout, ReaderSound, SkipPadding
    PROVE  \/ phase' = "reading" /\ UNCHANGED <<written, returned>> /\ ReaderSound'
           \/ Fail("InvalidRecType")
  <1> SUFFICES ASSUME ~Fail("InvalidRecType")
               PROVE  phase' = "reading" /\ UNCHANGED <<written, returned>> /\ ReaderSound'
    OBVIOUS
  <1>1. phase = "reading" /\ phase' = "reading" /\ UNCHANGED written /\ UNCHANGED <<record, returned>>
    BY DEF SkipPadding, More
  <1>2. Sound' = Sound /\ Damage' = Damage /\ Ends' = Ends /\ UNCHANGED <<buf, spans, bad>>
    BY <1>1, FileStays
  <1>3. CASE Past
    BY <1>1, <1>2, <1>3 DEF ReaderSound, Past
  <1>4. CASE ~Past
    <2>1. PICK k : Reading(k) /\ SoundUpTo(k)
      BY <1>1, <1>4, PastOrReading
    <2>2. ReadUpTo(k)' /\ k \in 0..Len(spans)
      BY <2>1, SkipReads DEF Reading
    <2>3. Between(k)' = Between(k)
      BY <1>2 DEF Between
    <2>4. SoundUpTo(k)'
      BY <1>1, <1>2, <2>1, <2>2, <2>3, Zenon DEF SoundUpTo
    <2> QED
      BY <1>1, <1>2, <2>2, <2>4 DEF ReaderSound
  <1> QED
    BY <1>3, <1>4

LEMMA StopsReading ==
    ASSUME AtEnd \/ HeaderFails \/ FragmentFails \/ OutOfPlace
    PROVE  \E e : Fail(e)
  <1>1. CASE AtEnd
    BY <1>1 DEF AtEnd
  <1>2. CASE HeaderFails
    BY <1>2 DEF HeaderFails
  <1>3. CASE FragmentFails
    BY <1>3 DEF FragmentFails
  <1>4. CASE OutOfPlace
    BY <1>4 DEF OutOfPlace
  <1> QED
    BY <1>1, <1>2, <1>3, <1>4

(* What the writer leaves behind. *)
LEMMA Stops ==
    ASSUME PageLayout, Truncate \/ Spoil
    PROVE  /\ PageLayout' /\ Segment' /\ phase = "idle" /\ phase' = "reading"
           /\ spans' = spans /\ Len(buf') <= Len(buf)
           /\ UNCHANGED read /\ offset = 0 /\ open = FALSE /\ record = <<>> /\ returned = <<>>
  <1>1. PageLayout'
    BY CutLayout, SpoilLayout
  <1>2. phase = "idle" /\ phase' = "reading" /\ spans' = spans /\ UNCHANGED read
    BY DEF Truncate, Spoil
  <1>3. Segment
    BY DEF PageLayout
  <1>4. Len(buf') <= Len(buf)
    <2>1. Len(buf) \in Nat
      BY <1>3, SpanTypes
    <2>2. CASE Truncate
      BY <1>3, <2>1, <2>2, CutBytes
    <2>3. CASE Spoil
      BY <1>3, <2>1, <2>3, SpoiltBytes
    <2> QED
      BY <2>2, <2>3
  <1> QED
    BY <1>1, <1>2, <1>4 DEF PageLayout

LEMMA SoundStays ==
    ASSUME PageLayout, ReaderSound, [Next]_vars
    PROVE  ReaderSound'
  <1>1. CASE UNCHANGED vars
    <2>1. UNCHANGED <<phase, written, offset, open, record, returned>>
      BY <1>1 DEF vars, read
    <2>2. Sound' = Sound /\ Damage' = Damage /\ Ends' = Ends /\ UNCHANGED <<buf, spans, bad>>
      BY <2>1, FileStays
    <2>3. ASSUME NEW k
          PROVE  SoundUpTo(k)' <=> SoundUpTo(k)
      BY <2>1, <2>2, Zenon DEF SoundUpTo, ReadUpTo, To, Between
    <2> QED
      BY <2>1, <2>2, <2>3, Zenon DEF ReaderSound
  <1>2. CASE (\E n \in 0..MaxBody : log(n)) \/ Fragment \/ close_page
    <2>1. phase' # "reading" /\ returned' = returned
      <3>1. CASE \E n \in 0..MaxBody : log(n)
        BY <3>1 DEF log, read
      <3>2. CASE Fragment
        BY <3>2, FragmentState DEF read
      <3>3. CASE close_page
        BY <3>3 DEF close_page, read
      <3> QED
        BY <1>2, <3>1, <3>2, <3>3
    <2> QED
      BY <2>1 DEF ReaderSound
  <1>3. CASE Truncate \/ Spoil
    <2>1. /\ PageLayout' /\ Segment' /\ phase' = "reading" /\ spans' = spans
          /\ offset' = 0 /\ open' = FALSE /\ record' = <<>> /\ returned' = <<>>
      BY <1>3, Stops DEF read
    <2>2. Len(buf') \in Nat /\ Len(spans) \in Nat
      BY <2>1, SpanTypes, LenProperties DEF Segment, PageLayout
    <2>3. To(0)' = 0 /\ Between(0)' = TRUE
      BY DEF To, Between
    <2>4. ReadUpTo(0)'
      <3>1. To(0)' <= offset' /\ offset' <= Len(buf') /\ offset' = To(0)' /\ open' = FALSE
        BY <2>1, <2>2, <2>3
      <3> QED
        BY <2>3, <3>1, Zenon DEF ReadUpTo
    <2>5. Cardinality(Ends \cap 1..0)' = 0
      <3>1. (Ends \cap 1..0)' = {}
        OBVIOUS
      <3> QED
        BY <3>1, FS_EmptySet
    <2>6. SoundUpTo(0)'
      <3>1. (\A i \in 1..0 : ~ZeroFirst(spans[i]) /\ (bad # 0 => spans[i].to < bad))'
        OBVIOUS
      <3>2. Len(returned') = 0
        BY <2>1
      <3> QED
        BY <2>1, <2>3, <2>4, <2>5, <3>1, <3>2, Zenon DEF SoundUpTo
    <2>7. returned' \in Seq({returned'[i] : i \in DOMAIN returned'})
      BY <2>1
    <2>8. 0 \in 0..Len(spans')
      BY <2>1, <2>2
    <2> QED
      BY <2>6, <2>7, <2>8 DEF ReaderSound
  <1>4. ASSUME NEW e, Fail(e)
        PROVE  ReaderSound'
    BY <1>4 DEF Fail, ReaderSound
  <1>5. CASE AtEnd \/ HeaderFails \/ FragmentFails \/ OutOfPlace
    BY <1>4, <1>5, StopsReading
  <1>6. CASE SkipPadding
    BY <1>4, <1>6, SkipSound
  <1>7. CASE TakeFragment
    BY <1>7, TakeSound
  <1> QED
    BY <1>1, <1>2, <1>3, <1>5, <1>6, <1>7 DEF Next

-----------------------------------------------------------------------------
(* Every step is a step of the record log, or leaves it alone.             *)

LogMode == IF phase \in {"idle", "framing"} THEN "writing" ELSE phase
LogSound == IF phase \in {"idle", "framing"} THEN 0 ELSE Cardinality(Sound)
LogDamaged == phase \in {"reading", "done"} /\ Damage

LEMMA LogStutter ==
    ASSUME UNCHANGED <<LogMode, WholeRecords, returned, LogSound, LogDamaged>>
    PROVE  UNCHANGED Log!vars
  BY DEF Log!vars, LogMode, LogSound, LogDamaged

LEMMA WriterRefines ==
    ASSUME PageLayout, (\E n \in 0..MaxBody : log(n)) \/ Fragment \/ close_page
    PROVE  [Log!Next]_(Log!vars)
  <1>1. /\ phase \in {"idle", "framing"} /\ phase' \in {"idle", "framing"} /\ returned' = returned
    <2>1. CASE \E n \in 0..MaxBody : log(n)
      BY <2>1 DEF log, read
    <2>2. CASE Fragment
      BY <2>2, FragmentState DEF read
    <2>3. CASE close_page
      BY <2>3 DEF close_page, read
    <2> QED
      BY <2>1, <2>2, <2>3
  <1>2. /\ LogMode = "writing" /\ LogMode' = "writing" /\ LogSound = 0 /\ LogSound' = 0
        /\ LogDamaged = FALSE /\ LogDamaged' = FALSE
    BY <1>1 DEF LogMode, LogSound, LogDamaged
  <1>3. ASSUME WholeRecords' = WholeRecords
        PROVE  UNCHANGED Log!vars
    BY <1>1, <1>2, <1>3, LogStutter
  <1>4. CASE \E n \in 0..MaxBody : log(n)
    <2>1. UNCHANGED <<buf, spans, bad>>
      BY <1>4 DEF log
    <2>2. Whole' = Whole
      BY <2>1 DEF Whole, Ends
    <2> QED
      BY <1>3, <2>1, <2>2 DEF WholeRecords
  <1>5. CASE close_page
    <2>1. spans' = spans
      BY <1>5 DEF close_page
    <2>2. Ends' = Ends
      BY <2>1 DEF Ends
    <2>3. Whole = Ends
      BY <1>1, WholeWritten
    <2>4. PageLayout' /\ (phase \in {"idle", "framing"})' => (Whole = Ends)'
      BY WholeWritten, PTL
    <2>5. Whole' = Whole
      BY <1>1, <1>5, <2>2, <2>3, <2>4, CloseLayout
    <2> QED
      BY <1>3, <2>1, <2>5 DEF WholeRecords
  <1>6. CASE Fragment
    <2>1. CASE Ended
      <3>1. /\ Len(WholeRecords') = Len(WholeRecords) + 1
            /\ SubSeq(WholeRecords', 1, Len(WholeRecords)) = WholeRecords
        BY <1>6, <2>1, FragmentLogs
      <3>2. Log!Log
        BY <1>1, <1>2, <3>1 DEF Log!Log, LogMode, LogSound, LogDamaged
      <3> QED
        BY <3>2 DEF Log!Next
    <2>2. CASE ~Ended
      BY <1>3, <1>6, <2>2, FragmentLogs
    <2> QED
      BY <2>1, <2>2
  <1> QED
    BY <1>4, <1>5, <1>6

LEMMA StopRefines ==
    ASSUME PageLayout, Truncate \/ Spoil
    PROVE  Log!Stop
  <1>1. /\ Segment' /\ phase = "idle" /\ phase' = "reading" /\ returned' = returned
        /\ spans' = spans /\ Len(buf') <= Len(buf)
    BY Stops DEF read
  <1>2. \E n \in 0..Len(WholeRecords) : WholeRecords' = SubSeq(WholeRecords, 1, n)
    BY <1>1, StopKeeps
  <1>3. Segment' =>
          (/\ Sound \subseteq Whole /\ Whole \subseteq Ends
           /\ Cardinality(Whole) \in Nat /\ Cardinality(Sound) \in 0..Cardinality(Whole)
           /\ Len(WholeRecords) = Cardinality(Whole)
           /\ ~Damage => Cardinality(Sound) = Cardinality(Whole))'
    BY SoundFacts, PTL
  <1>4. /\ LogMode = "writing" /\ LogMode' = "reading" /\ LogSound' = Cardinality(Sound')
        /\ LogDamaged' = Damage' /\ Damage' \in BOOLEAN
    BY <1>1 DEF LogMode, LogSound, LogDamaged, Damage
  <1>5. LogSound' \in 0..Len(WholeRecords') /\ (LogDamaged' \/ LogSound' = Len(WholeRecords'))
    BY <1>1, <1>3, <1>4
  <1> QED
    BY <1>1, <1>2, <1>4, <1>5 DEF Log!Stop, LogMode, LogSound, LogDamaged

LEMMA FailRefines ==
    ASSUME PageLayout, ReaderSound, NEW e, Fail(e),
           AtEnd \/ SkipPadding \/ HeaderFails \/ FragmentFails \/ OutOfPlace
    PROVE  Log!Finish
  <1>1. phase = "reading" /\ phase' = "done" /\ UNCHANGED written /\ returned' = returned
    BY ReaderSteps DEF Fail
  <1>2. WholeRecords' = WholeRecords /\ Sound' = Sound /\ Damage' = Damage
    BY <1>1, FileStays
  <1>3. Len(returned) >= Cardinality(Sound)
    BY FailsBehind
  <1>4. /\ LogMode = "reading" /\ LogMode' = "done" /\ LogSound = Cardinality(Sound)
        /\ LogSound' = LogSound /\ LogDamaged' = LogDamaged
    BY <1>1, <1>2 DEF LogMode, LogSound, LogDamaged
  <1> QED
    BY <1>1, <1>2, <1>3, <1>4 DEF Log!Finish, LogMode, LogSound, LogDamaged

LEMMA TakeRefines ==
    ASSUME PageLayout, ReaderSound, TakeFragment
    PROVE  [Log!Next]_(Log!vars)
  <1>1. phase = "reading" /\ phase' = "reading" /\ UNCHANGED written
    BY ReaderSteps, TakeReturns DEF ReaderSound
  <1>2. WholeRecords' = WholeRecords /\ Sound' = Sound /\ Damage' = Damage
    BY <1>1, FileStays
  <1>3. /\ LogMode = "reading" /\ LogMode' = "reading" /\ LogSound = Cardinality(Sound)
        /\ LogSound' = LogSound /\ LogDamaged' = LogDamaged /\ LogDamaged = Damage
    BY <1>1, <1>2 DEF LogMode, LogSound, LogDamaged, Damage
  <1>4. CASE returned' = returned
    BY <1>2, <1>3, <1>4, LogStutter
  <1>5. CASE /\ Len(returned) < Len(WholeRecords)
             /\ returned' = Append(returned, WholeRecords[Len(returned) + 1])
    <2>1. Log!Return
      BY <1>2, <1>3, <1>5 DEF Log!Return, LogMode, LogSound, LogDamaged
    <2> QED
      BY <2>1 DEF Log!Next
  <1>6. CASE /\ Damage /\ Len(returned) >= Cardinality(Sound)
             /\ Len(returned') = Len(returned) + 1
             /\ SubSeq(returned', 1, Len(returned)) = returned
    <2>1. Log!Garble
      BY <1>2, <1>3, <1>6 DEF Log!Garble, LogMode, LogSound, LogDamaged
    <2> QED
      BY <2>1 DEF Log!Next
  <1> QED
    BY <1>4, <1>5, <1>6, TakeSound

LEMMA StepsRefine ==
    ASSUME PageLayout, ReaderSound, [Next]_vars
    PROVE  [Log!Next]_(Log!vars)
  <1>1. CASE UNCHANGED vars
    <2>1. UNCHANGED <<phase, returned>> /\ UNCHANGED written
      BY <1>1 DEF vars, read
    <2>2. WholeRecords' = WholeRecords /\ Sound' = Sound /\ Damage' = Damage
      BY <2>1, FileStays
    <2>3. UNCHANGED <<LogMode, LogSound, LogDamaged>>
      BY <2>1, <2>2 DEF LogMode, LogSound, LogDamaged
    <2> QED
      BY <2>1, <2>2, <2>3, LogStutter
  <1>2. CASE (\E n \in 0..MaxBody : log(n)) \/ Fragment \/ close_page
    BY <1>2, WriterRefines
  <1>3. CASE Truncate \/ Spoil
    BY <1>3, StopRefines DEF Log!Next
  <1>4. CASE AtEnd \/ HeaderFails \/ FragmentFails \/ OutOfPlace
    BY <1>4, StopsReading, FailRefines DEF Log!Next
  <1>5. CASE SkipPadding
    <2>1. CASE Fail("InvalidRecType")
      BY <1>5, <2>1, FailRefines DEF Log!Next
    <2>2. CASE phase' = "reading" /\ UNCHANGED <<written, returned>>
      <3>1. phase = "reading" /\ UNCHANGED written /\ returned' = returned
        BY <1>5, <2>2 DEF SkipPadding, More
      <3>2. WholeRecords' = WholeRecords /\ Sound' = Sound /\ Damage' = Damage
        BY <3>1, FileStays
      <3>3. UNCHANGED <<LogMode, LogSound, LogDamaged>>
        BY <2>2, <3>1, <3>2 DEF LogMode, LogSound, LogDamaged
      <3> QED
        BY <3>1, <3>2, <3>3, LogStutter
    <2> QED
      BY <1>5, <2>1, <2>2, SkipSound
  <1>6. CASE TakeFragment
    BY <1>6, TakeRefines
  <1> QED
    BY <1>1, <1>2, <1>3, <1>4, <1>5, <1>6 DEF Next

LEMMA InitRefines ==
    ASSUME Init
    PROVE  Log!Init /\ ReaderSound
  <1>1. phase = "idle" /\ spans = <<>> /\ returned = <<>>
    BY DEF Init
  <1>2. Cardinality(Whole) = 0
    <2>1. Whole = {}
      BY <1>1 DEF Whole, Ends
    <2> QED
      BY <2>1, FS_EmptySet
  <1>3. WholeRecords = <<>>
    <2>1. PICK w : w = WholeRecords
      OBVIOUS
    <2>2. Len(w) = 0 /\ w \in Seq({w[r] : r \in 1..0})
      BY <1>2, <2>1, WholeFacts
    <2> QED
      BY <2>1, <2>2, EmptySeq
  <1>4. Log!Init
    BY <1>1, <1>3 DEF Log!Init
  <1>5. ReaderSound
    BY <1>1 DEF ReaderSound
  <1> QED
    BY <1>4, <1>5

(* PageReader is among the records that no damage reaches, with all that end   *)
(* before it returned and the record it is in assembled so far; or it has      *)
(* returned them all.                                                          *)
THEOREM ReaderStaysSound == Spec => []ReaderSound
  <1>1. Init => ReaderSound
    BY InitRefines
  <1>2. PageLayout /\ ReaderSound /\ [Next]_vars => ReaderSound'
    BY SoundStays
  <1> QED
    BY <1>1, <1>2, BytesStayInPlace, PTL DEF Spec

(* The pages of a segment implement the record log, for every page size,       *)
(* header size and record length: what PageReader::next returns are the        *)
(* records that PageWriter::log was given, in order and unaltered, at least    *)
(* all that no damage to the file reaches.                                     *)
THEOREM PagesImplementLog == Spec => ImplementsRecordLog
  <1>1. Init => Log!Init
    BY InitRefines
  <1>2. PageLayout /\ ReaderSound /\ [Next]_vars => [Log!Next]_(Log!vars)
    BY StepsRefine
  <1> QED
    BY <1>1, <1>2, BytesStayInPlace, ReaderStaysSound, PTL DEF Spec, ImplementsRecordLog, Log!Spec
=============================================================================
