--------------------------- MODULE HeadOrderProofs ---------------------------
(***************************************************************************)
(* Head.tla accepts its own log, and rebuilds from it what was logged: the *)
(* proof of ReplayNeverRefuses, by the inductive invariant LogInOrder, and *)
(* the proof of ReplayExact, by the inductive invariant SamplesInStep.     *)
(***************************************************************************)
EXTENDS HeadCommitProofs, Induction

\* A Series record of the log w before slot n binds ref.
Introduced(w, n, ref) ==
    \E i \in 1..Len(w) : i < n /\ w[i].type = "Series" /\
       \E k \in DOMAIN w[i].items : w[i].items[k].ref = ref

\* Every sample of the log w comes after a Series record of its ref.
SeriesFirstIn(w) ==
    \A j \in 1..Len(w) : w[j].type = "SamplesV2" =>
        \A m \in DOMAIN w[j].items : Introduced(w, j, w[j].items[m].ref)

\* No sample of series ref in the slot s is after the time t.
NotAfter(s, ref, t) ==
    s.type = "SamplesV2" => \A k \in DOMAIN s.items : s.items[k].ref = ref => s.items[k].t <= t

\* The samples p of a buffer or a record are in time order, series by series.
SortedItems(p) ==
    \A k, m \in DOMAIN p : p[k].ref = p[m].ref /\ k < m => p[k].t <= p[m].t

\* Each slot of the log w is in order, and no slot goes back behind another.
NoStepBackIn(w) ==
    \A j \in 1..Len(w) : w[j].type = "SamplesV2" =>
        /\ SortedItems(w[j].items)
        /\ \A m \in DOMAIN w[j].items : \A i \in 1..Len(w) :
              i < j => NotAfter(w[i], w[j].items[m].ref, w[j].items[m].t)

\* No sample of the log w is after a sample of the buffer p.
Follows(w, p) ==
    \A m \in DOMAIN p : \A i \in 1..Len(w) : NotAfter(w[i], p[m].ref, p[m].t)

\* The head has every sample of the log w.
HeldLog(w) ==
    \A i \in 1..Len(w) : w[i].type = "SamplesV2" =>
        \A k \in DOMAIN w[i].items : Replayed(w[i].items[k])

\* Every series has its Series record in the log w or in the buffer p.
KnownSeries(w, p) ==
    \A l \in Labels : by_labels[l] # 0 =>
        \/ Introduced(w, Len(w) + 1, by_labels[l])
        \/ \E k \in DOMAIN p : p[k].ref = by_labels[l]

\* Every series of refs is in time order.
SortedRefs(refs) ==
    \A r \in 1..Len(refs) : \A k, m \in DOMAIN refs[r].samples :
        k < m => refs[r].samples[k].t <= refs[r].samples[m].t

(* The invariant in terms of these. *)
LEMMA OrderForms ==
    TypeOK =>
      /\ SeriesSorted <=> SortedRefs(by_ref)
      /\ SeriesFirst <=> SeriesFirstIn(wal)
      /\ NoStepBack <=> NoStepBackIn(wal)
      /\ PendingInOrder <=>
            (phase \in Running =>
                /\ KnownSeries(wal, pending_series)
                /\ phase = "logSamples" => pending_series = <<>>
                /\ \A k \in DOMAIN pending_samples : Replayed(pending_samples[k])
                /\ SortedItems(pending_samples)
                /\ HeldLog(wal)
                /\ Follows(wal, pending_samples))
  <1> SUFFICES ASSUME TypeOK
               PROVE  /\ SeriesSorted <=> SortedRefs(by_ref)
                      /\ SeriesFirst <=> SeriesFirstIn(wal)
                      /\ NoStepBack <=> NoStepBackIn(wal)
                      /\ PendingInOrder <=>
                            (phase \in Running =>
                                /\ KnownSeries(wal, pending_series)
                                /\ phase = "logSamples" => pending_series = <<>>
                                /\ \A k \in DOMAIN pending_samples : Replayed(pending_samples[k])
                                /\ SortedItems(pending_samples)
                                /\ HeldLog(wal)
                                /\ Follows(wal, pending_samples))
    OBVIOUS
  <1>1. /\ wal \in Seq(Slots) /\ DOMAIN wal = 1..Len(wal) /\ DOMAIN by_ref = 1..Len(by_ref)
        /\ Len(wal) \in Nat
    BY LenProperties DEF TypeOK
  <1>2. SeriesSorted <=> SortedRefs(by_ref)
    BY <1>1 DEF SeriesSorted, SortedRefs
  <1>3. \A n, ref : IntroducedBefore(n, ref) <=> Introduced(wal, n, ref)
    BY <1>1 DEF IntroducedBefore, Introduced, IsSeries
  <1>4. SeriesFirst <=> SeriesFirstIn(wal)
    BY <1>1, <1>3 DEF SeriesFirst, SeriesFirstIn
  <1>5. NoStepBack => NoStepBackIn(wal)
    <2> SUFFICES ASSUME NoStepBack, NEW j \in 1..Len(wal), wal[j].type = "SamplesV2"
                 PROVE  /\ SortedItems(wal[j].items)
                        /\ \A m \in DOMAIN wal[j].items : \A i \in 1..Len(wal) :
                              i < j => NotAfter(wal[i], wal[j].items[m].ref, wal[j].items[m].t)
      BY DEF NoStepBackIn
    <2>1. SortedItems(wal[j].items)
      BY <1>1 DEF NoStepBack, SortedItems, Before
    <2>2. \A m \in DOMAIN wal[j].items : \A i \in 1..Len(wal) :
             i < j => NotAfter(wal[i], wal[j].items[m].ref, wal[j].items[m].t)
      BY <1>1 DEF NoStepBack, NotAfter, Before
    <2> QED
      BY <2>1, <2>2
  <1>6. NoStepBackIn(wal) => NoStepBack
    <2> SUFFICES ASSUME NoStepBackIn(wal),
                        NEW i \in 1..Len(wal), NEW j \in 1..Len(wal),
                        wal[i].type = "SamplesV2", wal[j].type = "SamplesV2",
                        NEW k \in DOMAIN wal[i].items, NEW m \in DOMAIN wal[j].items,
                        wal[i].items[k].ref = wal[j].items[m].ref, Before(i, k, j, m)
                 PROVE  wal[i].items[k].t <= wal[j].items[m].t
      BY <1>1 DEF NoStepBack
    <2>1. CASE i < j
      BY <2>1 DEF NoStepBackIn, NotAfter
    <2>2. CASE i = j /\ k < m
      BY <2>2 DEF NoStepBackIn, SortedItems
    <2> QED
      BY <2>1, <2>2 DEF Before
  <1>7. PendingInOrder <=>
            (phase \in Running =>
                /\ KnownSeries(wal, pending_series)
                /\ phase = "logSamples" => pending_series = <<>>
                /\ \A k \in DOMAIN pending_samples : Replayed(pending_samples[k])
                /\ SortedItems(pending_samples)
                /\ HeldLog(wal)
                /\ Follows(wal, pending_samples))
    <2>1. KnownSeries(wal, pending_series) <=>
             \A l \in Labels : by_labels[l] # 0 =>
                \/ IntroducedBefore(Len(wal) + 1, by_labels[l])
                \/ \E k \in DOMAIN pending_series : pending_series[k].ref = by_labels[l]
      BY <1>3 DEF KnownSeries
    <2>2. HeldLog(wal) /\ Follows(wal, pending_samples) <=>
             \A i \in DOMAIN wal : wal[i].type = "SamplesV2" =>
                \A k \in DOMAIN wal[i].items :
                   /\ Replayed(wal[i].items[k])
                   /\ \A m \in DOMAIN pending_samples :
                         pending_samples[m].ref = wal[i].items[k].ref =>
                             wal[i].items[k].t <= pending_samples[m].t
      BY <1>1 DEF HeldLog, Follows, NotAfter
    <2> QED
      BY <2>1, <2>2 DEF PendingInOrder, SortedItems
  <1> QED
    BY <1>2, <1>4, <1>5, <1>6, <1>7

-----------------------------------------------------------------------------
(* What one more slot does to the order of the log.                        *)

\* x is the log w with the slot s at its end.
OneMore(w, x, s) ==
    /\ w \in Seq(Slots) /\ x \in Seq(Slots)
    /\ Len(x) = Len(w) + 1
    /\ \A i \in 1..Len(w) : x[i] = w[i]
    /\ x[Len(w) + 1] = s

(* Append adds one slot. *)
LEMMA AppendIsOneMore ==
    ASSUME NEW w \in Seq(Slots), NEW s \in Slots
    PROVE  OneMore(w, Append(w, s), s)
  BY AppendProperties DEF OneMore

(* The indices of a longer log. *)
LEMMA OneMoreIndices ==
    ASSUME NEW w, NEW x, NEW s, OneMore(w, x, s)
    PROVE  /\ Len(w) \in Nat /\ Len(x) \in Nat
           /\ \A i \in 1..Len(w) : i \in 1..Len(x) /\ i < Len(w) + 1
           /\ Len(w) + 1 \in 1..Len(x)
           /\ \A i \in 1..Len(x) : i \in 1..Len(w) \/ i = Len(w) + 1
  <1>1. Len(w) \in Nat /\ Len(x) \in Nat /\ Len(x) = Len(w) + 1
    BY LenProperties DEF OneMore
  <1> QED
    BY <1>1

(* What a log introduces, a longer log introduces. *)
LEMMA OneMoreIntroduces ==
    ASSUME NEW w, NEW x, NEW s, OneMore(w, x, s)
    PROVE  \A n, ref : Introduced(w, n, ref) => Introduced(x, n, ref)
  BY OneMoreIndices DEF OneMore, Introduced

(* A slot that holds no samples keeps the log in order. *)
LEMMA OtherKeepsOrder ==
    ASSUME NEW w, NEW x, NEW s, OneMore(w, x, s), s.type # "SamplesV2",
           SeriesFirstIn(w), NoStepBackIn(w)
    PROVE  SeriesFirstIn(x) /\ NoStepBackIn(x)
  <1>1. \A j \in 1..Len(x) : x[j].type = "SamplesV2" => j \in 1..Len(w) /\ x[j] = w[j]
    BY OneMoreIndices DEF OneMore
  <1>2. SeriesFirstIn(x)
    BY <1>1, OneMoreIntroduces DEF SeriesFirstIn
  <1>3. ASSUME NEW i \in 1..Len(x), NEW j \in 1..Len(w), i < j
        PROVE  i \in 1..Len(w) /\ x[i] = w[i]
    <2>1. Len(w) \in Nat /\ Len(x) \in Nat
      BY OneMoreIndices
    <2> QED
      BY <1>3, <2>1 DEF OneMore
  <1>4. NoStepBackIn(x)
    BY <1>1, <1>3 DEF NoStepBackIn
  <1> QED
    BY <1>2, <1>4

(* So does a record of samples that are introduced, sorted and not before
   those of the log. *)
LEMMA SamplesKeepOrder ==
    ASSUME NEW w, NEW x, NEW s, OneMore(w, x, s),
           SeriesFirstIn(w), NoStepBackIn(w),
           \A m \in DOMAIN s.items : Introduced(w, Len(w) + 1, s.items[m].ref),
           SortedItems(s.items), Follows(w, s.items)
    PROVE  SeriesFirstIn(x) /\ NoStepBackIn(x)
  <1>1. /\ Len(w) \in Nat /\ x[Len(w) + 1] = s
        /\ \A j \in 1..Len(x) : (j \in 1..Len(w) /\ x[j] = w[j]) \/ j = Len(w) + 1
    BY OneMoreIndices DEF OneMore
  <1>2. SeriesFirstIn(x)
    <2> SUFFICES ASSUME NEW j \in 1..Len(x), x[j].type = "SamplesV2", NEW m \in DOMAIN x[j].items
                 PROVE  Introduced(x, j, x[j].items[m].ref)
      BY DEF SeriesFirstIn
    <2>1. CASE j \in 1..Len(w) /\ x[j] = w[j]
      BY <2>1, OneMoreIntroduces DEF SeriesFirstIn
    <2>2. CASE j = Len(w) + 1
      BY <1>1, <2>2, OneMoreIntroduces
    <2> QED
      BY <1>1, <2>1, <2>2
  <1>3. ASSUME NEW i \in 1..Len(x), NEW j \in 1..Len(x), i < j
        PROVE  i \in 1..Len(w) /\ x[i] = w[i]
    <2>1. Len(w) \in Nat /\ Len(x) = Len(w) + 1
      BY OneMoreIndices DEF OneMore
    <2> QED
      BY <1>3, <2>1 DEF OneMore
  <1>4. NoStepBackIn(x)
    <2> SUFFICES ASSUME NEW j \in 1..Len(x), x[j].type = "SamplesV2"
                 PROVE  /\ SortedItems(x[j].items)
                        /\ \A m \in DOMAIN x[j].items : \A i \in 1..Len(x) :
                              i < j => NotAfter(x[i], x[j].items[m].ref, x[j].items[m].t)
      BY DEF NoStepBackIn
    <2>1. CASE j \in 1..Len(w) /\ x[j] = w[j]
      BY <1>3, <2>1 DEF NoStepBackIn
    <2>2. CASE j = Len(w) + 1
      BY <1>1, <1>3, <2>2 DEF Follows
    <2> QED
      BY <1>1, <2>1, <2>2
  <1> QED
    BY <1>2, <1>4

(* fsync changes no order. *)
LEMMA SameKeepsOrder ==
    ASSUME NEW w, NEW x, SameSlots(w, x)
    PROVE  /\ SeriesFirstIn(w) => SeriesFirstIn(x)
           /\ NoStepBackIn(w) => NoStepBackIn(x)
           /\ HeldLog(w) => HeldLog(x)
           /\ \A p : Follows(w, p) => Follows(x, p)
           /\ \A p : KnownSeries(w, p) => KnownSeries(x, p)
  <1>1. \A n, ref : Introduced(w, n, ref) => Introduced(x, n, ref)
    BY DEF SameSlots, Introduced
  <1>2. \A i \in 1..Len(w) : \A ref, t : NotAfter(w[i], ref, t) => NotAfter(x[i], ref, t)
    BY DEF SameSlots, NotAfter
  <1>3. SeriesFirstIn(w) => SeriesFirstIn(x)
    BY <1>1 DEF SameSlots, SeriesFirstIn
  <1>4. NoStepBackIn(w) => NoStepBackIn(x)
    BY <1>2 DEF SameSlots, NoStepBackIn
  <1>5. HeldLog(w) => HeldLog(x)
    BY DEF SameSlots, HeldLog
  <1>6. \A p : Follows(w, p) => Follows(x, p)
    BY <1>2 DEF SameSlots, Follows
  <1>7. \A p : KnownSeries(w, p) => KnownSeries(x, p)
    BY <1>1 DEF SameSlots, KnownSeries
  <1> QED
    BY <1>3, <1>4, <1>5, <1>6, <1>7

-----------------------------------------------------------------------------
(* The steps of commit() and close() on a disk that never failed.          *)

\* No I/O call has failed and no power loss has happened.
Calm == faults = 0 /\ ~powerLost /\ NoneRefused

(* Writing no records changes nothing. *)
LEMMA WriteNothing ==
    ASSUME TypeOK, NEW recs, recs = <<>>
    PROVE  Written(recs) = wal
  <1> DEFINE e == [i \in 1..Len(recs) |-> Slot(recs[i])]
  <1>1. wal \in Seq(Slots) /\ Len(recs) = 0 /\ recs \in Seq(Records)
    BY EmptySeq DEF TypeOK
  <1>2. 1..Len(recs) = {}
    BY <1>1
  <1>3. e \in Seq(Slots) /\ Len(e) = 0
    BY <1>1, <1>2, FunIsSeq
  <1> HIDE DEF e
  <1>4. /\ wal \o e \in Seq(Slots) /\ Len(wal \o e) = Len(wal)
        /\ \A i \in 1..Len(wal) : (wal \o e)[i] = wal[i]
    <2>1. /\ wal \o e \in Seq(Slots) /\ Len(wal \o e) = Len(wal) + Len(e)
          /\ \A i \in 1..Len(wal) + Len(e) :
                (wal \o e)[i] = IF i <= Len(wal) THEN wal[i] ELSE e[i - Len(wal)]
      BY <1>1, <1>3, ConcatProperties
    <2>2. Len(wal) \in Nat
      BY <1>1, LenProperties
    <2> QED
      BY <1>3, <2>1, <2>2
  <1>5. wal \o e = wal
    BY <1>1, <1>4, SeqEqual
  <1> QED
    BY <1>5 DEF Written, e

(* Writing one record appends its slot. *)
LEMMA WriteOne ==
    ASSUME TypeOK, NEW rec \in Records, NEW recs, recs = <<rec>>
    PROVE  OneMore(wal, Written(recs), Slot(rec))
  <1> DEFINE e == [i \in 1..Len(recs) |-> Slot(recs[i])]
  <1>1. wal \in Seq(Slots) /\ Len(recs) = 1 /\ recs[1] = rec /\ nseg \in Nat /\ Len(wal) \in Nat
    BY LenProperties DEF TypeOK
  <1>2. Slot(rec) \in Slots
    BY <1>1 DEF Slot, Records, Slots
  <1>3. 1..Len(recs) = {1}
    BY <1>1
  <1>4. e \in Seq(Slots) /\ Len(e) = 1 /\ e[1] = Slot(rec)
    BY <1>1, <1>2, <1>3, FunIsSeq
  <1> HIDE DEF e
  <1> DEFINE x == wal \o e
  <1>5. /\ x \in Seq(Slots) /\ Len(x) = Len(wal) + Len(e)
        /\ \A i \in 1..Len(wal) + Len(e) : x[i] = IF i <= Len(wal) THEN wal[i] ELSE e[i - Len(wal)]
    BY <1>1, <1>4, ConcatProperties
  <1> HIDE DEF x
  <1> DEFINE n == Len(wal) + 1
  <1>6. n \in 1..Len(wal) + Len(e) /\ ~(n <= Len(wal)) /\ n - Len(wal) = 1
    BY <1>1, <1>4
  <1> HIDE DEF n
  <1>7. x[n] = e[n - Len(wal)]
    BY <1>5, <1>6
  <1>8. \A i \in 1..Len(wal) : i \in 1..Len(wal) + Len(e) /\ i <= Len(wal)
    BY <1>1, <1>4
  <1>9. \A i \in 1..Len(wal) : x[i] = wal[i]
    BY <1>5, <1>8
  <1>10. OneMore(wal, x, Slot(rec))
    BY <1>1, <1>4, <1>5, <1>6, <1>7, <1>9 DEF OneMore, n
  <1> QED
    BY <1>10 DEF Written, x, e

(* A write in step with the page writer happens, or is cut short, or puts a
   record on file that the page reader refuses. *)
LEMMA CalmWrites ==
    ASSUME TypeOK, unflushed = <<>>, ~skewed
    PROVE  /\ \A w \in Flushed(unflushed) : w = wal
           /\ \A w \in Flushed(Append(unflushed, Rec)) :
                 OneMore(wal, w, Slot(Rec)) \/ OneMore(wal, w, Partial("Bad"))
           /\ \A w \in Cuttings(Append(unflushed, Rec)) :
                 w = wal \/ \E type \in {"Torn", "Bad"} : OneMore(wal, w, Partial(type))
  <1>1. Append(unflushed, Rec) = <<Rec>> /\ Rec \in Records /\ wal \in Seq(Slots) /\ nseg \in Nat
    BY RecType DEF TypeOK
  <1>2. \A w \in Flushed(unflushed) : w = wal
    <2>1. Len(unflushed) = 0 /\ 0..(Len(unflushed) - 1) = {}
      OBVIOUS
    <2>2. BeforeRefused(unflushed) = {}
      BY <2>1 DEF BeforeRefused
    <2> QED
      BY <2>2, WriteNothing DEF Flushed
  <1>3. ASSUME NEW w \in Flushed(Append(unflushed, Rec))
        PROVE  OneMore(wal, w, Slot(Rec)) \/ OneMore(wal, w, Partial("Bad"))
    <2> DEFINE recs == <<Rec>>
    <2>1. Len(recs) = 1 /\ (\A m \in 0..(Len(recs) - 1) : m = 0) /\ SubSeq(recs, 1, 0) = <<>>
      OBVIOUS
    <2>2. Written(SubSeq(recs, 1, 0)) = wal
      BY <2>1, WriteNothing
    <2>3. \/ w = Written(recs)
          \/ \E m \in 0..(Len(recs) - 1) :
                w = Append(Written(SubSeq(recs, 1, m)), Partial("Bad"))
      BY <1>1 DEF Flushed, BeforeRefused
    <2>4. OneMore(wal, Written(recs), Slot(Rec))
      BY <1>1, WriteOne
    <2> HIDE DEF recs
    <2>5. w = Written(recs) \/ w = Append(wal, Partial("Bad"))
      BY <2>1, <2>2, <2>3
    <2>6. Partial("Bad") \in Slots
      BY <1>1 DEF Partial, Slots
    <2> QED
      BY <1>1, <2>4, <2>5, <2>6, AppendIsOneMore
  <1>4. ASSUME NEW w \in Cuttings(Append(unflushed, Rec))
        PROVE  w = wal \/ \E type \in {"Torn", "Bad"} : OneMore(wal, w, Partial(type))
    <2> DEFINE recs == <<Rec>>
    <2>1. Len(recs) = 1 /\ \A m \in 0..(Len(recs) - 1) : m = 0
      OBVIOUS
    <2>2. SubSeq(recs, 1, 0) = <<>>
      OBVIOUS
    <2>3. Written(SubSeq(recs, 1, 0)) = wal
      BY <2>2, WriteNothing
    <2>4. \/ w = wal
          \/ \E m \in 0..(Len(recs) - 1) : w = Written(SubSeq(recs, 1, m))
          \/ \E m \in 0..(Len(recs) - 1) : \E type \in {"Torn", "Bad"} :
                w = Append(Written(SubSeq(recs, 1, m)), Partial(type))
      BY <1>1 DEF Cuttings
    <2> HIDE DEF recs
    <2>5. w = wal \/ \E type \in {"Torn", "Bad"} : w = Append(wal, Partial(type))
      BY <2>1, <2>3, <2>4
    <2>6. \A type \in {"Torn", "Bad"} : Partial(type) \in Slots
      BY <1>1 DEF Partial, Slots
    <2> QED
      BY <1>1, <2>5, <2>6, AppendIsOneMore
  <1> QED
    BY <1>2, <1>3, <1>4

(* A refused record stays in the log. *)
LEMMA RefusedStays ==
    ASSUME wal \in Seq(Slots), NoneRefused',
           wal' = wal \/ SameSlots(wal, wal') \/ \E s : OneMore(wal, wal', s)
    PROVE  NoneRefused
  <1>1. DOMAIN wal = 1..Len(wal) /\ Len(wal) \in Nat
    BY LenProperties
  <1>2. CASE wal' = wal
    BY <1>2 DEF NoneRefused
  <1>3. CASE SameSlots(wal, wal')
    <2>1. DOMAIN wal' = 1..Len(wal) /\ \A i \in 1..Len(wal) : wal'[i].type = wal[i].type
      BY <1>3, LenProperties DEF SameSlots
    <2> QED
      BY <1>1, <2>1 DEF NoneRefused
  <1>4. ASSUME NEW s, OneMore(wal, wal', s)
        PROVE  NoneRefused
    <2>1. /\ DOMAIN wal' = 1..Len(wal) + 1
          /\ \A i \in 1..Len(wal) : i \in 1..Len(wal) + 1 /\ wal'[i] = wal[i]
      BY <1>1, <1>4, LenProperties DEF OneMore
    <2> QED
      BY <1>1, <2>1 DEF NoneRefused
  <1> QED
    BY <1>2, <1>3, <1>4

(* A record framed with two First fragments is refused. *)
LEMMA BadIsRefused ==
    ASSUME wal \in Seq(Slots), OneMore(wal, wal', Partial("Bad"))
    PROVE  ~NoneRefused'
  <1>1. /\ Len(wal) \in Nat /\ DOMAIN wal' = 1..Len(wal) + 1
        /\ wal'[Len(wal) + 1] = Partial("Bad")
    BY LenProperties DEF OneMore
  <1>2. Partial("Bad").type = "Bad" /\ Len(wal) + 1 \in DOMAIN wal'
    BY <1>1 DEF Partial
  <1> QED
    BY <1>1, <1>2 DEF NoneRefused

(* As long as no I/O call fails, a step of commit() or close() logs one record or fsyncs. *)
LEMMA FaultlessWalStep ==
    ASSUME TypeOK, WriterInStep, WalStep, faults' = 0
    PROVE  /\ faults = 0 /\ powerLost' = powerLost /\ phase \in Running /\ phase' \in Running
           /\ UNCHANGED <<by_labels, by_ref, next_ref, unflushed, rollFailed, fd>> /\ ~skewed'
           /\ \/ LogOk /\ OneMore(wal, wal', Slot(Rec))
              \/ ~NoneRefused'
              \/ /\ SameSlots(wal, wal')
                 /\ UNCHANGED <<pending_series, pending_samples>>
                 /\ phase' = "logSamples" => phase = "logSamples"
           /\ NoneRefused' => NoneRefused
  <1> USE DEF store, pending, writer, disk, history, Running, Logging
  <1>1. faults \in Nat /\ unflushed = <<>> /\ ~skewed /\ wal \in Seq(Slots)
    BY DEF WriterInStep, TypeOK
  <1>2. ~Fault
    BY <1>1 DEF Fault
  <1>3. SameSlots(wal, Synced(wal))
    BY <1>1, SyncedSame
  <1>4. CASE LogOk
    <2>1. OneMore(wal, wal', Slot(Rec)) \/ OneMore(wal, wal', Partial("Bad"))
      BY <1>1, <1>4, CalmWrites DEF LogOk
    <2>2. OneMore(wal, wal', Partial("Bad")) => ~NoneRefused'
      BY <1>1, BadIsRefused
    <2>3. NoneRefused' => NoneRefused
      BY <1>1, <2>1, RefusedStays
    <2> QED
      BY <1>1, <1>4, <2>1, <2>2, <2>3 DEF LogOk, Logged
  <1>5. CASE CutOk
    <2>1. wal' = Synced(wal)
      BY <1>1, <1>5, CalmWrites DEF CutOk
    <2>2. NoneRefused' => NoneRefused
      BY <1>1, <1>3, <2>1, RefusedStays
    <2> QED
      BY <1>1, <1>3, <1>5, <2>1, <2>2 DEF CutOk, Cutting
  <1>6. CASE SyncOk
    <2>1. fd
      BY <1>6 DEF SyncOk, WriterInStep
    <2>2. wal' = Synced(wal)
      BY <1>6, <2>1 DEF SyncOk
    <2>3. NoneRefused' => NoneRefused
      BY <1>1, <1>3, <2>2, RefusedStays
    <2> QED
      BY <1>1, <1>3, <1>6, <2>1, <2>3 DEF SyncOk
  <1>7. CASE LogNowhere \/ CutNowhere
    BY <1>7 DEF LogNowhere, CutNowhere, WriterInStep
  <1> QED
    BY <1>2, <1>4, <1>5, <1>6, <1>7
       DEF WalStep, LogFails, FlushFails, CutSyncFails, CutOpenFails, SyncFails

LEMMA CalmWalStep ==
    ASSUME TypeOK, WriterInStep, WalStep, Calm'
    PROVE  /\ Calm /\ phase \in Running /\ phase' \in Running
           /\ UNCHANGED <<by_labels, by_ref, next_ref, unflushed, rollFailed, fd>> /\ ~skewed'
           /\ \/ LogOk /\ OneMore(wal, wal', Slot(Rec))
              \/ /\ SameSlots(wal, wal')
                 /\ UNCHANGED <<pending_series, pending_samples>>
                 /\ phase' = "logSamples" => phase = "logSamples"
  <1>1. faults' = 0 /\ ~powerLost' /\ NoneRefused'
    BY DEF Calm
  <1> QED
    BY <1>1, FaultlessWalStep DEF Calm

(* The steps of commit() and close() keep the log in order. *)
LEMMA WalStepKeepsOrder ==
    ASSUME TypeOK, StoreMatchesLog, LogInOrder, WalStep
    PROVE  LogInOrder'
  <1>0. TypeOK'
    BY WalStepType
  <1>1. SeriesSorted'
    <2>1. by_ref' = by_ref
      BY WalStepGrows
    <2> QED
      BY <2>1 DEF LogInOrder, SeriesSorted
  <1>2. CASE ~Calm'
    BY <1>1, <1>2 DEF LogInOrder, Calm
  <1>3. CASE Calm'
    <2>0. (TypeOK =>
            /\ SeriesFirst <=> SeriesFirstIn(wal)
            /\ NoStepBack <=> NoStepBackIn(wal)
            /\ PendingInOrder <=>
                  (phase \in Running =>
                      /\ KnownSeries(wal, pending_series)
                      /\ phase = "logSamples" => pending_series = <<>>
                      /\ \A k \in DOMAIN pending_samples : Replayed(pending_samples[k])
                      /\ SortedItems(pending_samples)
                      /\ HeldLog(wal)
                      /\ Follows(wal, pending_samples)))'
      BY OrderForms, PTL
    <2>7. Grown(wal') /\ wal \in Seq(Slots)
      BY WalStepGrows DEF TypeOK
    <2>10. NoneRefused
      <3>1. DOMAIN wal = 1..Len(wal) /\ DOMAIN wal' = 1..Len(wal') /\ Len(wal) \in Nat
            /\ Len(wal') \in Nat /\ Len(wal') >= Len(wal)
        BY <2>7, LenProperties DEF Grown
      <3>2. \A i \in 1..Len(wal) : i \in 1..Len(wal') /\ wal'[i].type = wal[i].type
        BY <2>7, <3>1 DEF Grown
      <3> QED
        BY <1>3, <3>1, <3>2 DEF Calm, NoneRefused
    <2>1. Calm
      BY <1>3, <2>10, WalStepType DEF Calm, WalStep, LogOk, LogNowhere, LogFails, CutOk, CutNowhere,
             CutSyncFails, CutOpenFails, SyncOk, SyncFails, FlushFails, Fault, history, TypeOK
    <2>2. /\ WriterInStep /\ SeriesFirst /\ NoStepBack /\ PendingInOrder
      BY <2>1 DEF LogInOrder, Calm
    <2>3. /\ phase \in Running /\ phase' \in Running
          /\ UNCHANGED <<by_labels, by_ref, next_ref, unflushed, rollFailed, fd>> /\ ~skewed'
          /\ \/ LogOk /\ OneMore(wal, wal', Slot(Rec))
             \/ /\ SameSlots(wal, wal')
                /\ UNCHANGED <<pending_series, pending_samples>>
                /\ phase' = "logSamples" => phase = "logSamples"
      BY <1>3, <2>2, CalmWalStep
    <2>4. WriterInStep'
      BY <2>2, <2>3 DEF WriterInStep
    <2>5. ReplayFromLog' /\ ReplayNeverRefuses'
      BY <2>3 DEF ReplayFromLog, ReplayNeverRefuses, Running, Logging
    <2>6. /\ SeriesFirstIn(wal) /\ NoStepBackIn(wal)
          /\ KnownSeries(wal, pending_series)
          /\ phase = "logSamples" => pending_series = <<>>
          /\ \A k \in DOMAIN pending_samples : Replayed(pending_samples[k])
          /\ SortedItems(pending_samples)
          /\ HeldLog(wal)
          /\ Follows(wal, pending_samples)
      BY <2>2, <2>3, OrderForms
    <2>8. /\ SeriesFirstIn(wal') /\ NoStepBackIn(wal')
          /\ KnownSeries(wal', pending_series')
          /\ phase' = "logSamples" => pending_series' = <<>>
          /\ \A k \in DOMAIN pending_samples' : Replayed(pending_samples'[k])
          /\ SortedItems(pending_samples')
          /\ HeldLog(wal')
          /\ Follows(wal', pending_samples')
      <3>1. CASE SameSlots(wal, wal') /\ UNCHANGED <<pending_series, pending_samples>>
                   /\ (phase' = "logSamples" => phase = "logSamples")
        BY <2>6, <3>1, SameKeepsOrder
      <3>2. CASE LogOk /\ phase = "logSeries" /\ OneMore(wal, wal', Slot(Rec))
        <4>1. /\ pending_series' = <<>> /\ pending_samples' = pending_samples
              /\ Slot(Rec).type = "Series" /\ Slot(Rec).items = pending_series
          BY <3>2 DEF LogOk, Logged, Slot, Rec
        <4> DEFINE s == Slot(Rec)
        <4> HIDE DEF s
        <4>2. OneMore(wal, wal', s) /\ s.type = "Series" /\ s.items = pending_series
          BY <3>2, <4>1 DEF s
        <4>3. SeriesFirstIn(wal') /\ NoStepBackIn(wal')
          BY <2>6, <4>2, OtherKeepsOrder
        <4>4. \A j \in 1..Len(wal') : wal'[j].type = "SamplesV2" =>
                 j \in 1..Len(wal) /\ wal'[j] = wal[j]
          BY <4>2, OneMoreIndices DEF OneMore
        <4>5. HeldLog(wal') /\ Follows(wal', pending_samples)
          BY <2>6, <4>4 DEF HeldLog, Follows, NotAfter
        <4>6. KnownSeries(wal', pending_series')
          <5> SUFFICES ASSUME NEW l \in Labels, by_labels[l] # 0
                       PROVE  Introduced(wal', Len(wal') + 1, by_labels[l])
            BY DEF KnownSeries
          <5>1. /\ Len(wal') + 1 \in Nat /\ Len(wal) + 1 \in 1..Len(wal')
                /\ Len(wal') = Len(wal) + 1 /\ Len(wal) \in Nat
                /\ wal'[Len(wal) + 1] = s
            BY <4>2, OneMoreIndices DEF OneMore
          <5>2. CASE Introduced(wal, Len(wal) + 1, by_labels[l])
            <6>1. Introduced(wal', Len(wal) + 1, by_labels[l])
              BY <4>2, <5>2, OneMoreIntroduces
            <6> QED
              BY <5>1, <6>1 DEF Introduced
          <5>3. CASE \E k \in DOMAIN pending_series : pending_series[k].ref = by_labels[l]
            <6>1. Len(wal) + 1 < Len(wal') + 1
              BY <5>1
            <6> QED
              BY <4>2, <5>1, <5>3, <6>1 DEF Introduced
          <5> QED
            BY <2>6, <5>2, <5>3 DEF KnownSeries
        <4> QED
          BY <2>6, <4>1, <4>3, <4>5, <4>6
      <3>3. CASE LogOk /\ phase = "logSamples" /\ OneMore(wal, wal', Slot(Rec))
        <4>1. /\ pending_samples' = <<>> /\ pending_series' = pending_series
              /\ pending_series = <<>>
              /\ Slot(Rec).type = "SamplesV2" /\ Slot(Rec).items = pending_samples
          BY <2>6, <3>3 DEF LogOk, Logged, Slot, Rec
        <4> DEFINE s == Slot(Rec)
        <4> HIDE DEF s
        <4>2. OneMore(wal, wal', s) /\ s.type = "SamplesV2" /\ s.items = pending_samples
          BY <3>3, <4>1 DEF s
        <4>3. ASSUME NEW m \in DOMAIN pending_samples
              PROVE  Introduced(wal, Len(wal) + 1, pending_samples[m].ref)
          <5>1. RefTaken(pending_samples[m].ref)
            BY <2>6 DEF Replayed
          <5>2. PICK l \in Labels : by_labels[l] = pending_samples[m].ref /\ by_labels[l] # 0
            <6> DEFINE r == pending_samples[m].ref
            <6>1. r \in 1..Len(by_ref) /\ by_ref[r].labels # NoLabels /\ by_ref[r] \in MemSeries
              BY <5>1, ElementOfSeq DEF RefTaken, TypeOK
            <6> HIDE DEF r
            <6>2. by_ref[r].labels \in Labels /\ by_labels[by_ref[r].labels] = r
              BY <6>1 DEF MemSeries, StoreMatchesLog, StoreOK
            <6>3. r # 0
              BY <6>1, LenProperties DEF TypeOK
            <6> QED
              BY <6>2, <6>3 DEF r
          <5> QED
            BY <2>6, <4>1, <5>2 DEF KnownSeries
        <4>4. SeriesFirstIn(wal') /\ NoStepBackIn(wal')
          BY <2>6, <4>2, <4>3, SamplesKeepOrder
        <4>5. HeldLog(wal')
          <5>1. \A j \in 1..Len(wal') : (j \in 1..Len(wal) /\ wal'[j] = wal[j]) \/ wal'[j] = s
            BY <4>2, OneMoreIndices DEF OneMore
          <5> QED
            BY <2>6, <4>2, <5>1 DEF HeldLog
        <4>6. KnownSeries(wal', pending_series')
          <5> SUFFICES ASSUME NEW l \in Labels, by_labels[l] # 0
                       PROVE  Introduced(wal', Len(wal') + 1, by_labels[l])
            BY DEF KnownSeries
          <5>1. Introduced(wal, Len(wal) + 1, by_labels[l])
            BY <2>6, <4>1 DEF KnownSeries
          <5>2. Introduced(wal', Len(wal) + 1, by_labels[l])
            BY <4>2, <5>1, OneMoreIntroduces
          <5>3. Len(wal') = Len(wal) + 1 /\ Len(wal) \in Nat
            BY <4>2, OneMoreIndices DEF OneMore
          <5> QED
            BY <5>2, <5>3 DEF Introduced
        <4>7. SortedItems(<<>>) /\ Follows(wal', <<>>) /\ DOMAIN <<>> = {}
          BY DEF SortedItems, Follows
        <4> QED
          BY <4>1, <4>4, <4>5, <4>6, <4>7
      <3> QED
        BY <2>3, <3>1, <3>2, <3>3 DEF LogOk, Logging
    <2>9. SeriesFirst' /\ NoStepBack' /\ PendingInOrder'
      <3>1. \A k \in DOMAIN pending_samples' : Replayed(pending_samples[k])'
        <4>1. \A x : Replayed(x)' <=> Replayed(x)
          BY <2>3 DEF Replayed, RefTaken
        <4> QED
          BY <2>3, <2>8 DEF Replayed, RefTaken
      <3>2. KnownSeries(wal, pending_series)' /\ HeldLog(wal)'
        BY <2>3, <2>8 DEF KnownSeries, HeldLog, Replayed, RefTaken
      <3> QED
        BY <1>0, <2>0, <2>8, <3>1, <3>2
    <2> QED
      BY <1>1, <2>4, <2>5, <2>9 DEF LogInOrder
  <1> QED
    BY <1>2, <1>3

-----------------------------------------------------------------------------
(* append.                                                                 *)

(* MemSeries::append keeps a series in time order. *)
LEMMA AppendedSorted ==
    ASSUME NEW refs \in Seq(MemSeries), NEW ref \in 1..Len(refs),
           NEW t \in Times, NEW v \in Values, SortedRefs(refs), InOrder(refs[ref], t)
    PROVE  SortedRefs(Appended(refs, ref, t, v))
  <1> DEFINE x  == [t |-> t, v |-> v]
             ms == [labels |-> refs[ref].labels, samples |-> Append(refs[ref].samples, x)]
             n  == Len(refs[ref].samples)
  <1>1. DOMAIN refs = 1..Len(refs) /\ refs[ref] \in MemSeries
    BY LenProperties, ElementOfSeq
  <1>2. x \in Samples /\ refs[ref].samples \in Seq(Samples)
    BY <1>1 DEF Samples, MemSeries
  <1>3. Appended(refs, ref, t, v) = [refs EXCEPT ![ref] = ms]
    BY DEF Appended
  <1>4. ms.samples = Append(refs[ref].samples, x)
    OBVIOUS
  <1>5. x.t = t
    OBVIOUS
  <1> HIDE DEF x, ms
  <1>6. /\ Len(Appended(refs, ref, t, v)) = Len(refs)
        /\ \A i \in 1..Len(refs) : Appended(refs, ref, t, v)[i] = IF i = ref THEN ms ELSE refs[i]
    BY <1>1, <1>3, AppendedShape, LenProperties
  <1>7. /\ DOMAIN ms.samples = 1..n + 1
        /\ \A k \in 1..n : ms.samples[k] = refs[ref].samples[k]
        /\ ms.samples[n + 1] = x
        /\ DOMAIN refs[ref].samples = 1..n
        /\ n \in Nat
        /\ \A k \in 1..n : refs[ref].samples[k] \in Samples
    BY <1>2, <1>4, AppendProperties, LenProperties, ElementOfSeq
  <1>8. \A k \in 1..n : refs[ref].samples[k].t \in Nat
    BY <1>7, HeadConstants DEF Samples
  <1>9. \A k \in 1..n : refs[ref].samples[k].t <= t
    <2> SUFFICES ASSUME NEW k \in 1..n
                 PROVE  refs[ref].samples[k].t <= t
      OBVIOUS
    <2>1. n \in 1..n /\ refs[ref].samples # <<>>
      BY <1>7
    <2>2. refs[ref].samples[n].t <= t
      BY <2>1 DEF InOrder
    <2>3. k = n \/ refs[ref].samples[k].t <= refs[ref].samples[n].t
      <3>1. k = n \/ k < n
        BY <1>7
      <3> QED
        BY <1>7, <2>1, <3>1 DEF SortedRefs
    <2>4. t \in Nat
      BY HeadConstants
    <2> QED
      BY <1>8, <2>1, <2>2, <2>3, <2>4
  <1>10. \A k, m \in DOMAIN ms.samples : k < m => ms.samples[k].t <= ms.samples[m].t
    <2> SUFFICES ASSUME NEW k \in 1..n + 1, NEW m \in 1..n + 1, k < m
                 PROVE  ms.samples[k].t <= ms.samples[m].t
      BY <1>7
    <2>1. k \in 1..n
      BY <1>7
    <2>2. CASE m = n + 1
      BY <1>5, <1>7, <1>9, <2>1, <2>2
    <2>3. CASE m \in 1..n
      BY <1>7, <2>1, <2>3 DEF SortedRefs
    <2> QED
      BY <1>7, <2>2, <2>3
  <1> HIDE DEF n
  <1> QED
    BY <1>6, <1>10 DEF SortedRefs

(* A fresh series is in order. *)
LEMMA WithSeriesSorted ==
    ASSUME TypeOK, NEW ref \in Nat \ {0}, NEW l \in Labels, SortedRefs(by_ref)
    PROVE  SortedRefs(WithSeries(ref, l))
  <1> DEFINE ws == WithSeries(ref, l)
  <1>1. /\ ws[ref] = [labels |-> l, samples |-> <<>>]
        /\ Len(ws) \in Nat
        /\ \A i \in 1..Len(ws) : i # ref =>
              ws[i] = IF i <= Len(by_ref) THEN by_ref[i] ELSE NoSeries
    BY WithSeriesShape, LenProperties
  <1> HIDE DEF ws
  <1>2. Len(by_ref) \in Nat
    BY LenProperties DEF TypeOK
  <1>3. \A i \in 1..Len(ws) :
          \/ ws[i].samples = <<>>
          \/ i \in 1..Len(by_ref) /\ ws[i] = by_ref[i]
    BY <1>1, <1>2 DEF NoSeries
  <1>4. DOMAIN <<>> = {}
    OBVIOUS
  <1>5. SortedRefs(ws)
    BY <1>3, <1>4 DEF SortedRefs
  <1> QED
    BY <1>5 DEF ws

(* What append does to memory, in terms of the ref it uses. *)
LEMMA AppendFacts ==
    ASSUME TypeOK, StoreOK, NEW l \in Labels, NEW t \in Times, NEW v \in Values, append(l, t, v)
    PROVE  /\ by_labels'[l] \in 1..Len(by_ref')
           /\ \A m \in Labels : m # l \/ by_labels[m] # 0 => by_labels'[m] = by_labels[m]
           /\ by_labels[l] = 0 => Len(by_ref) < by_labels'[l]
           /\ by_labels[l] # 0 => InOrder(by_ref[by_labels'[l]], t)
           /\ by_ref'[by_labels'[l]].labels # NoLabels
           /\ Holds(by_ref'[by_labels'[l]], [t |-> t, v |-> v])
           /\ \A i \in 1..Len(by_ref) :
                 /\ i \in 1..Len(by_ref')
                 /\ by_ref'[i].labels = by_ref[i].labels
                 /\ \A p : Holds(by_ref[i], p) => Holds(by_ref'[i], p)
           /\ SortedRefs(by_ref) => SortedRefs(by_ref')
           /\ pending_samples' = Append(pending_samples, [ref |-> by_labels'[l], t |-> t, v |-> v])
           /\ pending_series' = IF by_labels[l] = 0
                 THEN Append(pending_series, [ref |-> by_labels'[l], labels |-> l])
                 ELSE pending_series
  <1> DEFINE fresh == by_labels[l] = 0
             ref   == IF fresh THEN next_ref ELSE by_labels[l]
             refs  == IF fresh THEN WithSeries(ref, l) ELSE by_ref
  <1>1. /\ ref \in Nat \ {0} /\ by_ref \in Seq(MemSeries) /\ Len(by_ref) \in Nat
        /\ by_labels \in [Labels -> Nat]
    BY LenProperties DEF TypeOK
  <1>2. /\ refs \in Seq(MemSeries) /\ ref \in 1..Len(refs) /\ refs[ref].labels = l
        /\ \A i \in 1..Len(by_ref) : i \in 1..Len(refs) /\ refs[i] = by_ref[i]
        /\ SortedRefs(by_ref) => SortedRefs(refs)
        /\ fresh => Len(by_ref) < ref
    <2>1. CASE fresh
      <3>1. ref = next_ref /\ refs = WithSeries(ref, l) /\ Len(by_ref) < ref
        BY <2>1 DEF StoreOK
      <3> DEFINE ws == WithSeries(ref, l)
      <3>2. /\ ws \in Seq(MemSeries)
            /\ Len(ws) = IF ref > Len(by_ref) THEN ref ELSE Len(by_ref)
            /\ ws[ref] = [labels |-> l, samples |-> <<>>]
            /\ \A i \in 1..Len(ws) : i # ref =>
                  ws[i] = IF i <= Len(by_ref) THEN by_ref[i] ELSE NoSeries
            /\ SortedRefs(by_ref) => SortedRefs(ws)
        BY <1>1, WithSeriesShape, WithSeriesSorted
      <3> HIDE DEF ws, ref
      <3>3. Len(ws) = ref /\ ref \in 1..Len(ws) /\ ws[ref].labels = l
        BY <1>1, <3>1, <3>2
      <3>4. \A i \in 1..Len(by_ref) : i \in 1..Len(ws) /\ i # ref /\ ws[i] = by_ref[i]
        BY <1>1, <3>1, <3>2, <3>3
      <3>5. refs = ws
        BY <3>1 DEF ws
      <3> QED
        BY <3>1, <3>2, <3>3, <3>4, <3>5
    <2>2. CASE ~fresh
      BY <1>1, <2>2 DEF StoreOK
    <2> QED
      BY <2>1, <2>2
  <1>3. /\ by_labels' = [by_labels EXCEPT ![l] = ref]
        /\ by_ref' = Appended(refs, ref, t, v)
        /\ InOrder(refs[ref], t)
        /\ pending_samples' = Append(pending_samples, [ref |-> ref, t |-> t, v |-> v])
        /\ pending_series' = IF fresh
              THEN Append(pending_series, [ref |-> ref, labels |-> l]) ELSE pending_series
    BY DEF append
  <1>4. /\ by_labels'[l] = ref
        /\ \A m \in Labels : m # l \/ by_labels[m] # 0 => by_labels'[m] = by_labels[m]
    BY <1>1, <1>3
  <1>5. ~fresh => refs = by_ref
    OBVIOUS
  <1> HIDE DEF refs, ref
  <1>6. /\ Holds(by_ref'[ref], [t |-> t, v |-> v])
        /\ \A i \in 1..Len(refs) : \A p : Holds(refs[i], p) => Holds(by_ref'[i], p)
    BY <1>2, <1>3, AppendedHolds
  <1>7. SortedRefs(by_ref) => SortedRefs(by_ref')
    BY <1>2, <1>3, AppendedSorted
  <1>8. /\ Len(by_ref') = Len(refs)
        /\ \A i \in 1..Len(refs) : by_ref'[i].labels = refs[i].labels
    BY <1>1, <1>2, <1>3, AppendedShape, ZenonT(30)
  <1>9. by_ref'[ref].labels # NoLabels
    BY <1>2, <1>8, HeadConstants
  <1> QED
    BY <1>2, <1>3, <1>4, <1>5, <1>6, <1>7, <1>8, <1>9

(* A series accepts no time before one of its samples. *)
LEMMA HeldNotAfter ==
    ASSUME TypeOK, SortedRefs(by_ref), NEW x, Replayed(x), NEW t \in Times,
           InOrder(by_ref[x.ref], t)
    PROVE  x.t <= t
  <1> DEFINE q == by_ref[x.ref].samples
             n == Len(q)
  <1>1. x.ref \in 1..Len(by_ref) /\ by_ref[x.ref] \in MemSeries
    BY ElementOfSeq DEF Replayed, RefTaken, TypeOK
  <1>2. q \in Seq(Samples)
    BY <1>1 DEF MemSeries
  <1>3. /\ n \in Nat /\ DOMAIN q = 1..n
        /\ \A k \in 1..n : q[k].t \in Nat
    <2>1. \A k \in 1..n : q[k] \in Samples
      BY <1>2, ElementOfSeq
    <2> HIDE DEF q
    <2> QED
      BY <1>2, <2>1, LenProperties, HeadConstants DEF Samples
  <1>4. PICK k \in 1..n : q[k].t = x.t
    BY <1>3 DEF Replayed
  <1>5. n \in 1..n /\ q # <<>>
    BY <1>3, <1>4
  <1>6. q[n].t <= t
    BY <1>5 DEF InOrder
  <1>7. k = n \/ q[k].t <= q[n].t
    <2>1. k = n \/ k < n
      BY <1>3
    <2> QED
      BY <1>1, <1>3, <1>5, <2>1 DEF SortedRefs
  <1>8. t \in Nat
    BY HeadConstants
  <1> HIDE DEF n, q
  <1> QED
    BY <1>3, <1>4, <1>5, <1>6, <1>7, <1>8

(* append buffers a sample that is not before any of its series. *)
LEMMA AppendKeepsOrder ==
    ASSUME TypeOK, StoreMatchesLog, LogInOrder,
           NEW l \in Labels, NEW t \in Times, NEW v \in Values, append(l, t, v)
    PROVE  LogInOrder'
  <1> DEFINE ref == by_labels'[l]
             new == [ref |-> ref, t |-> t, v |-> v]
  <1>0. TypeOK'
    BY AppendType
  <1>1. /\ phase = "open" /\ phase' = "open" /\ phase \in Running
        /\ UNCHANGED <<wal, nseg, unflushed, fd, skewed, rollFailed, faults, powerLost>>
    BY DEF append, Running, writer, disk
  <1>2. /\ ref \in 1..Len(by_ref')
        /\ \A m \in Labels : m # l \/ by_labels[m] # 0 => by_labels'[m] = by_labels[m]
        /\ by_labels[l] = 0 => Len(by_ref) < ref
        /\ by_labels[l] # 0 => InOrder(by_ref[ref], t)
        /\ by_ref'[ref].labels # NoLabels
        /\ Holds(by_ref'[ref], [t |-> t, v |-> v])
        /\ \A i \in 1..Len(by_ref) :
              /\ i \in 1..Len(by_ref')
              /\ by_ref'[i].labels = by_ref[i].labels
              /\ \A p : Holds(by_ref[i], p) => Holds(by_ref'[i], p)
        /\ SortedRefs(by_ref) => SortedRefs(by_ref')
        /\ pending_samples' = Append(pending_samples, new)
        /\ pending_series' = IF by_labels[l] = 0
              THEN Append(pending_series, [ref |-> ref, labels |-> l])
              ELSE pending_series
    BY AppendFacts DEF StoreMatchesLog
  <1>3. (TypeOK =>
          /\ SeriesSorted <=> SortedRefs(by_ref)
          /\ PendingInOrder <=>
                (phase \in Running =>
                    /\ KnownSeries(wal, pending_series)
                    /\ phase = "logSamples" => pending_series = <<>>
                    /\ \A k \in DOMAIN pending_samples : Replayed(pending_samples[k])
                    /\ SortedItems(pending_samples)
                    /\ HeldLog(wal)
                    /\ Follows(wal, pending_samples)))'
    BY OrderForms, PTL
  <1>4. SortedRefs(by_ref) /\ SeriesSorted'
    BY <1>0, <1>2, <1>3, OrderForms DEF LogInOrder
  <1>20. NoneRefused' <=> NoneRefused
    BY <1>1 DEF NoneRefused
  <1> SUFFICES ASSUME faults = 0, ~powerLost, NoneRefused
               PROVE  LogInOrder'
    BY <1>1, <1>4, <1>20 DEF LogInOrder
  <1>5. /\ KnownSeries(wal, pending_series)
        /\ \A k \in DOMAIN pending_samples : Replayed(pending_samples[k])
        /\ SortedItems(pending_samples)
        /\ HeldLog(wal)
        /\ Follows(wal, pending_samples)
    BY <1>1, OrderForms DEF LogInOrder
  <1>6. WriterInStep' /\ SeriesFirst' /\ NoStepBack' /\ ReplayFromLog' /\ ReplayNeverRefuses'
    BY <1>1 DEF LogInOrder, WriterInStep, SeriesFirst, IntroducedBefore, IsSeries, NoStepBack,
                ReplayFromLog, ReplayNeverRefuses, Running
  <1>7. \A x : Replayed(x) => Replayed(x)'
    BY <1>2, ZenonT(30) DEF Replayed, RefTaken, Holds
  <1> DEFINE n == Len(pending_samples)
  <1>8. /\ n \in Nat /\ DOMAIN pending_samples = 1..n /\ DOMAIN pending_samples' = 1..n + 1
        /\ \A k \in 1..n : pending_samples'[k] = pending_samples[k]
        /\ pending_samples'[n + 1] = new
    <2>1. new \in RefSample
      BY <1>0, HeadConstants DEF TypeOK, RefSample
    <2> HIDE DEF new
    <2> QED
      BY <1>2, <2>1, AppendProperties, LenProperties DEF TypeOK
  <1>9. new.ref = ref /\ new.t = t /\ new.v = v
    OBVIOUS
  <1>10. ASSUME NEW x, Replayed(x), x.ref = ref
         PROVE  x.t <= t
    <2>1. x.ref \in 1..Len(by_ref)
      BY <1>10 DEF Replayed, RefTaken
    <2>2. by_labels[l] # 0
      BY <1>2, <1>10, <2>1, LenProperties DEF TypeOK
    <2> QED
      BY <1>2, <1>4, <1>10, <2>2, HeldNotAfter
  <1> HIDE DEF new, n
  <1>11. ASSUME NEW k \in DOMAIN pending_samples'
         PROVE  Replayed(pending_samples[k])'
    <2>1. CASE k \in 1..n
      <3>1. Replayed(pending_samples[k]) /\ pending_samples'[k] = pending_samples[k]
        BY <1>5, <1>8, <2>1
      <3> QED
        BY <1>7, <3>1
    <2>2. CASE k = n + 1
      <3>1. \A x : x.ref = ref /\ x.t = t /\ x.v = v => Replayed(x)'
        BY <1>2 DEF Replayed, RefTaken, Holds
      <3> HIDE DEF ref
      <3> QED
        BY <1>8, <1>9, <2>2, <3>1
    <2> QED
      BY <1>8, <1>11, <2>1, <2>2
  <1> HIDE DEF ref
  <1>12. SortedItems(pending_samples')
    <2> SUFFICES ASSUME NEW k \in 1..n + 1, NEW m \in 1..n + 1,
                        pending_samples'[k].ref = pending_samples'[m].ref, k < m
                 PROVE  pending_samples'[k].t <= pending_samples'[m].t
      BY <1>8 DEF SortedItems
    <2>1. k \in 1..n
      BY <1>8
    <2>2. CASE m = n + 1
      BY <1>5, <1>8, <1>9, <1>10, <2>1, <2>2
    <2>3. CASE m \in 1..n
      BY <1>5, <1>8, <2>1, <2>3 DEF SortedItems
    <2> QED
      BY <1>8, <2>2, <2>3
  <1>13. Follows(wal', pending_samples')
    <2> SUFFICES ASSUME NEW m \in 1..n + 1, NEW i \in 1..Len(wal)
                 PROVE  NotAfter(wal[i], pending_samples'[m].ref, pending_samples'[m].t)
      BY <1>1, <1>8 DEF Follows
    <2>1. CASE m \in 1..n
      BY <1>5, <1>8, <2>1 DEF Follows
    <2>2. CASE m = n + 1
      BY <1>5, <1>8, <1>9, <1>10, <2>2 DEF NotAfter, HeldLog
    <2> QED
      BY <1>8, <2>1, <2>2
  <1>14. HeldLog(wal)'
    BY <1>1, <1>5, <1>7 DEF HeldLog
  <1>15. KnownSeries(wal, pending_series)'
    <2> SUFFICES ASSUME NEW m \in Labels, by_labels'[m] # 0
                 PROVE  \/ Introduced(wal, Len(wal) + 1, by_labels'[m])
                        \/ \E k \in DOMAIN pending_series' : pending_series'[k].ref = by_labels'[m]
      BY <1>1 DEF KnownSeries
    <2>1. CASE by_labels[l] # 0
      <3>1. by_labels'[m] = by_labels[m] /\ pending_series' = pending_series
        BY <1>2, <2>1
      <3> QED
        BY <1>5, <3>1 DEF KnownSeries
    <2>2. CASE by_labels[l] = 0
      <3> DEFINE b == [ref |-> ref, labels |-> l]
                 p == Len(pending_series)
      <3>1. b \in RefSeries /\ b.ref = ref
        BY <1>0 DEF TypeOK, RefSeries, ref
      <3> HIDE DEF b
      <3>2. pending_series' = Append(pending_series, b)
        BY <1>2, <2>2 DEF b
      <3>3. /\ p \in Nat /\ DOMAIN pending_series = 1..p /\ DOMAIN pending_series' = 1..p + 1
            /\ \A k \in 1..p : pending_series'[k] = pending_series[k]
            /\ pending_series'[p + 1] = b
        BY <3>1, <3>2, AppendProperties, LenProperties DEF TypeOK
      <3> HIDE DEF p
      <3>4. p + 1 \in DOMAIN pending_series' /\ \A k \in 1..p : k \in DOMAIN pending_series'
        BY <3>3
      <3>5. CASE m = l
        BY <3>1, <3>3, <3>4, <3>5 DEF ref
      <3>6. CASE m # l
        <4>1. by_labels'[m] = by_labels[m]
          BY <1>2, <3>6
        <4> QED
          BY <1>5, <3>3, <3>4, <4>1 DEF KnownSeries
      <3> QED
        BY <3>5, <3>6
    <2> QED
      BY <2>1, <2>2
  <1>16. PendingInOrder'
    BY <1>0, <1>1, <1>3, <1>11, <1>12, <1>13, <1>14, <1>15
  <1> QED
    BY <1>1, <1>4, <1>6, <1>16 DEF LogInOrder

-----------------------------------------------------------------------------
(* The end of a process.                                                   *)

(* A head with no series is in order. *)
LEMMA NoSeriesSorted ==
    ASSUME EmptyStore
    PROVE  SeriesSorted'
  <1>1. by_ref' = <<>> /\ DOMAIN <<>> = {}
    BY DEF EmptyStore
  <1> QED
    BY <1>1 DEF SeriesSorted

(* The end of a process, too, only adds to the log. *)
LEMMA EndExtends ==
    ASSUME TypeOK, Destroy \/ DestroyFails \/ Crash
    PROVE  \/ Extended(wal', unflushed) \/ Extended(wal', Append(unflushed, Rec))
           \/ \E w : Extended(w, unflushed) /\ SameSlots(w, wal')
  <1>1. unflushed \in Seq(Records) /\ Append(unflushed, Rec) \in Seq(Records)
    BY RecType DEF TypeOK
  <1>2. wal \in Cuttings(unflushed)
    BY DEF Cuttings
  <1>3. Extended(wal, unflushed)
    BY <1>1, <1>2, FlushExtends
  <1>4. CASE wal' = wal
    BY <1>3, <1>4
  <1>5. CASE wal' \in Flushed(unflushed) \cup Cuttings(unflushed)
    BY <1>1, <1>5, FlushExtends
  <1>6. CASE wal' \in Cuttings(Append(unflushed, Rec))
    BY <1>1, <1>6, FlushExtends
  <1>7. ASSUME NEW w \in Flushed(unflushed), wal' = Synced(w)
        PROVE  Extended(w, unflushed) /\ SameSlots(w, wal')
    <2>1. Extended(w, unflushed)
      BY <1>1, FlushExtends
    <2>2. w \in Seq(Slots)
      BY <2>1 DEF Extended
    <2> QED
      BY <1>7, <2>1, <2>2, SyncedSame
  <1> QED
    BY <1>4, <1>5, <1>6, <1>7 DEF Destroy, DestroyFails, Crash

(* A longer log without a refused record extends one. *)
LEMMA ExtendedRefused ==
    ASSUME wal \in Seq(Slots), NoneRefused', NEW recs, NEW w, Extended(w, recs),
           w = wal' \/ SameSlots(w, wal')
    PROVE  NoneRefused
  <1>1. /\ w \in Seq(Slots) /\ Len(w) >= Len(wal) /\ \A i \in 1..Len(wal) : w[i] = wal[i]
    BY DEF Extended
  <1>2. DOMAIN w = 1..Len(w) /\ DOMAIN wal = 1..Len(wal) /\ Len(w) \in Nat /\ Len(wal) \in Nat
    BY <1>1, LenProperties
  <1>3. \A i \in 1..Len(w) : i \in DOMAIN wal' /\ wal'[i].type = w[i].type
    <2>1. CASE w = wal'
      BY <1>2, <2>1
    <2>2. CASE SameSlots(w, wal')
      <3>1. Len(wal') = Len(w) /\ wal' \in Seq(Slots) /\ \A i \in 1..Len(w) : wal'[i].type = w[i].type
        BY <2>2 DEF SameSlots
      <3>2. DOMAIN wal' = 1..Len(w)
        BY <3>1, LenProperties
      <3> QED
        BY <3>1, <3>2
    <2> QED
      BY <2>1, <2>2
  <1>4. \A i \in 1..Len(wal) : i \in 1..Len(w)
    BY <1>1, <1>2
  <1> QED
    BY <1>1, <1>2, <1>3, <1>4 DEF NoneRefused

(* A crash leaves a log in order. *)
LEMMA EndKeepsOrder ==
    ASSUME TypeOK, LogInOrder, Destroy \/ DestroyFails \/ Crash \/ PowerLoss
    PROVE  LogInOrder'
  <1>1. CASE PowerLoss
    <2>1. powerLost' /\ by_ref' = by_ref
      BY <1>1 DEF PowerLoss, store
    <2> QED
      BY <2>1 DEF LogInOrder, SeriesSorted
  <1>2. CASE Destroy \/ DestroyFails \/ Crash
    <2>0. Gone
      BY <1>2 DEF Destroy, DestroyFails, Crash
    <2>1. SeriesSorted'
      BY <2>0, NoSeriesSorted DEF Gone
    <2> SUFFICES ASSUME Calm'
                 PROVE  LogInOrder'
      BY <2>1 DEF LogInOrder, Calm
    <2>11. NoneRefused
      <3>1. Extended(wal', unflushed) \/ Extended(wal', Append(unflushed, Rec))
              \/ \E w : Extended(w, unflushed) /\ SameSlots(w, wal')
        BY <1>2, EndExtends
      <3> QED
        BY <3>1, ExtendedRefused DEF Calm, TypeOK
    <2>2. Calm /\ ~DestroyFails
      BY <1>2, <2>11 DEF Calm, Destroy, DestroyFails, Crash, Fault, TypeOK
    <2>3. unflushed = <<>> /\ ~skewed /\ ~rollFailed /\ wal \in Seq(Slots)
      BY <2>2 DEF LogInOrder, Calm, WriterInStep, TypeOK
    <2>4. SeriesFirstIn(wal) /\ NoStepBackIn(wal)
      BY <2>2, OrderForms DEF LogInOrder, Calm
    <2>5. \/ wal' = wal
          \/ SameSlots(wal, wal')
          \/ \E type \in {"Torn", "Bad"} : OneMore(wal, wal', Partial(type))
      <3>1. CASE Destroy
        BY <2>3, <3>1, CalmWrites, SyncedSame DEF Destroy
      <3>2. CASE Crash
        BY <2>3, <3>2, CalmWrites DEF Crash
      <3> QED
        BY <1>2, <2>2, <3>1, <3>2
    <2>6. SeriesFirstIn(wal') /\ NoStepBackIn(wal')
      <3>1. \A type \in {"Torn", "Bad"} : Partial(type).type # "SamplesV2"
        BY DEF Partial
      <3> QED
        BY <2>4, <2>5, <3>1, SameKeepsOrder, OtherKeepsOrder
    <2>7. TypeOK'
      BY EndType
    <2>8. (TypeOK =>
            /\ SeriesFirst <=> SeriesFirstIn(wal)
            /\ NoStepBack <=> NoStepBackIn(wal))'
      BY OrderForms, PTL
    <2>9. SeriesFirst' /\ NoStepBack'
      BY <2>6, <2>7, <2>8
    <2>10. WriterInStep' /\ PendingInOrder' /\ ReplayFromLog' /\ ReplayNeverRefuses'
      BY <2>0, <2>3 DEF Gone, WriterInStep, PendingInOrder, ReplayFromLog, ReplayNeverRefuses,
                        Running, Logging
    <2> QED
      BY <2>1, <2>9, <2>10 DEF LogInOrder
  <1> QED
    BY <1>1, <1>2

-----------------------------------------------------------------------------
(* open().                                                                 *)

(* A replay of a log in order meets no sample that it refuses. *)
LEMMA ReplayInOrder ==
    ASSUME TypeOK, StoreMatchesLog, SeriesFirst, NoStepBack, ReplayFromLog, AtItem("SamplesV2")
    PROVE  RefTaken(Item.ref) /\ InOrder(by_ref[Item.ref], Item.t)
  <1> DEFINE c == cursor.slot
             d == cursor.item
  <1>1. /\ wal \in Seq(Slots) /\ DOMAIN wal = 1..Len(wal) /\ Len(wal) \in Nat
        /\ c \in 1..Len(wal) /\ wal[c].type = "SamplesV2" /\ phase = "replay"
        /\ d \in Nat \ {0} /\ d <= Len(wal[c].items)
    BY LenProperties DEF TypeOK, AtItem, Cur
  <1>2. wal[c].items \in Seq(RefSample) /\ d \in DOMAIN wal[c].items /\ Item = wal[c].items[d]
    <2>1. wal[c] \in Slots
      BY <1>1, ElementOfSeq
    <2>2. wal[c].items \in Seq(RefSample)
      BY <1>1, <2>1 DEF Slots
    <2> QED
      BY <1>1, <2>2, LenProperties DEF Item, Cur
  <1>3. RefTaken(Item.ref)
    <2>0. IntroducedBefore(c, wal[c].items[d].ref)
      <3> HIDE DEF c, d
      <3> QED
        BY <1>1, <1>2 DEF SeriesFirst
    <2>1. PICK i \in 1..Len(wal) : i < c /\ IsSeries(i) /\
             \E k \in DOMAIN wal[i].items : wal[i].items[k].ref = Item.ref
      BY <1>1, <1>2, <2>0 DEF IntroducedBefore
    <2>2. PICK k \in DOMAIN wal[i].items : wal[i].items[k].ref = Item.ref
      BY <2>1
    <2>3. Bound(wal[i].items[k])
      BY <1>1, <2>1 DEF StoreMatchesLog, ReplayCovers, AllBound
    <2>4. wal[i].items[k].labels \in Labels
      BY <1>1, <2>1, SeriesItems DEF IsSeries
    <2> QED
      BY <2>2, <2>3, <2>4, HeadConstants DEF Bound, RefTaken, StoreMatchesLog, StoreOK
  <1>4. InOrder(by_ref[Item.ref], Item.t)
    <2> DEFINE r == Item.ref
               q == by_ref[r].samples
    <2> SUFFICES ASSUME q # <<>>
                 PROVE  q[Len(q)].t <= Item.t
      BY DEF InOrder
    <2>1. r \in 1..Len(by_ref) /\ DOMAIN by_ref = 1..Len(by_ref)
      BY <1>3, LenProperties DEF RefTaken, TypeOK
    <2>2. q \in Seq(Samples)
      <3>1. by_ref[r] \in MemSeries
        BY <2>1, ElementOfSeq DEF TypeOK
      <3> QED
        BY <3>1 DEF MemSeries
    <2>3. Len(q) \in DOMAIN q
      BY <2>2, LenProperties
    <2>4. PICK i \in 1..Len(wal) : wal[i].type = "SamplesV2" /\
             \E m \in DOMAIN wal[i].items :
                Before(i, m, c, d) /\ wal[i].items[m].ref = r /\ wal[i].items[m].t = q[Len(q)].t
      <3> DEFINE n == Len(q)
      <3>1. n \in DOMAIN by_ref[r].samples /\ r \in DOMAIN by_ref
        BY <2>1, <2>3
      <3> HIDE DEF n, r
      <3>2. \E i \in DOMAIN wal : wal[i].type = "SamplesV2" /\
               \E m \in DOMAIN wal[i].items :
                  Before(i, m, c, d) /\ wal[i].items[m].ref = r
                    /\ wal[i].items[m].t = by_ref[r].samples[n].t
        BY <1>1, <3>1 DEF ReplayFromLog
      <3> QED
        BY <1>1, <3>2 DEF n
    <2>5. PICK m \in DOMAIN wal[i].items :
             Before(i, m, c, d) /\ wal[i].items[m].ref = r /\ wal[i].items[m].t = q[Len(q)].t
      BY <2>4
    <2> HIDE DEF q, c, d, r
    <2>6. wal[i].items[m].ref = wal[c].items[d].ref
      BY <1>2, <2>5 DEF r
    <2>7. wal[i].items[m].t <= wal[c].items[d].t
      BY <1>1, <1>2, <2>4, <2>5, <2>6 DEF NoStepBack
    <2> QED
      BY <1>2, <2>5, <2>7
  <1> QED
    BY <1>3, <1>4

(* The samples that insert_with_ref leaves are those that were there. *)
LEMMA InsertAddsNoSample ==
    ASSUME TypeOK, NEW ref \in Nat, NEW l \in Labels, insert_with_ref(ref, l)
    PROVE  \A i \in 1..Len(by_ref') :
              \/ by_ref'[i].samples = <<>>
              \/ i \in 1..Len(by_ref) /\ by_ref'[i] = by_ref[i]
  <1>1. CASE by_ref' = by_ref
    BY <1>1
  <1>2. CASE by_ref' # by_ref
    <2>1. ref # 0 /\ by_ref' = WithSeries(ref, l)
      BY <1>2 DEF insert_with_ref, InsertRefused, store
    <2> DEFINE ws == WithSeries(ref, l)
    <2>2. /\ ws[ref] = [labels |-> l, samples |-> <<>>] /\ Len(ws) \in Nat
          /\ \A i \in 1..Len(ws) : i # ref =>
                ws[i] = IF i <= Len(by_ref) THEN by_ref[i] ELSE NoSeries
      BY <2>1, WithSeriesShape, LenProperties
    <2> HIDE DEF ws
    <2>3. Len(by_ref) \in Nat
      BY LenProperties DEF TypeOK
    <2>4. \A i \in 1..Len(ws) :
            \/ ws[i].samples = <<>>
            \/ i \in 1..Len(by_ref) /\ ws[i] = by_ref[i]
      BY <2>2, <2>3 DEF NoSeries
    <2>5. by_ref' = ws
      BY <2>1 DEF ws
    <2> QED
      BY <2>4, <2>5
  <1> QED
    BY <1>1, <1>2

(* Every step of a replay keeps the order, and only an unreadable slot stops
   it. *)
LEMMA ReplayKeepsOrder ==
    ASSUME TypeOK, StoreMatchesLog, LogInOrder,
           open \/ ReplaySeries \/ ReplaySample \/ ReplayNext \/ ReplayCorrupt \/ OpenFails
    PROVE  LogInOrder'
  <1> USE DEF store, pending, writer, disk, history
  <1>0. TypeOK' /\ TypeOK
    <2>1. open \/ Replay
      BY DEF Replay
    <2> QED
      BY <2>1, OpenType
  <1>1. /\ phase \notin Running
        /\ phase' \in {"replay", "failed"} /\ phase' \notin Running
        /\ UNCHANGED <<wal, unflushed, skewed, rollFailed, pending_samples, powerLost>>
        /\ faults' = 0 => faults = 0 /\ ~OpenFails
    <2>1. /\ phase \in {"down", "failed", "replay"}
          /\ phase' \in {"replay", "failed"}
          /\ UNCHANGED <<wal, unflushed, skewed, rollFailed, pending_samples, powerLost>>
          /\ faults' = faults \/ (Fault /\ OpenFails)
      BY DEF open, ReplaySeries, ReplaySample, ReplayNext, ReplayCorrupt, OpenFails, AtItem,
             ReplayFails
    <2>2. OpenFails => Fault
      BY DEF OpenFails
    <2>3. Fault => faults' # 0
      BY DEF Fault, TypeOK
    <2> QED
      BY <2>1, <2>2, <2>3 DEF Running, Logging
  <1>2. /\ wal \in Seq(Slots) /\ DOMAIN wal = 1..Len(wal) /\ Len(wal) \in Nat
        /\ cursor \in [slot : Nat \ {0}, item : Nat \ {0}]
        /\ by_ref \in Seq(MemSeries) /\ DOMAIN by_ref = 1..Len(by_ref)
        /\ DOMAIN by_ref' = 1..Len(by_ref')
    BY <1>0, LenProperties DEF TypeOK
  <1>3. (TypeOK => (SeriesSorted <=> SortedRefs(by_ref)))'
    BY OrderForms, PTL
  <1>4. SortedRefs(by_ref)
    BY OrderForms DEF LogInOrder
  <1>20. NoneRefused' <=> NoneRefused
    BY <1>1 DEF NoneRefused
  <1>5. Calm' => /\ WriterInStep' /\ SeriesFirst' /\ NoStepBack' /\ PendingInOrder'
                 /\ SeriesFirst /\ NoStepBack /\ ReplayFromLog /\ Calm /\ ~OpenFails
    BY <1>1, <1>20 DEF Calm, LogInOrder, WriterInStep, SeriesFirst, IntroducedBefore, IsSeries,
                NoStepBack, PendingInOrder
  <1>6. CASE EmptyStore
    <2>1. SeriesSorted'
      BY <1>6, NoSeriesSorted
    <2>2. Calm' => ReplayFromLog'
      <3>1. DOMAIN by_ref' = {}
        BY <1>6 DEF EmptyStore
      <3> QED
        BY <3>1 DEF ReplayFromLog
    <2>3. Calm' => ReplayNeverRefuses'
      <3> SUFFICES ASSUME Calm', phase' = "failed"
                   PROVE  ~NoTail'
        BY DEF ReplayNeverRefuses
      <3>1. ~ReplaySeries
        BY ReplayAccepts DEF ReplaySeries, AtItem
      <3>2. ~ReplaySample
        <4>1. AtItem("SamplesV2") => RefTaken(Item.ref) /\ InOrder(by_ref[Item.ref], Item.t)
          BY <1>5, ReplayInOrder
        <4> QED
          BY <4>1 DEF ReplaySample, AtItem
      <3>3. ReplayCorrupt
        BY <1>5, <3>1, <3>2 DEF open, ReplayNext
      <3>4. cursor.slot \in DOMAIN wal /\ Cur.type \in {"Torn", "Bad"}
        BY <1>2, <3>3 DEF ReplayCorrupt
      <3> QED
        BY <1>1, <3>4 DEF NoTail, Cur
    <2> QED
      BY <1>5, <2>1, <2>2, <2>3 DEF LogInOrder, Calm
  <1>7. CASE ~EmptyStore
    <2>1. phase = "replay" /\ phase' = "replay"
      BY <1>1, <1>7 DEF open, ReplaySeries, ReplaySample, ReplayNext, ReplayCorrupt, OpenFails,
                        AtItem, ReplayFails
    <2>2. ReplayNeverRefuses'
      BY <2>1 DEF ReplayNeverRefuses
    <2>3. CASE ReplaySeries
      <3>1. /\ AtItem("Series") /\ insert_with_ref(Item.ref, Item.labels)
            /\ cursor' = [slot |-> cursor.slot, item |-> cursor.item + 1]
        BY <1>7, <2>3 DEF ReplaySeries, ReplayFails, NextItem
      <3>2. Item.ref \in Nat /\ Item.labels \in Labels
        <4>1. Cur.items \in Seq(RefSeries) /\ cursor.item \in 1..Len(Cur.items)
          BY <1>2, <3>1, SeriesItems, LenProperties DEF Cur, AtItem
        <4>2. Item \in RefSeries
          BY <4>1, ElementOfSeq DEF Item
        <4> QED
          BY <4>2 DEF RefSeries
      <3>3. \A i \in 1..Len(by_ref') :
              \/ by_ref'[i].samples = <<>>
              \/ i \in 1..Len(by_ref) /\ by_ref'[i] = by_ref[i]
        BY <3>1, <3>2, InsertAddsNoSample
      <3>4. DOMAIN <<>> = {}
        OBVIOUS
      <3>5. SeriesSorted'
        BY <1>0, <1>3, <1>4, <3>3, <3>4 DEF SortedRefs
      <3>6. \A i, m : Before(i, m, cursor.slot, cursor.item) /\ m \in Nat =>
                       Before(i, m, cursor'.slot, cursor'.item)
        BY <1>2, <3>1 DEF Before
      <3>7. \A i \in 1..Len(wal) : wal[i].type = "SamplesV2" => \A m \in DOMAIN wal[i].items : m \in Nat
        <4> SUFFICES ASSUME NEW i \in 1..Len(wal), wal[i].type = "SamplesV2"
                     PROVE  \A m \in DOMAIN wal[i].items : m \in Nat
          OBVIOUS
        <4>1. wal[i] \in Slots
          BY <1>2, ElementOfSeq
        <4>2. wal[i].items \in Seq(RefSample)
          BY <4>1 DEF Slots
        <4> QED
          BY <4>2, LenProperties
      <3>8. ReplayFromLog => ReplayFromLog'
        BY <1>1, <1>2, <2>1, <3>3, <3>4, <3>6, <3>7, SMTT(30) DEF ReplayFromLog
      <3> QED
        BY <1>5, <2>2, <3>5, <3>8 DEF LogInOrder, Calm
    <2>4. CASE ReplaySample
      <3> DEFINE r == Item.ref
                 t == Item.t
                 v == Item.v
      <3>1. /\ AtItem("SamplesV2") /\ RefTaken(r) /\ InOrder(by_ref[r], t)
            /\ cursor' = [slot |-> cursor.slot, item |-> cursor.item + 1]
            /\ by_ref' = Appended(by_ref, r, t, v)
        BY <1>7, <2>4 DEF ReplaySample, ReplayFails, NextItem
      <3>2. /\ cursor.slot \in 1..Len(wal) /\ wal[cursor.slot].type = "SamplesV2"
            /\ cursor.item \in DOMAIN wal[cursor.slot].items
            /\ Item = wal[cursor.slot].items[cursor.item] /\ Item \in RefSample
        <4>1. cursor.slot \in 1..Len(wal) /\ Cur.type = "SamplesV2" /\ Cur \in Slots
          BY <1>2, <3>1, ElementOfSeq DEF Cur, AtItem
        <4>2. Cur.items \in Seq(RefSample)
          BY <4>1 DEF Slots
        <4>3. cursor.item \in 1..Len(Cur.items)
          BY <1>2, <3>1, <4>2, LenProperties DEF AtItem
        <4> QED
          BY <4>1, <4>2, <4>3, LenProperties, ElementOfSeq DEF Item, Cur
      <3>3. r \in 1..Len(by_ref) /\ t \in Times /\ v \in Values /\ r \in Nat
        BY <3>1, <3>2 DEF RefTaken, RefSample
      <3> HIDE DEF r, t, v
      <3>4. SeriesSorted'
        BY <1>0, <1>2, <1>3, <1>4, <3>1, <3>3, AppendedSorted
      <3>5. ReplayFromLog => ReplayFromLog'
        <4> SUFFICES ASSUME ReplayFromLog, NEW i \in 1..Len(by_ref'),
                            NEW k \in DOMAIN by_ref'[i].samples
                     PROVE  \E j \in 1..Len(wal) : wal[j].type = "SamplesV2" /\
                               \E m \in DOMAIN wal[j].items :
                                  /\ Before(j, m, cursor'.slot, cursor'.item)
                                  /\ wal[j].items[m].ref = i
                                  /\ wal[j].items[m].t = by_ref'[i].samples[k].t
          BY <1>1, <1>2, SMTT(30) DEF ReplayFromLog
        <4>0. \A a \in 1..Len(by_ref) : \A b \in DOMAIN by_ref[a].samples :
                 \E j \in 1..Len(wal) : wal[j].type = "SamplesV2" /\
                    \E m \in DOMAIN wal[j].items :
                       /\ Before(j, m, cursor.slot, cursor.item)
                       /\ wal[j].items[m].ref = a
                       /\ wal[j].items[m].t = by_ref[a].samples[b].t
          BY <1>2, <2>1 DEF ReplayFromLog
        <4> DEFINE x  == [t |-> t, v |-> v]
                   ms == [labels |-> by_ref[r].labels, samples |-> Append(by_ref[r].samples, x)]
                   n  == Len(by_ref[r].samples)
        <4>1. by_ref' = [by_ref EXCEPT ![r] = ms] /\ Len(by_ref') = Len(by_ref)
          BY <1>2, <3>1, <3>3, AppendedShape DEF Appended
        <4>2. x \in Samples /\ by_ref[r].samples \in Seq(Samples)
          <5>1. by_ref[r] \in MemSeries
            BY <1>2, <3>3, ElementOfSeq
          <5> QED
            BY <3>3, <5>1 DEF MemSeries, Samples
        <4>3. ms.samples = Append(by_ref[r].samples, x) /\ x.t = t
          OBVIOUS
        <4> HIDE DEF x, ms
        <4>4. /\ DOMAIN ms.samples = 1..n + 1
              /\ \A j \in 1..n : ms.samples[j] = by_ref[r].samples[j]
              /\ ms.samples[n + 1] = x
              /\ DOMAIN by_ref[r].samples = 1..n
              /\ n \in Nat
          BY <4>2, <4>3, AppendProperties, LenProperties
        <4> HIDE DEF n
        <4>5. ASSUME NEW j \in 1..Len(wal), wal[j].type = "SamplesV2", NEW m \in DOMAIN wal[j].items,
                     Before(j, m, cursor.slot, cursor.item)
              PROVE  Before(j, m, cursor'.slot, cursor'.item)
          <5>1. wal[j] \in Slots
            BY <1>2, ElementOfSeq
          <5>2. wal[j].items \in Seq(RefSample)
            BY <4>5, <5>1 DEF Slots
          <5>3. m \in Nat
            BY <5>2, LenProperties
          <5> QED
            BY <1>2, <3>1, <4>5, <5>3 DEF Before
        <4>6. ASSUME NEW y \in DOMAIN by_ref[i].samples, i \in 1..Len(by_ref),
                     by_ref'[i].samples[k] = by_ref[i].samples[y]
              PROVE  \E j \in 1..Len(wal) : wal[j].type = "SamplesV2" /\
                        \E m \in DOMAIN wal[j].items :
                           /\ Before(j, m, cursor'.slot, cursor'.item)
                           /\ wal[j].items[m].ref = i
                           /\ wal[j].items[m].t = by_ref'[i].samples[k].t
          <5>1. PICK j \in 1..Len(wal) : wal[j].type = "SamplesV2" /\
                   \E m \in DOMAIN wal[j].items :
                      /\ Before(j, m, cursor.slot, cursor.item)
                      /\ wal[j].items[m].ref = i
                      /\ wal[j].items[m].t = by_ref[i].samples[y].t
            BY <4>0, <4>6
          <5> QED
            BY <4>5, <4>6, <5>1
        <4>7. CASE i # r
          BY <1>2, <4>1, <4>6, <4>7
        <4>8. CASE i = r /\ k \in 1..n
          BY <1>2, <3>3, <4>1, <4>4, <4>6, <4>8
        <4>9. CASE i = r /\ k = n + 1
          <5>1. by_ref'[i].samples[k].t = t
            BY <1>2, <3>3, <4>1, <4>3, <4>4, <4>9
          <5>2. Before(cursor.slot, cursor.item, cursor'.slot, cursor'.item)
            BY <1>2, <3>1 DEF Before
          <5>3. wal[cursor.slot].items[cursor.item].ref = i
                /\ wal[cursor.slot].items[cursor.item].t = t
            BY <3>2, <4>9 DEF r, t
          <5> QED
            BY <3>2, <5>1, <5>2, <5>3
        <4>10. i = r => k \in 1..n + 1
          BY <1>2, <3>3, <4>1, <4>4
        <4> QED
          BY <4>4, <4>7, <4>8, <4>9, <4>10
      <3> QED
        BY <1>5, <2>2, <3>4, <3>5 DEF LogInOrder, Calm
    <2>5. CASE ReplayNext
      <3>1. by_ref' = by_ref /\ cursor' = [slot |-> cursor.slot + 1, item |-> 1]
        BY <2>5 DEF ReplayNext
      <3>2. SeriesSorted'
        BY <3>1 DEF LogInOrder, SeriesSorted
      <3>3. \A i \in 1..Len(wal) : \A m : Before(i, m, cursor.slot, cursor.item) =>
                                       Before(i, m, cursor'.slot, cursor'.item)
        BY <1>2, <3>1 DEF Before
      <3>4. ReplayFromLog => ReplayFromLog'
        BY <1>1, <1>2, <2>1, <3>1, <3>3 DEF ReplayFromLog
      <3> QED
        BY <1>5, <2>2, <3>2, <3>4 DEF LogInOrder, Calm
    <2> QED
      BY <1>7, <2>3, <2>4, <2>5 DEF open, ReplayCorrupt, OpenFails, ReplayFails
  <1> QED
    BY <1>6, <1>7

(* A replay that succeeds leaves a head that knows its log. *)
LEMMA ReplayDoneKeepsOrder ==
    ASSUME TypeOK, StoreMatchesLog, CommittedHeld, LogInOrder, ReplayDone
    PROVE  LogInOrder'
  <1> USE DEF store, pending, writer, disk, history
  <1>0. TypeOK'
    <2>1. Replay
      BY DEF Replay
    <2> QED
      BY <2>1, OpenType
  <1>1. /\ phase = "replay" /\ phase' = "open" /\ AtEndOfStream /\ fd'
        /\ UNCHANGED <<by_labels, by_ref, pending_series, pending_samples, unflushed, skewed, wal,
                       rollFailed, faults, powerLost>>
    BY DEF ReplayDone
  <1>2. phase \notin Running /\ phase' \in Running
    BY <1>1 DEF Running, Logging
  <1>3. SeriesSorted'
    BY <1>1 DEF LogInOrder, SeriesSorted
  <1>20. NoneRefused' <=> NoneRefused
    BY <1>1 DEF NoneRefused
  <1> SUFFICES ASSUME Calm
               PROVE  LogInOrder'
    BY <1>1, <1>3, <1>20 DEF LogInOrder, Calm
  <1>4. WriterInStep /\ SeriesFirst /\ NoStepBack /\ pending_samples = <<>>
    BY <1>2 DEF LogInOrder, Calm, WriterInStep
  <1>5. WriterInStep' /\ SeriesFirst' /\ NoStepBack'
    BY <1>1, <1>2, <1>4 DEF WriterInStep, SeriesFirst, IntroducedBefore, IsSeries, NoStepBack
  <1>6. ReplayFromLog' /\ ReplayNeverRefuses'
    BY <1>1 DEF ReplayFromLog, ReplayNeverRefuses
  <1>7. /\ wal \in Seq(Slots) /\ DOMAIN wal = 1..Len(wal) /\ Len(wal) \in Nat
    BY LenProperties DEF TypeOK
  <1>8. (TypeOK =>
          (PendingInOrder <=>
             (phase \in Running =>
                 /\ KnownSeries(wal, pending_series)
                 /\ phase = "logSamples" => pending_series = <<>>
                 /\ \A k \in DOMAIN pending_samples : Replayed(pending_samples[k])
                 /\ SortedItems(pending_samples)
                 /\ HeldLog(wal)
                 /\ Follows(wal, pending_samples))))'
    BY OrderForms, PTL
  <1>9. HeldLog(wal)'
    <2>1. HeldLog(wal)
      BY <1>1, EndOfStreamReadsAll DEF HeldLog, CommittedHeld
    <2> QED
      BY <1>1, <2>1 DEF HeldLog, Replayed, RefTaken
  <1>10. KnownSeries(wal, pending_series)'
    <2> SUFFICES ASSUME NEW l \in Labels, by_labels[l] # 0
                 PROVE  Introduced(wal, Len(wal) + 1, by_labels[l])
      BY <1>1 DEF KnownSeries
    <2>1. PICK i \in 1..Len(wal) : IsSeries(i) /\ \E k \in DOMAIN wal[i].items :
             wal[i].items[k] = [ref |-> by_labels[l], labels |-> l]
      BY <1>1, <1>7 DEF StoreMatchesLog, ReplayCovers
    <2>2. i < Len(wal) + 1
      BY <1>7
    <2> QED
      BY <2>1, <2>2 DEF Introduced, IsSeries
  <1>11. SortedItems(<<>>) /\ Follows(wal, <<>>) /\ DOMAIN <<>> = {}
    BY DEF SortedItems, Follows
  <1>12. PendingInOrder'
    BY <1>0, <1>1, <1>4, <1>8, <1>9, <1>10, <1>11
  <1> QED
    BY <1>3, <1>5, <1>6, <1>12 DEF LogInOrder

-----------------------------------------------------------------------------

(* The empty log of a fresh head is in order. *)
LEMMA InitOrder ==
    ASSUME Init
    PROVE  LogInOrder
  <1>1. /\ phase = "down" /\ wal = <<>> /\ by_ref = <<>> /\ unflushed = <<>>
        /\ ~skewed /\ ~rollFailed /\ pending_samples = <<>>
    BY DEF Init
  <1>2. DOMAIN <<>> = {}
    OBVIOUS
  <1> QED
    BY <1>1, <1>2 DEF LogInOrder, SeriesSorted, WriterInStep, SeriesFirst, NoStepBack,
                      PendingInOrder, ReplayFromLog, ReplayNeverRefuses, Running, Logging

(* Every step keeps the inductive invariant. *)
LEMMA NextKeepsOrder ==
    ASSUME TypeOK, StoreMatchesLog, CommittedHeld, LogInOrder, [Next]_vars
    PROVE  LogInOrder'
  <1>1. CASE \E l \in Labels, t \in Times, v \in Values : append(l, t, v)
    BY <1>1, AppendKeepsOrder
  <1>2. CASE WalStep
    BY <1>2, WalStepKeepsOrder
  <1>3. CASE Destroy \/ DestroyFails \/ Crash \/ PowerLoss
    BY <1>3, EndKeepsOrder
  <1>4. CASE open \/ Replay
    BY <1>4, ReplayKeepsOrder, ReplayDoneKeepsOrder DEF Replay
  <1>5. CASE commit \/ UNCHANGED vars
    <2>1. /\ UNCHANGED <<by_labels, by_ref, pending_series, pending_samples, fd, skewed,
                         unflushed, wal, cursor, rollFailed, faults, powerLost>>
          /\ \/ UNCHANGED phase
             \/ /\ phase \in Running /\ phase' \in Running /\ phase' # "failed"
                /\ phase' # "replay" /\ (phase' = "logSamples" => pending_series = <<>>)
      BY <1>5 DEF commit, vars, store, pending, writer, disk, history, Running, Logging
    <2>2. SeriesSorted'
      BY <2>1 DEF LogInOrder, SeriesSorted
    <2>7. NoneRefused' <=> NoneRefused
      BY <2>1 DEF NoneRefused
    <2> SUFFICES ASSUME Calm
                 PROVE  LogInOrder'
      BY <2>1, <2>2, <2>7 DEF LogInOrder, Calm
    <2>3. /\ WriterInStep /\ SeriesFirst /\ NoStepBack /\ PendingInOrder /\ ReplayFromLog
          /\ ReplayNeverRefuses
      BY DEF LogInOrder, Calm
    <2>4. WriterInStep' /\ SeriesFirst' /\ NoStepBack'
      BY <2>1, <2>3 DEF WriterInStep, SeriesFirst, IntroducedBefore, IsSeries, NoStepBack
    <2>5. ReplayFromLog' /\ ReplayNeverRefuses'
      BY <2>1, <2>3 DEF ReplayFromLog, ReplayNeverRefuses, NoTail
    <2>6. PendingInOrder'
      <3>1. \A x : Replayed(x) => Replayed(x)'
        BY <2>1 DEF Replayed, RefTaken
      <3>2. \A n, ref : IntroducedBefore(n, ref) => IntroducedBefore(n, ref)'
        BY <2>1 DEF IntroducedBefore, IsSeries
      <3> QED
        BY <2>1, <2>3, <3>1, <3>2 DEF PendingInOrder
    <2> QED
      BY <2>2, <2>4, <2>5, <2>6 DEF LogInOrder
  <1> QED
    BY <1>1, <1>2, <1>3, <1>4, <1>5 DEF Next

(* Memory, buffers and log keep one order of the samples of every series, as
   long as no I/O call fails and the page reader accepts what the page writer
   framed: the inductive invariant behind ReplayNeverRefuses.  The order in memory is unconditional. *)
THEOREM LogStaysInOrder == Spec => []LogInOrder
  <1>1. Init => LogInOrder
    BY InitOrder
  <1>2. TypeOK /\ StoreMatchesLog /\ CommittedHeld /\ LogInOrder /\ [Next]_vars => LogInOrder'
    BY NextKeepsOrder
  <1> QED
    BY <1>1, <1>2, TypeCorrect, StoreLogAgreement, CommitsAreHeld, PTL DEF Spec

(* open() accepts every log that this head wrote, after any number of
   crashes, as long as no I/O call failed, no power was lost, no record was cut
   short and none was framed with two First fragments (page.cpp:46): each sample
   follows its Series record and no time goes back. *)
THEOREM OwnLogAccepted == Spec => []ReplayNeverRefuses
  <1>1. LogInOrder => ReplayNeverRefuses
    <2>1. NoTail => NoneRefused
      BY DEF NoTail, NoneRefused
    <2> QED
      BY <2>1 DEF LogInOrder, ReplayNeverRefuses
  <1> QED
    BY <1>1, LogStaysInOrder, PTL

-----------------------------------------------------------------------------
(* What SamplesOf and LoggedOf compute, step by step.                      *)

\* The samples q of series ref after the RefSample x.
Taken(q, x, ref) == IF x.ref = ref THEN Append(q, [t |-> x.t, v |-> x.v]) ELSE q

\* The samples q of series ref after the slot s.
TakenAll(q, s, ref) ==
    IF s.type = "SamplesV2" THEN q \o SamplesOf(ref, s.items, Len(s.items)) ELSE q

(* SamplesOf takes one item after the other. *)
LEMMA SamplesOfSteps ==
    ASSUME NEW ref, NEW p \in Seq(RefSample)
    PROVE  /\ SamplesOf(ref, p, 0) = <<>>
           /\ \A i \in 1..Len(p) : SamplesOf(ref, p, i) = Taken(SamplesOf(ref, p, i - 1), p[i], ref)
           /\ \A i \in 0..Len(p) : SamplesOf(ref, p, i) \in Seq(Samples)
  <1>1. PICK n \in Nat : n = Len(p)
    BY LenProperties
  <1> DEFINE G == Seq(Samples)
             st == [i \in 1..n |-> [q \in G |-> Taken(q, p[i], ref)]]
             Is(f) == f = [i \in 0..n |-> IF i = 0 THEN <<>>
                             ELSE IF p[i].ref = ref
                             THEN Append(f[i - 1], [t |-> p[i].t, v |-> p[i].v])
                             ELSE f[i - 1]]
             F == CHOOSE f : Is(f)
  <1>2. \A i \in 1..n : p[i] \in RefSample
    BY <1>1, ElementOfSeq
  <1>3. \A x \in RefSample : [t |-> x.t, v |-> x.v] \in Samples
    BY DEF RefSample, Samples
  <1>4. \A q \in G : \A y \in Samples : Append(q, y) \in G
    BY AppendProperties
  <1>5. <<>> \in G
    OBVIOUS
  <1>6. \A q \in G : \A i \in 1..n : Taken(q, p[i], ref) \in G
    BY <1>2, <1>3, <1>4, Zenon DEF Taken
  <1>7. st \in Stepping(G, n)
    BY <1>6 DEF Stepping
  <1>8. \A i \in 1..n : \A q \in G : st[i][q] = Taken(q, p[i], ref)
    BY Zenon
  <1>9. \A i : SamplesOf(ref, p, i) = F[i]
    BY <1>1 DEF SamplesOf
  <1>10. PICK z \in G : z = <<>>
    BY <1>5, Zenon
  <1> HIDE DEF G, st, Is, F
  <1>11. PICK g \in [0..n -> G] : g[0] = z /\ \A i \in 1..n : g[i] = st[i][g[i - 1]]
    <2>1. \E g : StepsFrom(g, G, z, n, st)
      BY <1>7, Recursion, Zenon
    <2> QED
      BY <2>1, Zenon DEF StepsFrom
  <1>12. \A i \in 1..n : g[i] = Taken(g[i - 1], p[i], ref)
    <2> SUFFICES ASSUME NEW i \in 1..n
                 PROVE  g[i] = Taken(g[i - 1], p[i], ref)
      OBVIOUS
    <2>1. g[i - 1] \in G
      OBVIOUS
    <2> QED
      BY <1>8, <1>11, <2>1, Zenon
  <1>13. Is(g)
    <2>1. ASSUME NEW i \in 0..n
          PROVE  g[i] = IF i = 0 THEN <<>>
                        ELSE IF p[i].ref = ref
                        THEN Append(g[i - 1], [t |-> p[i].t, v |-> p[i].v])
                        ELSE g[i - 1]
      <3>1. CASE i = 0
        BY <1>10, <1>11, <3>1, Zenon
      <3>2. CASE i # 0
        <4>1. i \in 1..n
          BY <3>2
        <4> QED
          BY <1>12, <3>2, <4>1, Zenon DEF Taken
      <3> QED
        BY <3>1, <3>2
    <2> QED
      BY <2>1, Zenon DEF Is
  <1>14. Is(F)
    BY <1>13, Zenon DEF F
  <1>15. \A i \in 0..n : F[i] = IF i = 0 THEN <<>>
                                ELSE IF p[i].ref = ref
                                THEN Append(F[i - 1], [t |-> p[i].t, v |-> p[i].v])
                                ELSE F[i - 1]
    BY <1>14, Zenon DEF Is
  <1>16. 0 \in 0..n /\ \A i \in 1..n : i \in 0..n /\ i # 0
    OBVIOUS
  <1>17. F[0] = <<>>
    BY <1>15, <1>16, Zenon
  <1>18. \A i \in 1..n : F[i] = Taken(F[i - 1], p[i], ref)
    BY <1>15, <1>16, Zenon DEF Taken
  <1> DEFINE T == {i \in 0..n : F[i] \in G}
  <1>19. 0 \in T
    BY <1>5, <1>16, <1>17, Zenon
  <1>20. ASSUME NEW i \in 1..n, i - 1 \in T
         PROVE  i \in T
    <2>1. Taken(F[i - 1], p[i], ref) \in G
      BY <1>6, <1>20, Zenon
    <2> QED
      BY <1>16, <1>18, <2>1, Zenon
  <1> HIDE DEF T
  <1>21. 0..n \subseteq T
    BY <1>19, <1>20, UpTo
  <1>22. \A i \in 0..n : F[i] \in G
    BY <1>21 DEF T
  <1> QED
    BY <1>1, <1>9, <1>17, <1>18, <1>22, Zenon DEF G

(* LoggedOf takes one slot after the other. *)
LEMMA LoggedOfSteps ==
    ASSUME NEW ref, NEW w \in Seq(Slots)
    PROVE  /\ LoggedOf(ref, w, 0) = <<>>
           /\ \A i \in 1..Len(w) : LoggedOf(ref, w, i) = TakenAll(LoggedOf(ref, w, i - 1), w[i], ref)
           /\ \A i \in 0..Len(w) : LoggedOf(ref, w, i) \in Seq(Samples)
  <1>1. PICK n \in Nat : n = Len(w)
    BY LenProperties
  <1> DEFINE G == Seq(Samples)
             st == [i \in 1..n |-> [q \in G |-> TakenAll(q, w[i], ref)]]
             Is(f) == f = [i \in 0..n |-> IF i = 0 THEN <<>>
                             ELSE IF w[i].type = "SamplesV2"
                             THEN f[i - 1] \o SamplesOf(ref, w[i].items, Len(w[i].items))
                             ELSE f[i - 1]]
             F == CHOOSE f : Is(f)
  <1>2. \A i \in 1..n : w[i] \in Slots
    BY <1>1, ElementOfSeq
  <1>3. \A s \in Slots : s.type = "SamplesV2" => s.items \in Seq(RefSample)
    BY DEF Slots
  <1>4. ASSUME NEW s \in Slots, s.type = "SamplesV2"
        PROVE  SamplesOf(ref, s.items, Len(s.items)) \in G
    <2>1. PICK p \in Seq(RefSample) : p = s.items
      BY <1>3, <1>4, Zenon
    <2>2. Len(p) \in 0..Len(p)
      BY LenProperties
    <2>3. SamplesOf(ref, p, Len(p)) \in G
      BY <2>2, SamplesOfSteps
    <2> QED
      BY <2>1, <2>3, Zenon
  <1>5. \A q, y \in G : q \o y \in G
    BY ConcatProperties
  <1>6. <<>> \in G
    OBVIOUS
  <1>7. \A q \in G : \A i \in 1..n : TakenAll(q, w[i], ref) \in G
    BY <1>2, <1>4, <1>5, Zenon DEF TakenAll
  <1>8. st \in Stepping(G, n)
    BY <1>7 DEF Stepping
  <1>9. \A i \in 1..n : \A q \in G : st[i][q] = TakenAll(q, w[i], ref)
    BY Zenon
  <1>10. \A i : LoggedOf(ref, w, i) = F[i]
    BY <1>1 DEF LoggedOf
  <1>11. PICK z \in G : z = <<>>
    BY <1>6, Zenon
  <1> HIDE DEF G, st, Is, F
  <1>12. PICK g \in [0..n -> G] : g[0] = z /\ \A i \in 1..n : g[i] = st[i][g[i - 1]]
    <2>1. \E g : StepsFrom(g, G, z, n, st)
      BY <1>8, Recursion, Zenon
    <2> QED
      BY <2>1, Zenon DEF StepsFrom
  <1>13. \A i \in 1..n : g[i] = TakenAll(g[i - 1], w[i], ref)
    <2> SUFFICES ASSUME NEW i \in 1..n
                 PROVE  g[i] = TakenAll(g[i - 1], w[i], ref)
      OBVIOUS
    <2>1. g[i - 1] \in G
      OBVIOUS
    <2> QED
      BY <1>9, <1>12, <2>1, Zenon
  <1>14. Is(g)
    <2>1. ASSUME NEW i \in 0..n
          PROVE  g[i] = IF i = 0 THEN <<>>
                        ELSE IF w[i].type = "SamplesV2"
                        THEN g[i - 1] \o SamplesOf(ref, w[i].items, Len(w[i].items))
                        ELSE g[i - 1]
      <3>1. CASE i = 0
        BY <1>11, <1>12, <3>1, Zenon
      <3>2. CASE i # 0
        <4>1. i \in 1..n
          BY <3>2
        <4> QED
          BY <1>13, <3>2, <4>1, Zenon DEF TakenAll
      <3> QED
        BY <3>1, <3>2
    <2> QED
      BY <2>1, Zenon DEF Is
  <1>15. Is(F)
    BY <1>14, Zenon DEF F
  <1>16. \A i \in 0..n : F[i] = IF i = 0 THEN <<>>
                                ELSE IF w[i].type = "SamplesV2"
                                THEN F[i - 1] \o SamplesOf(ref, w[i].items, Len(w[i].items))
                                ELSE F[i - 1]
    BY <1>15, Zenon DEF Is
  <1>17. 0 \in 0..n /\ \A i \in 1..n : i \in 0..n /\ i # 0
    OBVIOUS
  <1>18. F[0] = <<>>
    BY <1>16, <1>17, Zenon
  <1>19. \A i \in 1..n : F[i] = TakenAll(F[i - 1], w[i], ref)
    BY <1>16, <1>17, Zenon DEF TakenAll
  <1> DEFINE T == {i \in 0..n : F[i] \in G}
  <1>20. 0 \in T
    BY <1>6, <1>17, <1>18, Zenon
  <1>21. ASSUME NEW i \in 1..n, i - 1 \in T
         PROVE  i \in T
    <2>1. TakenAll(F[i - 1], w[i], ref) \in G
      BY <1>7, <1>21, Zenon
    <2> QED
      BY <1>17, <1>19, <2>1, Zenon
  <1> HIDE DEF T
  <1>22. 0..n \subseteq T
    BY <1>20, <1>21, UpTo
  <1>23. \A i \in 0..n : F[i] \in G
    BY <1>22 DEF T
  <1> QED
    BY <1>1, <1>10, <1>18, <1>19, <1>23, Zenon DEF G


(* It depends on the items it takes only. *)
LEMMA SamplesOfPrefix ==
    ASSUME NEW ref, NEW p \in Seq(RefSample), NEW q \in Seq(RefSample), NEW n \in Nat,
           n <= Len(p), n <= Len(q), \A i \in 1..n : p[i] = q[i]
    PROVE  SamplesOf(ref, p, n) = SamplesOf(ref, q, n)
  <1> DEFINE T == {i \in 0..n : SamplesOf(ref, p, i) = SamplesOf(ref, q, i)}
  <1>1. Len(p) \in Nat /\ Len(q) \in Nat
    BY LenProperties
  <1>2. \A i \in 1..n : i \in 1..Len(p) /\ i \in 1..Len(q) /\ i \in 0..n
    BY <1>1
  <1>3. 0 \in T
    BY SamplesOfSteps
  <1>4. ASSUME NEW i \in 1..n, i - 1 \in T
        PROVE  i \in T
    <2>1. SamplesOf(ref, p, i) = Taken(SamplesOf(ref, p, i - 1), p[i], ref)
      BY <1>2, SamplesOfSteps, Zenon
    <2>2. SamplesOf(ref, q, i) = Taken(SamplesOf(ref, q, i - 1), q[i], ref)
      BY <1>2, SamplesOfSteps, Zenon
    <2>3. SamplesOf(ref, p, i - 1) = SamplesOf(ref, q, i - 1)
      BY <1>4, Zenon
    <2> QED
      BY <1>2, <2>1, <2>2, <2>3, Zenon
  <1> HIDE DEF T
  <1>5. 0..n \subseteq T
    BY <1>3, <1>4, UpTo
  <1>6. n \in T
    BY <1>5
  <1> QED
    BY <1>6, Zenon DEF T

(* One more item. *)
LEMMA SamplesOfAppend ==
    ASSUME NEW ref, NEW p \in Seq(RefSample), NEW x \in RefSample
    PROVE  SamplesOf(ref, Append(p, x), Len(Append(p, x)))
             = Taken(SamplesOf(ref, p, Len(p)), x, ref)
  <1>1. PICK q \in Seq(RefSample) : q = Append(p, x)
    BY AppendProperties
  <1>2. PICK n \in Nat : n = Len(p)
    BY LenProperties
  <1>3. Len(q) = n + 1 /\ q[n + 1] = x /\ \A i \in 1..n : p[i] = q[i]
    BY <1>1, <1>2, AppendProperties
  <1>4. n + 1 \in 1..Len(q) /\ (n + 1) - 1 = n /\ n <= Len(q) /\ n <= Len(p)
    BY <1>2, <1>3
  <1>5. SamplesOf(ref, q, n + 1) = Taken(SamplesOf(ref, q, (n + 1) - 1), q[n + 1], ref)
    BY <1>4, SamplesOfSteps, Zenon
  <1>6. SamplesOf(ref, p, n) = SamplesOf(ref, q, n)
    BY <1>3, <1>4, SamplesOfPrefix
  <1> QED
    BY <1>1, <1>2, <1>3, <1>4, <1>5, <1>6, Zenon

\* The slots s and s2 hold the same samples.
SameSamples(s, s2) ==
    \/ s.type = "SamplesV2" /\ s2.type = "SamplesV2" /\ s2.items = s.items
    \/ s.type # "SamplesV2" /\ s2.type # "SamplesV2"

(* LoggedOf depends on the samples of the slots it takes only. *)
LEMMA LoggedOfPrefix ==
    ASSUME NEW ref, NEW w \in Seq(Slots), NEW x \in Seq(Slots), NEW n \in Nat,
           n <= Len(w), n <= Len(x), \A i \in 1..n : SameSamples(w[i], x[i])
    PROVE  LoggedOf(ref, w, n) = LoggedOf(ref, x, n)
  <1> DEFINE T == {i \in 0..n : LoggedOf(ref, w, i) = LoggedOf(ref, x, i)}
  <1>1. Len(w) \in Nat /\ Len(x) \in Nat
    BY LenProperties
  <1>2. \A i \in 1..n : i \in 1..Len(w) /\ i \in 1..Len(x) /\ i \in 0..n
    BY <1>1
  <1>3. 0 \in T
    BY LoggedOfSteps
  <1>4. ASSUME NEW i \in 1..n, i - 1 \in T
        PROVE  i \in T
    <2>1. LoggedOf(ref, w, i) = TakenAll(LoggedOf(ref, w, i - 1), w[i], ref)
      BY <1>2, LoggedOfSteps, Zenon
    <2>2. LoggedOf(ref, x, i) = TakenAll(LoggedOf(ref, x, i - 1), x[i], ref)
      BY <1>2, LoggedOfSteps, Zenon
    <2>3. LoggedOf(ref, w, i - 1) = LoggedOf(ref, x, i - 1)
      BY <1>4, Zenon
    <2>4. \A q : TakenAll(q, w[i], ref) = TakenAll(q, x[i], ref)
      <3>1. SameSamples(w[i], x[i])
        OBVIOUS
      <3> QED
        BY <3>1, Zenon DEF SameSamples, TakenAll
    <2> QED
      BY <1>2, <2>1, <2>2, <2>3, <2>4, Zenon
  <1> HIDE DEF T
  <1>5. 0..n \subseteq T
    BY <1>3, <1>4, UpTo
  <1>6. n \in T
    BY <1>5
  <1> QED
    BY <1>6, Zenon DEF T

(* fsync changes no sample. *)
LEMMA LoggedSame ==
    ASSUME NEW ref, NEW w \in Seq(Slots), NEW x, SameSlots(w, x)
    PROVE  LoggedOf(ref, x, Len(x)) = LoggedOf(ref, w, Len(w))
  <1>1. PICK n \in Nat : n = Len(w)
    BY LenProperties
  <1>2. x \in Seq(Slots) /\ Len(x) = n /\ n <= n
    BY <1>1 DEF SameSlots
  <1>3. \A i \in 1..n : SameSamples(w[i], x[i])
    BY <1>1, Zenon DEF SameSlots, SameSamples
  <1> QED
    BY <1>1, <1>2, <1>3, LoggedOfPrefix

(* One more slot. *)
LEMMA LoggedOneMore ==
    ASSUME NEW ref, NEW w \in Seq(Slots), NEW x, NEW s, OneMore(w, x, s)
    PROVE  LoggedOf(ref, x, Len(x)) = TakenAll(LoggedOf(ref, w, Len(w)), s, ref)
  <1>1. PICK n \in Nat : n = Len(w)
    BY LenProperties
  <1>2. x \in Seq(Slots) /\ Len(x) = n + 1 /\ x[n + 1] = s /\ \A i \in 1..n : x[i] = w[i]
    BY <1>1 DEF OneMore
  <1>3. n + 1 \in 1..Len(x) /\ (n + 1) - 1 = n /\ n <= Len(x) /\ n <= Len(w)
    BY <1>1, <1>2
  <1>4. \A i \in 1..n : SameSamples(w[i], x[i])
    BY <1>2, Zenon DEF SameSamples
  <1>5. LoggedOf(ref, x, n + 1) = TakenAll(LoggedOf(ref, x, (n + 1) - 1), x[n + 1], ref)
    BY <1>2, <1>3, LoggedOfSteps, Zenon
  <1>6. LoggedOf(ref, w, n) = LoggedOf(ref, x, n)
    BY <1>2, <1>3, <1>4, LoggedOfPrefix
  <1> QED
    BY <1>1, <1>2, <1>3, <1>5, <1>6, Zenon

(* Slots without samples at the end. *)
LEMMA LoggedToEnd ==
    ASSUME NEW ref, NEW w \in Seq(Slots), NEW m \in 0..Len(w),
           \A i \in 1..Len(w) : i > m => w[i].type # "SamplesV2"
    PROVE  LoggedOf(ref, w, Len(w)) = LoggedOf(ref, w, m)
  <1>1. PICK n \in Nat : n = Len(w)
    BY LenProperties
  <1> DEFINE T == {i \in 0..n : i >= m => LoggedOf(ref, w, i) = LoggedOf(ref, w, m)}
  <1>2. 0 \in T
    BY <1>1
  <1>3. ASSUME NEW i \in 1..n, i - 1 \in T
        PROVE  i \in T
    <2>1. CASE i <= m
      BY <1>1, <2>1
    <2>2. CASE i > m
      <3>1. i - 1 >= m /\ i \in 1..Len(w)
        BY <1>1, <2>2
      <3>2. LoggedOf(ref, w, i - 1) = LoggedOf(ref, w, m)
        BY <1>3, <3>1, Zenon
      <3>3. LoggedOf(ref, w, i) = TakenAll(LoggedOf(ref, w, i - 1), w[i], ref)
        BY <3>1, LoggedOfSteps, Zenon
      <3>4. w[i].type # "SamplesV2"
        BY <2>2, <3>1, Zenon
      <3>5. LoggedOf(ref, w, i) = LoggedOf(ref, w, m)
        BY <3>2, <3>3, <3>4, Zenon DEF TakenAll
      <3> QED
        BY <3>5
    <2> QED
      BY <1>1, <2>1, <2>2
  <1> HIDE DEF T
  <1>4. 0..n \subseteq T
    BY <1>2, <1>3, UpTo
  <1>5. n \in T /\ n >= m
    BY <1>1, <1>4
  <1> QED
    BY <1>1, <1>5, Zenon DEF T


-----------------------------------------------------------------------------
(* What the head has of a series.                                          *)

\* The samples of series ref in the store refs.
HeldOf(refs, ref) == IF ref \in 1..Len(refs) THEN refs[ref].samples ELSE <<>>

\* The store refs takes the RefSample x, and nothing else changes.
Takes(refs, refs2, x) == \A r \in Nat : HeldOf(refs2, r) = Taken(HeldOf(refs, r), x, r)

\* The samples in the stores refs and refs2 are the same.
HoldsSame(refs, refs2) == \A r \in Nat : HeldOf(refs2, r) = HeldOf(refs, r)

\* An empty slot of the store refs has no samples.
EmptySlots(refs) == \A r \in 1..Len(refs) : refs[r].labels = NoLabels => refs[r].samples = <<>>

(* MemSeries::append adds the sample to its series. *)
LEMMA AppendedTakes ==
    ASSUME NEW refs \in Seq(MemSeries), NEW ref \in 1..Len(refs), NEW t \in Times, NEW v \in Values,
           refs[ref].labels # NoLabels, EmptySlots(refs)
    PROVE  /\ Takes(refs, Appended(refs, ref, t, v), [ref |-> ref, t |-> t, v |-> v])
           /\ EmptySlots(Appended(refs, ref, t, v))
  <1> DEFINE x  == [t |-> t, v |-> v]
             ms == [labels |-> refs[ref].labels, samples |-> Append(refs[ref].samples, x)]
  <1>1. Len(refs) \in Nat /\ DOMAIN refs = 1..Len(refs)
    BY LenProperties
  <1>2. refs[ref] \in MemSeries
    BY ElementOfSeq
  <1>3. x \in Samples /\ refs[ref].samples \in Seq(Samples)
    BY <1>2 DEF Samples, MemSeries
  <1>4. Append(refs[ref].samples, x) \in Seq(Samples)
    BY <1>3, AppendProperties
  <1>5. ms \in MemSeries
    BY <1>2, <1>4 DEF MemSeries
  <1>6. Appended(refs, ref, t, v) = [refs EXCEPT ![ref] = ms]
    BY DEF Appended
  <1>7. ms.labels = refs[ref].labels /\ ms.samples = Append(refs[ref].samples, x)
    OBVIOUS
  <1> HIDE DEF ms
  <1>8. PICK n : n = Appended(refs, ref, t, v)
    OBVIOUS
  <1>9. Len(n) = Len(refs) /\ \A i \in 1..Len(refs) : n[i] = IF i = ref THEN ms ELSE refs[i]
    BY <1>5, <1>6, <1>8, ExceptSeq
  <1>10. ASSUME NEW r \in Nat
         PROVE  HeldOf(n, r) = Taken(HeldOf(refs, r), [ref |-> ref, t |-> t, v |-> v], r)
    BY <1>7, <1>9 DEF HeldOf, Taken
  <1>11. EmptySlots(n)
    BY <1>7, <1>9 DEF EmptySlots
  <1> QED
    BY <1>8, <1>10, <1>11, Zenon DEF Takes

(* A fresh series has no samples. *)
LEMMA FreshHoldsSame ==
    ASSUME TypeOK, NEW ref \in Nat \ {0}, NEW l \in Labels, ~RefTaken(ref), EmptySlots(by_ref)
    PROVE  HoldsSame(by_ref, WithSeries(ref, l)) /\ EmptySlots(WithSeries(ref, l))
  <1>1. PICK ws : ws = WithSeries(ref, l)
    OBVIOUS
  <1>2. /\ Len(ws) = IF ref > Len(by_ref) THEN ref ELSE Len(by_ref)
        /\ ws[ref] = [labels |-> l, samples |-> <<>>]
        /\ \A i \in 1..Len(ws) : i # ref => ws[i] = IF i <= Len(by_ref) THEN by_ref[i] ELSE NoSeries
    BY <1>1, WithSeriesShape
  <1>3. Len(by_ref) \in Nat
    BY LenProperties DEF TypeOK
  <1>4. ws[ref].samples = <<>> /\ ws[ref].labels = l /\ NoSeries.samples = <<>>
    BY <1>2 DEF NoSeries
  <1>5. HeldOf(by_ref, ref) = <<>>
    BY DEF HeldOf, RefTaken, EmptySlots
  <1>6. ASSUME NEW r \in Nat
        PROVE  HeldOf(ws, r) = HeldOf(by_ref, r)
    <2>1. CASE r = ref
      BY <1>4, <1>5, <2>1 DEF HeldOf
    <2>2. CASE r # ref /\ r \in 1..Len(by_ref)
      <3>1. r \in 1..Len(ws) /\ r <= Len(by_ref)
        BY <1>2, <1>3, <2>2
      <3>2. ws[r] = by_ref[r]
        BY <1>2, <2>2, <3>1, Zenon
      <3> QED
        BY <2>2, <3>1, <3>2, Zenon DEF HeldOf
    <2>3. CASE r # ref /\ r \notin 1..Len(by_ref)
      <3>1. HeldOf(by_ref, r) = <<>>
        BY <2>3 DEF HeldOf
      <3>2. r \in 1..Len(ws) => ws[r] = NoSeries
        BY <1>2, <1>3, <2>3
      <3> QED
        BY <1>4, <3>1, <3>2, Zenon DEF HeldOf
    <2> QED
      BY <2>1, <2>2, <2>3
  <1>7. EmptySlots(ws)
    <2> SUFFICES ASSUME NEW r \in 1..Len(ws), ws[r].labels = NoLabels
                 PROVE  ws[r].samples = <<>>
      BY DEF EmptySlots
    <2>1. CASE r = ref
      BY <1>4, <2>1
    <2>2. CASE r # ref /\ r <= Len(by_ref)
      <3>1. r \in 1..Len(by_ref) /\ ws[r] = by_ref[r]
        BY <1>2, <1>3, <2>2
      <3> QED
        BY <3>1 DEF EmptySlots
    <2>3. CASE r # ref /\ ~(r <= Len(by_ref))
      BY <1>2, <1>4, <2>3, Zenon
    <2> QED
      BY <2>1, <2>2, <2>3
  <1> QED
    BY <1>1, <1>6, <1>7, Zenon DEF HoldsSame


-----------------------------------------------------------------------------
(* Store, log and buffer.                                                  *)

\* Replaying the log w and the buffer p gives the samples in the store refs.
Rebuilds(refs, w, p) ==
    \A r \in Nat : HeldOf(refs, r) = LoggedOf(r, w, Len(w)) \o SamplesOf(r, p, Len(p))

\* The samples of series ref that a replay at item d of slot c has read of that slot.
ReadOf(ref, w, c, d) ==
    IF c <= Len(w) /\ w[c].type = "SamplesV2" THEN SamplesOf(ref, w[c].items, d - 1) ELSE <<>>

\* A replay of the log w that is at item d of slot c has put into the store
\* refs what it has read, and nothing else.
HasRead(refs, w, c, d) ==
    /\ c \in 1..Len(w) + 1 /\ d \in Nat \ {0}
    /\ c <= Len(w) => d <= Len(w[c].items) + 1
    /\ \A r \in Nat : HeldOf(refs, r) = LoggedOf(r, w, c - 1) \o ReadOf(r, w, c, d)

\* Taking x after a and q is taking it after q, with a before it.
TakenLast(a, q, x, ref) == Taken(a \o q, x, ref) = a \o Taken(q, x, ref)

(* Taking a sample does not depend on what is before. *)
LEMMA TakenConcat ==
    ASSUME NEW a \in Seq(Samples), NEW q \in Seq(Samples), NEW x \in RefSample, NEW ref
    PROVE  TakenLast(a, q, x, ref)
  <1>1. PICK y \in Samples : y = [t |-> x.t, v |-> x.v]
    BY DEF RefSample, Samples
  <1>2. Append(a \o q, y) = a \o Append(q, y)
    <2>1. PICK S : S = Samples
      OBVIOUS
    <2>2. PICK b \in Seq(S) : b = a \o q
      BY <2>1, ConcatProperties
    <2>3. PICK c \in Seq(S) : c = Append(q, y)
      BY <2>1, AppendProperties
    <2>4. PICK d \in Seq(S) : d = Append(b, y)
      BY <2>1, AppendProperties
    <2>5. PICK e \in Seq(S) : e = a \o c
      BY <2>1, ConcatProperties
    <2>6. PICK m \in Nat : m = Len(a)
      BY LenProperties
    <2>7. PICK n \in Nat : n = Len(q)
      BY LenProperties
    <2>8. Len(b) = m + n /\ \A i \in 1..m + n : b[i] = IF i <= m THEN a[i] ELSE q[i - m]
      BY <2>2, <2>6, <2>7, ConcatProperties
    <2>9. Len(c) = n + 1 /\ c[n + 1] = y /\ \A i \in 1..n : c[i] = q[i]
      BY <2>3, <2>7, AppendProperties
    <2>10. Len(d) = m + n + 1 /\ d[m + n + 1] = y /\ \A i \in 1..m + n : d[i] = b[i]
      BY <2>1, <2>4, <2>8, AppendProperties
    <2>11. Len(e) = m + n + 1 /\ \A i \in 1..m + n + 1 : e[i] = IF i <= m THEN a[i] ELSE c[i - m]
      <3>1. a \in Seq(S)
        BY <2>1
      <3>2. /\ Len(a \o c) = Len(a) + Len(c)
            /\ \A i \in 1..Len(a) + Len(c) :
                 (a \o c)[i] = IF i <= Len(a) THEN a[i] ELSE c[i - Len(a)]
        BY <3>1, ConcatProperties
      <3>3. Len(a) + Len(c) = m + n + 1
        BY <2>6, <2>9
      <3> QED
        BY <2>5, <2>6, <3>2, <3>3, Zenon
    <2>12. ASSUME NEW i \in 1..m + n + 1
           PROVE  d[i] = e[i]
      <3>1. CASE i <= m
        <4>1. i \in 1..m + n
          BY <3>1
        <4>2. d[i] = b[i] /\ b[i] = a[i]
          BY <2>8, <2>10, <3>1, <4>1, Zenon
        <4>3. e[i] = a[i]
          BY <2>11, <3>1, Zenon
        <4> QED
          BY <4>2, <4>3
      <3>2. CASE i > m /\ i <= m + n
        <4>1. i \in 1..m + n /\ ~(i <= m) /\ i - m \in 1..n
          BY <3>2
        <4> QED
          BY <2>8, <2>9, <2>10, <2>11, <4>1, Zenon
      <3>3. CASE i = m + n + 1
        <4>1. ~(i <= m) /\ i - m = n + 1
          BY <3>3
        <4> QED
          BY <2>9, <2>10, <2>11, <3>3, <4>1, Zenon
      <3> QED
        BY <3>1, <3>2, <3>3
    <2>13. d = e
      BY <2>10, <2>11, <2>12, SeqEqual
    <2> QED
      BY <2>2, <2>3, <2>4, <2>5, <2>13, Zenon
  <1> QED
    BY <1>1, <1>2, Zenon DEF Taken, TakenLast

LEMMA ConcatNothing ==
    ASSUME NEW a \in Seq(Samples)
    PROVE  a \o <<>> = a
  BY ConcatEmptySeq

(* The types of the two parts. *)
LEMMA PartTypes ==
    ASSUME NEW w \in Seq(Slots), NEW p \in Seq(RefSample), NEW ref
    PROVE  LoggedOf(ref, w, Len(w)) \in Seq(Samples) /\ SamplesOf(ref, p, Len(p)) \in Seq(Samples)
  <1>1. Len(w) \in 0..Len(w) /\ Len(p) \in 0..Len(p)
    BY LenProperties
  <1>2. LoggedOf(ref, w, Len(w)) \in Seq(Samples)
    BY <1>1, LoggedOfSteps
  <1>3. SamplesOf(ref, p, Len(p)) \in Seq(Samples)
    BY <1>1, SamplesOfSteps
  <1> QED
    BY <1>2, <1>3

(* An empty buffer has no samples. *)
LEMMA NothingOf ==
    ASSUME NEW ref
    PROVE  SamplesOf(ref, <<>>, Len(<<>>)) = <<>>
  <1>1. <<>> \in Seq(RefSample) /\ Len(<<>>) = 0
    OBVIOUS
  <1>2. SamplesOf(ref, <<>>, 0) = <<>>
    BY <1>1, SamplesOfSteps
  <1> QED
    BY <1>1, <1>2, Zenon

(* A sample that goes to the store and to the buffer. *)
LEMMA TakeKeepsRebuilds ==
    ASSUME NEW w \in Seq(Slots), NEW p \in Seq(RefSample), NEW x \in RefSample, NEW refs, NEW refs2,
           Rebuilds(refs, w, p), Takes(refs, refs2, x)
    PROVE  Rebuilds(refs2, w, Append(p, x))
  <1> SUFFICES ASSUME NEW r \in Nat
               PROVE  HeldOf(refs2, r)
                        = LoggedOf(r, w, Len(w)) \o SamplesOf(r, Append(p, x), Len(Append(p, x)))
    BY Zenon DEF Rebuilds
  <1>1. PICK a \in Seq(Samples) : a = LoggedOf(r, w, Len(w))
    BY PartTypes, Zenon
  <1>2. PICK q \in Seq(Samples) : q = SamplesOf(r, p, Len(p))
    BY PartTypes, Zenon
  <1>3. HeldOf(refs2, r) = Taken(HeldOf(refs, r), x, r)
    BY Zenon DEF Takes
  <1>4. HeldOf(refs, r) = a \o q
    BY <1>1, <1>2, Zenon DEF Rebuilds
  <1>5. SamplesOf(r, Append(p, x), Len(Append(p, x))) = Taken(q, x, r)
    BY <1>2, SamplesOfAppend
  <1>6. TakenLast(a, q, x, r)
    BY TakenConcat, Zenon
  <1> QED
    BY <1>1, <1>3, <1>4, <1>5, <1>6, Zenon DEF TakenLast

(* The buffer goes to the log. *)
LEMMA LogKeepsRebuilds ==
    ASSUME NEW w \in Seq(Slots), NEW p \in Seq(RefSample), NEW x, NEW s, OneMore(w, x, s),
           NEW refs, Rebuilds(refs, w, p), s.type = "SamplesV2", s.items = p
    PROVE  Rebuilds(refs, x, <<>>)
  <1> SUFFICES ASSUME NEW r \in Nat
               PROVE  HeldOf(refs, r) = LoggedOf(r, x, Len(x)) \o SamplesOf(r, <<>>, Len(<<>>))
    BY Zenon DEF Rebuilds
  <1>1. LoggedOf(r, x, Len(x)) = TakenAll(LoggedOf(r, w, Len(w)), s, r)
    BY LoggedOneMore
  <1>2. HeldOf(refs, r) = LoggedOf(r, x, Len(x))
    BY <1>1, Zenon DEF TakenAll, Rebuilds
  <1>3. x \in Seq(Slots)
    BY DEF OneMore
  <1>4. LoggedOf(r, x, Len(x)) \in Seq(Samples)
    BY <1>3, PartTypes
  <1>5. LoggedOf(r, x, Len(x)) \o <<>> = LoggedOf(r, x, Len(x))
    BY <1>4, ConcatNothing
  <1> QED
    BY <1>2, <1>5, NothingOf, Zenon

(* Slots without samples, and fsync, change nothing. *)
LEMMA OtherKeepsRebuilds ==
    ASSUME NEW w \in Seq(Slots), NEW p, NEW refs, Rebuilds(refs, w, p), NEW x,
           SameSlots(w, x) \/ \E s : OneMore(w, x, s) /\ s.type # "SamplesV2"
    PROVE  Rebuilds(refs, x, p)
  <1> SUFFICES ASSUME NEW r \in Nat
               PROVE  LoggedOf(r, x, Len(x)) = LoggedOf(r, w, Len(w))
    BY Zenon DEF Rebuilds
  <1>1. CASE SameSlots(w, x)
    BY <1>1, LoggedSame
  <1>2. CASE \E s : OneMore(w, x, s) /\ s.type # "SamplesV2"
    <2>1. PICK s : OneMore(w, x, s) /\ s.type # "SamplesV2"
      BY <1>2
    <2>2. LoggedOf(r, x, Len(x)) = TakenAll(LoggedOf(r, w, Len(w)), s, r)
      BY <2>1, LoggedOneMore
    <2> QED
      BY <2>1, <2>2, Zenon DEF TakenAll
  <1> QED
    BY <1>1, <1>2


(* A replay starts with nothing. *)
LEMMA ReadNothing ==
    ASSUME NEW w \in Seq(Slots)
    PROVE  HasRead(<<>>, w, 1, 1)
  <1>1. Len(w) \in Nat /\ Len(<<>>) = 0 /\ <<>> \o <<>> = <<>>
    BY LenProperties
  <1>2. 1 <= Len(w) => Len(w[1].items) \in Nat
    <2> SUFFICES ASSUME 1 <= Len(w)
                 PROVE  Len(w[1].items) \in Nat
      OBVIOUS
    <2>1. w[1] \in Slots
      BY <1>1, ElementOfSeq
    <2>2. w[1].items \in Seq(RefSeries) \/ w[1].items \in Seq(RefSample) \/ w[1].items = <<>>
      BY <2>1 DEF Slots
    <2> QED
      BY <2>2, LenProperties
  <1>3. ASSUME NEW r \in Nat
        PROVE  HeldOf(<<>>, r) = LoggedOf(r, w, 0) \o ReadOf(r, w, 1, 1)
    <2>1. LoggedOf(r, w, 0) = <<>>
      BY LoggedOfSteps
    <2>2. ReadOf(r, w, 1, 1) = <<>>
      <3>1. CASE 1 <= Len(w) /\ w[1].type = "SamplesV2"
        <4>1. w[1] \in Slots
          BY <1>1, <3>1, ElementOfSeq
        <4>2. PICK p \in Seq(RefSample) : p = w[1].items
          BY <3>1, <4>1 DEF Slots
        <4>3. SamplesOf(r, p, 0) = <<>>
          BY SamplesOfSteps
        <4>4. 1 - 1 = 0
          OBVIOUS
        <4> QED
          BY <3>1, <4>2, <4>3, <4>4, Zenon DEF ReadOf
      <3>2. CASE ~(1 <= Len(w) /\ w[1].type = "SamplesV2")
        BY <3>2, Zenon DEF ReadOf
      <3> QED
        BY <3>1, <3>2
    <2>3. HeldOf(<<>>, r) = <<>>
      BY <1>1 DEF HeldOf
    <2> QED
      BY <1>1, <2>1, <2>2, <2>3, Zenon
  <1>4. 1 \in 1..Len(w) + 1 /\ 1 \in Nat \ {0} /\ 1 - 1 = 0
    BY <1>1
  <1>5. 1 <= Len(w) => 1 <= Len(w[1].items) + 1
    BY <1>2
  <1> QED
    BY <1>3, <1>4, <1>5, Zenon DEF HasRead

(* The slot and the items that a replay is at. *)
LEMMA ReadTypes ==
    ASSUME NEW w \in Seq(Slots), NEW refs, NEW c, NEW d, HasRead(refs, w, c, d), c <= Len(w)
    PROVE  /\ c \in 1..Len(w) /\ c - 1 \in 0..Len(w) /\ w[c] \in Slots
           /\ Len(w[c].items) \in Nat /\ d \in Nat \ {0} /\ d - 1 \in 0..Len(w[c].items)
           /\ w[c].type = "SamplesV2" => w[c].items \in Seq(RefSample)
  <1>1. Len(w) \in Nat /\ c \in 1..Len(w) + 1 /\ d \in Nat \ {0} /\ d <= Len(w[c].items) + 1
    BY LenProperties DEF HasRead
  <1>2. c \in 1..Len(w) /\ c - 1 \in 0..Len(w)
    BY <1>1
  <1>3. w[c] \in Slots
    BY <1>2, ElementOfSeq
  <1>4. w[c].items \in Seq(RefSeries) \/ w[c].items \in Seq(RefSample) \/ w[c].items = <<>>
    BY <1>3 DEF Slots
  <1>5. Len(w[c].items) \in Nat
    BY <1>4, LenProperties
  <1>6. w[c].type = "SamplesV2" => w[c].items \in Seq(RefSample)
    BY <1>3 DEF Slots
  <1> QED
    BY <1>1, <1>2, <1>3, <1>5, <1>6

(* A Series item adds no sample. *)
LEMMA ReadSeriesItem ==
    ASSUME NEW w \in Seq(Slots), NEW refs, NEW refs2, NEW c, NEW d, HasRead(refs, w, c, d),
           c <= Len(w), d <= Len(w[c].items), w[c].type # "SamplesV2", HoldsSame(refs, refs2)
    PROVE  HasRead(refs2, w, c, d + 1)
  <1>1. /\ c \in 1..Len(w) + 1 /\ d + 1 \in Nat \ {0} /\ d + 1 <= Len(w[c].items) + 1
    BY ReadTypes DEF HasRead
  <1>2. ASSUME NEW r \in Nat
        PROVE  HeldOf(refs2, r) = LoggedOf(r, w, c - 1) \o ReadOf(r, w, c, d + 1)
    <2>1. HeldOf(refs, r) = LoggedOf(r, w, c - 1) \o ReadOf(r, w, c, d)
      BY Zenon DEF HasRead
    <2>2. ReadOf(r, w, c, d) = ReadOf(r, w, c, d + 1)
      BY Zenon DEF ReadOf
    <2>3. HeldOf(refs2, r) = HeldOf(refs, r)
      BY Zenon DEF HoldsSame
    <2> QED
      BY <2>1, <2>2, <2>3, Zenon
  <1> QED
    BY <1>1, <1>2, Zenon DEF HasRead

(* A sample goes to its series. *)
LEMMA ReadSampleItem ==
    ASSUME NEW w \in Seq(Slots), NEW refs, NEW refs2, NEW c, NEW d, HasRead(refs, w, c, d),
           c <= Len(w), d <= Len(w[c].items), w[c].type = "SamplesV2",
           Takes(refs, refs2, w[c].items[d])
    PROVE  HasRead(refs2, w, c, d + 1)
  <1>1. /\ c \in 1..Len(w) + 1 /\ d + 1 \in Nat \ {0} /\ d + 1 <= Len(w[c].items) + 1
        /\ d \in 1..Len(w[c].items) /\ (d + 1) - 1 = d /\ c - 1 \in 0..Len(w)
        /\ d - 1 \in 0..Len(w[c].items)
    <2>1. /\ c \in 1..Len(w) /\ c - 1 \in 0..Len(w) /\ Len(w) \in Nat
          /\ Len(w[c].items) \in Nat /\ d \in Nat \ {0} /\ d - 1 \in 0..Len(w[c].items)
      BY ReadTypes, LenProperties, Zenon
    <2> QED
      BY <2>1
  <1>2. PICK p \in Seq(RefSample) : p = w[c].items
    BY ReadTypes, Zenon
  <1>3. PICK x \in RefSample : x = p[d]
    BY <1>1, <1>2, ElementOfSeq
  <1>4. ASSUME NEW r \in Nat
        PROVE  HeldOf(refs2, r) = LoggedOf(r, w, c - 1) \o ReadOf(r, w, c, d + 1)
    <2>1. PICK a \in Seq(Samples) : a = LoggedOf(r, w, c - 1)
      BY <1>1, LoggedOfSteps, Zenon
    <2>2. PICK q \in Seq(Samples) : q = SamplesOf(r, p, d - 1)
      BY <1>1, <1>2, SamplesOfSteps, Zenon
    <2>3. HeldOf(refs, r) = a \o q
      BY <1>2, <2>1, <2>2, Zenon DEF HasRead, ReadOf
    <2>4. SamplesOf(r, p, d) = Taken(q, x, r)
      BY <1>1, <1>2, <1>3, <2>2, SamplesOfSteps, Zenon
    <2>5. ReadOf(r, w, c, d + 1) = Taken(q, x, r)
      BY <1>1, <1>2, <2>4, Zenon DEF ReadOf
    <2>6. HeldOf(refs2, r) = Taken(a \o q, x, r)
      BY <1>2, <1>3, <2>3, Zenon DEF Takes
    <2>7. TakenLast(a, q, x, r)
      BY TakenConcat, Zenon
    <2> QED
      BY <2>1, <2>5, <2>6, <2>7, Zenon DEF TakenLast
  <1> QED
    BY <1>1, <1>4, Zenon DEF HasRead


(* At the end of its record a replay has taken all of it. *)
LEMMA ReadNextSlot ==
    ASSUME NEW w \in Seq(Slots), NEW refs, NEW c, NEW d, HasRead(refs, w, c, d),
           c <= Len(w), d > Len(w[c].items)
    PROVE  HasRead(refs, w, c + 1, 1)
  <1>1. /\ c \in 1..Len(w) /\ c - 1 \in 0..Len(w) /\ Len(w) \in Nat
        /\ Len(w[c].items) \in Nat /\ d \in Nat \ {0} /\ d - 1 \in 0..Len(w[c].items)
    BY ReadTypes, LenProperties, Zenon
  <1>2. /\ d - 1 = Len(w[c].items) /\ c + 1 \in 1..Len(w) + 1 /\ (c + 1) - 1 = c
        /\ 1 \in Nat \ {0} /\ 1 - 1 = 0 /\ c \in 0..Len(w)
    BY <1>1
  <1>3. c + 1 <= Len(w) =>
          /\ w[c + 1] \in Slots /\ Len(w[c + 1].items) \in Nat
          /\ w[c + 1].type = "SamplesV2" => w[c + 1].items \in Seq(RefSample)
    <2> SUFFICES ASSUME c + 1 <= Len(w)
                 PROVE  /\ w[c + 1] \in Slots /\ Len(w[c + 1].items) \in Nat
                        /\ w[c + 1].type = "SamplesV2" => w[c + 1].items \in Seq(RefSample)
      OBVIOUS
    <2>1. c + 1 \in 1..Len(w)
      BY <1>1
    <2>2. w[c + 1] \in Slots
      BY <2>1, ElementOfSeq
    <2>3. PICK s \in Slots : s = w[c + 1]
      BY <2>2, Zenon
    <2>4. /\ s.items \in Seq(RefSeries) \/ s.items \in Seq(RefSample) \/ s.items = <<>>
          /\ s.type = "SamplesV2" => s.items \in Seq(RefSample)
      BY DEF Slots
    <2>5. Len(s.items) \in Nat
      BY <2>4, LenProperties
    <2> QED
      BY <2>2, <2>3, <2>4, <2>5, Zenon
  <1>4. c + 1 <= Len(w) => 1 <= Len(w[c + 1].items) + 1
    BY <1>3
  <1>5. ASSUME NEW r \in Nat
        PROVE  HeldOf(refs, r) = LoggedOf(r, w, (c + 1) - 1) \o ReadOf(r, w, c + 1, 1)
    <2>1. LoggedOf(r, w, c) = TakenAll(LoggedOf(r, w, c - 1), w[c], r)
      BY <1>1, LoggedOfSteps, Zenon
    <2>2. LoggedOf(r, w, c - 1) \in Seq(Samples) /\ LoggedOf(r, w, c) \in Seq(Samples)
      BY <1>1, <1>2, LoggedOfSteps, Zenon
    <2>3. HeldOf(refs, r) = LoggedOf(r, w, c - 1) \o ReadOf(r, w, c, d)
      BY Zenon DEF HasRead
    <2>4. HeldOf(refs, r) = LoggedOf(r, w, c)
      <3>1. CASE w[c].type = "SamplesV2"
        BY <1>2, <2>1, <2>3, <3>1, Zenon DEF ReadOf, TakenAll
      <3>2. CASE w[c].type # "SamplesV2"
        <4>1. ReadOf(r, w, c, d) = <<>>
          BY <3>2, Zenon DEF ReadOf
        <4>2. LoggedOf(r, w, c - 1) \o <<>> = LoggedOf(r, w, c - 1)
          BY <2>2, ConcatNothing
        <4>3. LoggedOf(r, w, c) = LoggedOf(r, w, c - 1)
          BY <2>1, <3>2, Zenon DEF TakenAll
        <4> QED
          BY <2>3, <4>1, <4>2, <4>3, Zenon
      <3> QED
        BY <3>1, <3>2
    <2>5. ReadOf(r, w, c + 1, 1) = <<>>
      <3>1. CASE c + 1 <= Len(w) /\ w[c + 1].type = "SamplesV2"
        <4>1. PICK p \in Seq(RefSample) : p = w[c + 1].items
          BY <1>3, <3>1, Zenon
        <4>2. SamplesOf(r, p, 0) = <<>>
          BY SamplesOfSteps
        <4> QED
          BY <1>2, <3>1, <4>1, <4>2, Zenon DEF ReadOf
      <3>2. CASE ~(c + 1 <= Len(w) /\ w[c + 1].type = "SamplesV2")
        BY <3>2, Zenon DEF ReadOf
      <3> QED
        BY <3>1, <3>2
    <2>6. LoggedOf(r, w, c) \o <<>> = LoggedOf(r, w, c)
      BY <2>2, ConcatNothing
    <2> QED
      BY <1>2, <2>4, <2>5, <2>6, Zenon
  <1> QED
    BY <1>2, <1>4, <1>5, Zenon DEF HasRead

(* A replay that stops where nothing but slots without samples is left has
   read the log. *)
LEMMA ReadAll ==
    ASSUME NEW w \in Seq(Slots), NEW refs, NEW c, NEW d, HasRead(refs, w, c, d),
           \A i \in 1..Len(w) : i >= c => w[i].type # "SamplesV2"
    PROVE  Rebuilds(refs, w, <<>>)
  <1>1. Len(w) \in Nat /\ c \in 1..Len(w) + 1
    BY LenProperties DEF HasRead
  <1>2. PICK m \in 0..Len(w) : m = c - 1
    BY <1>1
  <1>3. \A i \in 1..Len(w) : i > m => i >= c
    BY <1>1, <1>2
  <1>4. \A i \in 1..Len(w) : i > m => w[i].type # "SamplesV2"
    BY <1>3
  <1>5. ~(c <= Len(w) /\ w[c].type = "SamplesV2")
    <2>1. c <= Len(w) => c \in 1..Len(w) /\ c >= c
      BY <1>1
    <2> QED
      BY <2>1
  <1> SUFFICES ASSUME NEW r \in Nat
               PROVE  HeldOf(refs, r) = LoggedOf(r, w, Len(w)) \o SamplesOf(r, <<>>, Len(<<>>))
    BY Zenon DEF Rebuilds
  <1>6. LoggedOf(r, w, Len(w)) = LoggedOf(r, w, m)
    BY <1>4, LoggedToEnd
  <1>7. HeldOf(refs, r) = LoggedOf(r, w, m) \o <<>>
    BY <1>2, <1>5, Zenon DEF HasRead, ReadOf
  <1> QED
    BY <1>6, <1>7, NothingOf, Zenon


-----------------------------------------------------------------------------
(* Every step keeps store, log and buffer together.                        *)

\* As long as no I/O call has failed: the inductive invariant behind
\* ReplayExact.
SamplesInStep ==
    faults = 0 =>
        /\ WriterInStep
        /\ EmptySlots(by_ref)
        /\ phase \in Running /\ NoneRefused => Rebuilds(by_ref, wal, pending_samples)
        /\ phase = "replay" => HasRead(by_ref, wal, cursor.slot, cursor.item)

(* append() puts the sample into its series and into the buffer. *)
LEMMA AppendKeepsSamples ==
    ASSUME TypeOK, StoreOK, SamplesInStep, NEW l \in Labels, NEW t \in Times, NEW v \in Values,
           append(l, t, v)
    PROVE  SamplesInStep'
  <1> DEFINE fresh == by_labels[l] = 0
             ref   == IF fresh THEN next_ref ELSE by_labels[l]
             refs  == IF fresh THEN WithSeries(ref, l) ELSE by_ref
             x     == [ref |-> ref, t |-> t, v |-> v]
  <1>1. /\ phase = "open" /\ UNCHANGED <<phase, wal, cursor, faults, rollFailed, fd, skewed, unflushed>>
        /\ by_ref' = Appended(refs, ref, t, v)
        /\ pending_samples' = Append(pending_samples, x)
    BY DEF append, writer, disk
  <1>2. phase \in Running /\ phase' \in Running /\ phase' # "replay"
    BY <1>1 DEF Running
  <1>12. NoneRefused' <=> NoneRefused
    BY <1>1 DEF NoneRefused
  <1> SUFFICES ASSUME faults = 0
               PROVE  /\ EmptySlots(by_ref')
                      /\ NoneRefused => Rebuilds(by_ref', wal, pending_samples')
                      /\ WriterInStep'
    BY <1>1, <1>2, <1>12 DEF SamplesInStep
  <1>3. /\ WriterInStep /\ EmptySlots(by_ref)
        /\ NoneRefused => Rebuilds(by_ref, wal, pending_samples)
    BY <1>2 DEF SamplesInStep
  <1>4. WriterInStep'
    BY <1>1, <1>2, <1>3 DEF WriterInStep
  <1>5. /\ ref \in Nat \ {0} /\ by_ref \in Seq(MemSeries) /\ Len(by_ref) \in Nat
        /\ x \in RefSample /\ pending_samples \in Seq(RefSample) /\ wal \in Seq(Slots)
    BY LenProperties DEF TypeOK, RefSample
  <1>6. /\ refs \in Seq(MemSeries) /\ ref \in 1..Len(refs) /\ refs[ref].labels = l
        /\ HoldsSame(by_ref, refs) /\ EmptySlots(refs)
    <2>1. CASE fresh
      <3>1. ref = next_ref /\ refs = WithSeries(ref, l) /\ Len(by_ref) < ref
        BY <2>1 DEF StoreOK
      <3>2. ~RefTaken(ref)
        BY <1>5, <3>1 DEF RefTaken
      <3>3. HoldsSame(by_ref, WithSeries(ref, l)) /\ EmptySlots(WithSeries(ref, l))
        BY <1>3, <1>5, <3>2, FreshHoldsSame
      <3>4. /\ WithSeries(ref, l) \in Seq(MemSeries)
            /\ Len(WithSeries(ref, l)) = IF ref > Len(by_ref) THEN ref ELSE Len(by_ref)
            /\ WithSeries(ref, l)[ref] = [labels |-> l, samples |-> <<>>]
        BY <1>5, WithSeriesShape
      <3>5. ref \in 1..Len(WithSeries(ref, l)) /\ WithSeries(ref, l)[ref].labels = l
        BY <1>5, <3>1, <3>4
      <3> QED
        BY <3>1, <3>3, <3>4, <3>5, Zenon
    <2>2. CASE ~fresh
      <3>1. refs = by_ref /\ ref = by_labels[l]
        BY <2>2
      <3>2. ref \in 1..Len(by_ref) /\ by_ref[ref].labels = l
        BY <2>2, <3>1 DEF StoreOK
      <3>3. HoldsSame(by_ref, by_ref)
        BY Zenon DEF HoldsSame
      <3> QED
        BY <1>3, <1>5, <3>1, <3>2, <3>3, Zenon
    <2> QED
      BY <2>1, <2>2
  <1>7. l # NoLabels
    BY HeadConstants
  <1>8. x = [ref |-> ref, t |-> t, v |-> v]
    OBVIOUS
  <1> HIDE DEF fresh, ref, refs, x
  <1>9. /\ Takes(refs, Appended(refs, ref, t, v), x) /\ EmptySlots(Appended(refs, ref, t, v))
    BY <1>6, <1>7, <1>8, AppendedTakes
  <1>10. Takes(by_ref, by_ref', x)
    BY <1>1, <1>6, <1>9, Zenon DEF Takes, HoldsSame
  <1>11. NoneRefused => Rebuilds(by_ref', wal, Append(pending_samples, x))
    BY <1>3, <1>5, <1>10, TakeKeepsRebuilds
  <1> QED
    BY <1>1, <1>4, <1>9, <1>11, Zenon

(* commit() and close() move the buffer to the log. *)
LEMMA WalStepKeepsSamples ==
    ASSUME TypeOK, SamplesInStep, WalStep
    PROVE  SamplesInStep'
  <1> SUFFICES ASSUME faults' = 0
               PROVE  SamplesInStep'
    BY DEF SamplesInStep
  <1>0. faults = 0
    BY DEF WalStep, LogOk, LogNowhere, LogFails, FlushFails, CutOk, CutNowhere, CutSyncFails,
           CutOpenFails, SyncOk, SyncFails, Fault, history, TypeOK
  <1>1. WriterInStep /\ EmptySlots(by_ref)
    BY <1>0 DEF SamplesInStep
  <1>2. /\ phase \in Running /\ phase' \in Running
        /\ UNCHANGED <<by_labels, by_ref, next_ref, unflushed, rollFailed, fd>> /\ ~skewed'
        /\ \/ LogOk /\ OneMore(wal, wal', Slot(Rec))
           \/ ~NoneRefused'
           \/ SameSlots(wal, wal') /\ UNCHANGED <<pending_series, pending_samples>>
        /\ NoneRefused' => NoneRefused
    BY <1>1, FaultlessWalStep
  <1>3. WriterInStep' /\ EmptySlots(by_ref') /\ phase' # "replay"
    BY <1>1, <1>2 DEF WriterInStep, Running, Logging
  <1>6. SUFFICES ASSUME NoneRefused'
                 PROVE  Rebuilds(by_ref, wal', pending_samples')
    BY <1>2, <1>3 DEF SamplesInStep
  <1>4. Rebuilds(by_ref, wal, pending_samples) /\ wal \in Seq(Slots)
        /\ pending_samples \in Seq(RefSample)
    BY <1>0, <1>2, <1>6 DEF SamplesInStep, TypeOK
  <1>5. Rebuilds(by_ref, wal', pending_samples')
    <2>1. CASE SameSlots(wal, wal') /\ UNCHANGED <<pending_series, pending_samples>>
      BY <1>4, <2>1, OtherKeepsRebuilds
    <2>2. CASE LogOk /\ OneMore(wal, wal', Slot(Rec)) /\ phase = "logSeries"
      <3>1. pending_samples' = pending_samples /\ Slot(Rec).type # "SamplesV2"
        BY <2>2 DEF LogOk, Logged, Slot, Rec
      <3>2. Rebuilds(by_ref, wal', pending_samples)
        BY <1>4, <2>2, <3>1, OtherKeepsRebuilds
      <3> QED
        BY <3>1, <3>2
    <2>3. CASE LogOk /\ OneMore(wal, wal', Slot(Rec)) /\ phase = "logSamples"
      <3>1. /\ pending_samples' = <<>> /\ Slot(Rec).type = "SamplesV2"
            /\ Slot(Rec).items = pending_samples
        BY <2>3 DEF LogOk, Logged, Slot, Rec
      <3>2. Rebuilds(by_ref, wal', <<>>)
        BY <1>4, <2>3, <3>1, LogKeepsRebuilds
      <3> QED
        BY <3>1, <3>2
    <2> QED
      BY <1>2, <1>6, <2>1, <2>2, <2>3 DEF LogOk, Logging
  <1> QED
    BY <1>5


(* Without a process there is nothing to hold. *)
LEMMA EndKeepsSamplesInStep ==
    ASSUME TypeOK, SamplesInStep, Destroy \/ DestroyFails \/ Crash \/ PowerLoss
    PROVE  SamplesInStep'
  <1> SUFFICES ASSUME faults' = 0
               PROVE  SamplesInStep'
    BY DEF SamplesInStep
  <1>0. faults = 0
    BY DEF Destroy, DestroyFails, Crash, PowerLoss, Fault, TypeOK
  <1>1. WriterInStep /\ EmptySlots(by_ref)
    BY <1>0 DEF SamplesInStep
  <1>2. phase' = "down" /\ phase' \notin Running /\ phase' # "replay"
    BY DEF Destroy, DestroyFails, Crash, PowerLoss, Gone, Running, Logging
  <1>3. CASE PowerLoss
    <2>1. /\ UNCHANGED <<by_ref, pending_samples, fd, skewed, unflushed, rollFailed>>
          /\ phase = "down"
      BY <1>3 DEF PowerLoss, store, pending, writer
    <2>2. WriterInStep' /\ EmptySlots(by_ref')
      BY <1>1, <1>2, <2>1 DEF WriterInStep, Running, Logging
    <2> QED
      BY <1>2, <2>2 DEF SamplesInStep
  <1>4. CASE Gone
    <2>1. WriterInStep'
      BY <1>1, <1>2, <1>4 DEF WriterInStep, Gone
    <2>2. by_ref' = <<>> /\ Len(<<>>) = 0
      BY <1>4 DEF Gone, EmptyStore
    <2>3. EmptySlots(by_ref')
      BY <2>2 DEF EmptySlots
    <2> QED
      BY <1>2, <2>1, <2>3 DEF SamplesInStep
  <1> QED
    BY <1>3, <1>4 DEF Destroy, DestroyFails, Crash

(* A replay puts what it reads into the store. *)
LEMMA ReplayKeepsSamplesInStep ==
    ASSUME TypeOK, SamplesInStep,
           open \/ ReplaySeries \/ ReplaySample \/ ReplayNext \/ ReplayCorrupt \/ OpenFails
    PROVE  SamplesInStep'
  <1> USE DEF store, pending, writer, disk, history
  <1> SUFFICES ASSUME faults' = 0
               PROVE  SamplesInStep'
    BY DEF SamplesInStep
  <1>0. /\ faults = 0 /\ ~OpenFails /\ UNCHANGED <<wal, pending_samples, fd, skewed, unflushed, rollFailed>>
    BY DEF open, ReplaySeries, ReplaySample, ReplayNext, ReplayCorrupt, OpenFails, ReplayFails,
           Fault, TypeOK
  <1>1. WriterInStep /\ EmptySlots(by_ref) /\ wal \in Seq(Slots) /\ by_ref \in Seq(MemSeries)
    BY <1>0 DEF SamplesInStep, TypeOK
  <1>2. phase \notin Running /\ phase' \notin Running
    BY DEF open, ReplaySeries, ReplaySample, ReplayNext, ReplayCorrupt, OpenFails, ReplayFails,
           AtItem, Running, Logging
  <1>3. WriterInStep'
    BY <1>0, <1>1, <1>2 DEF WriterInStep
  <1>4. EmptySlots(<<>>)
    <2>1. Len(<<>>) = 0
      OBVIOUS
    <2> QED
      BY <2>1 DEF EmptySlots
  <1>5. CASE open
    <2>1. /\ by_ref' = <<>> /\ cursor' = [slot |-> 1, item |-> 1]
      BY <1>5 DEF open, EmptyStore, AtStart
    <2>2. HasRead(<<>>, wal, 1, 1)
      BY <1>1, ReadNothing
    <2>3. cursor'.slot = 1 /\ cursor'.item = 1
      BY <2>1
    <2>4. HasRead(by_ref', wal', cursor'.slot, cursor'.item)
      BY <1>0, <2>1, <2>2, <2>3, Zenon
    <2> QED
      BY <1>2, <1>3, <1>4, <2>1, <2>4 DEF SamplesInStep
  <1>6. CASE \E reason : ReplayFails(reason)
    <2>1. by_ref' = <<>> /\ phase' = "failed"
      BY <1>6 DEF ReplayFails, EmptyStore
    <2> QED
      BY <1>2, <1>3, <1>4, <2>1 DEF SamplesInStep
  <1>7. ASSUME phase = "replay"
        PROVE  /\ HasRead(by_ref, wal, cursor.slot, cursor.item)
               /\ cursor.slot \in Nat \ {0} /\ cursor.item \in Nat \ {0}
    BY <1>0, <1>7 DEF SamplesInStep, TypeOK
  <1>8. ASSUME NextItem
        PROVE  cursor'.slot = cursor.slot /\ cursor'.item = cursor.item + 1
    BY <1>8 DEF NextItem
  <1>9. CASE ReplaySeries /\ ~\E reason : ReplayFails(reason)
    <2>1. AtItem("Series") /\ insert_with_ref(Item.ref, Item.labels) /\ NextItem
      BY <1>9 DEF ReplaySeries
    <2>2. /\ phase = "replay" /\ cursor.slot <= Len(wal) /\ wal[cursor.slot].type # "SamplesV2"
          /\ cursor.item <= Len(wal[cursor.slot].items)
      BY <2>1 DEF AtItem, Cur
    <2>3. Item.ref \in Nat /\ Item.labels \in Labels
      BY <2>1, ItemType DEF RefSeries
    <2>4. HoldsSame(by_ref, by_ref') /\ EmptySlots(by_ref')
      <3>1. CASE by_ref' = by_ref
        BY <1>1, <3>1, Zenon DEF HoldsSame
      <3>2. CASE by_ref' # by_ref
        <4>1. Item.ref # 0 /\ ~RefTaken(Item.ref) /\ by_ref' = WithSeries(Item.ref, Item.labels)
          BY <2>1, <3>2 DEF insert_with_ref, InsertRefused
        <4> QED
          BY <1>1, <2>3, <4>1, FreshHoldsSame
      <3> QED
        BY <3>1, <3>2
    <2>5. HasRead(by_ref', wal, cursor.slot, cursor.item + 1)
      BY <1>1, <1>7, <2>2, <2>4, ReadSeriesItem
    <2>6. HasRead(by_ref', wal', cursor'.slot, cursor'.item)
      BY <1>0, <1>8, <2>1, <2>5
    <2> QED
      BY <1>2, <1>3, <2>4, <2>6 DEF SamplesInStep
  <1>10. CASE ReplaySample /\ ~\E reason : ReplayFails(reason)
    <2>1. /\ AtItem("SamplesV2") /\ RefTaken(Item.ref) /\ NextItem
          /\ by_ref' = Appended(by_ref, Item.ref, Item.t, Item.v)
      BY <1>10 DEF ReplaySample
    <2>2. /\ phase = "replay" /\ cursor.slot <= Len(wal) /\ wal[cursor.slot].type = "SamplesV2"
          /\ cursor.item <= Len(wal[cursor.slot].items)
          /\ Item = wal[cursor.slot].items[cursor.item]
      BY <2>1 DEF AtItem, Cur, Item
    <2>3. PICK x \in RefSample : x = Item
      BY <2>1, ItemType
    <2>4. /\ x = [ref |-> x.ref, t |-> x.t, v |-> x.v] /\ x.t \in Times /\ x.v \in Values
          /\ x.ref \in 1..Len(by_ref) /\ by_ref[x.ref].labels # NoLabels
      BY <2>1, <2>3 DEF RefSample, RefTaken
    <2>5. /\ Takes(by_ref, Appended(by_ref, x.ref, x.t, x.v), [ref |-> x.ref, t |-> x.t, v |-> x.v])
          /\ EmptySlots(Appended(by_ref, x.ref, x.t, x.v))
      BY <1>1, <2>4, AppendedTakes
    <2>6. Takes(by_ref, by_ref', wal[cursor.slot].items[cursor.item]) /\ EmptySlots(by_ref')
      BY <2>1, <2>2, <2>3, <2>4, <2>5, Zenon
    <2>7. HasRead(by_ref', wal, cursor.slot, cursor.item + 1)
      BY <1>1, <1>7, <2>2, <2>6, ReadSampleItem
    <2>8. HasRead(by_ref', wal', cursor'.slot, cursor'.item)
      BY <1>0, <1>8, <2>1, <2>7
    <2> QED
      BY <1>2, <1>3, <2>6, <2>8 DEF SamplesInStep
  <1>11. CASE ReplayNext
    <2>1. /\ phase = "replay" /\ cursor.slot <= Len(wal) /\ cursor.item > Len(wal[cursor.slot].items)
          /\ cursor' = [slot |-> cursor.slot + 1, item |-> 1] /\ by_ref' = by_ref
      BY <1>11 DEF ReplayNext, Cur
    <2>2. HasRead(by_ref, wal, cursor.slot + 1, 1)
      BY <1>1, <1>7, <2>1, ReadNextSlot
    <2>3. cursor'.slot = cursor.slot + 1 /\ cursor'.item = 1
      BY <2>1
    <2>4. HasRead(by_ref', wal', cursor'.slot, cursor'.item)
      BY <1>0, <2>1, <2>2, <2>3, Zenon
    <2> QED
      BY <1>1, <1>2, <1>3, <2>1, <2>4 DEF SamplesInStep
  <1>12. CASE ReplayCorrupt
    <2>1. \E reason : ReplayFails(reason)
      BY <1>12 DEF ReplayCorrupt
    <2> QED
      BY <1>6, <2>1
  <1> QED
    BY <1>0, <1>5, <1>6, <1>9, <1>10, <1>11, <1>12

(* At the end of the stream a replay has read every sample of the log. *)
LEMMA ReplayDoneKeepsSamples ==
    ASSUME TypeOK, StoreMatchesLog, SamplesInStep, ReplayDone
    PROVE  SamplesInStep'
  <1> USE DEF store, pending, writer, disk, history
  <1>1. /\ phase = "replay" /\ phase' = "open" /\ AtEndOfStream /\ fd'
        /\ UNCHANGED <<by_ref, pending_samples, unflushed, skewed, wal, rollFailed, faults>>
    BY DEF ReplayDone
  <1>2. phase \notin Running /\ phase' \in Running
    BY <1>1 DEF Running, Logging
  <1> SUFFICES ASSUME faults = 0
               PROVE  SamplesInStep'
    BY <1>1 DEF SamplesInStep
  <1>3. /\ WriterInStep /\ EmptySlots(by_ref) /\ HasRead(by_ref, wal, cursor.slot, cursor.item)
        /\ pending_samples = <<>>
    BY <1>1, <1>2 DEF SamplesInStep, WriterInStep
  <1>4. /\ wal \in Seq(Slots) /\ DOMAIN wal = 1..Len(wal) /\ Len(wal) \in Nat
        /\ cursor.slot \in Nat \ {0} /\ nseg \in Nat
    BY LenProperties DEF TypeOK
  <1>5. ASSUME NEW i \in 1..Len(wal), i >= cursor.slot
        PROVE  wal[i].type # "SamplesV2"
    <2>1. cursor.slot \in 1..Len(wal) /\ EndsSegment(cursor.slot) /\ Cur.seg = nseg
          /\ Cur.type = "Torn"
      BY <1>1, <1>4, <1>5 DEF AtEndOfStream
    <2>2. CASE i = cursor.slot
      BY <2>1, <2>2 DEF Cur
    <2>3. CASE i > cursor.slot
      <3>1. wal[i].seg <= nseg /\ nseg <= wal[i].seg
        BY <1>4, <2>1, <2>3 DEF StoreMatchesLog, SegmentsInOrder, Cur
      <3>2. wal[i].seg \in Nat
        BY <1>4, ElementOfSeq DEF Slots
      <3>3. wal[i].seg = nseg
        BY <1>4, <3>1, <3>2
      <3>4. wal[i].type = "Lost"
        BY <1>4, <2>1, <2>3, <3>3 DEF EndsSegment, Cur
      <3> QED
        BY <3>4
    <2> QED
      BY <1>4, <1>5, <2>2, <2>3
  <1>6. Rebuilds(by_ref, wal, <<>>)
    BY <1>3, <1>4, <1>5, ReadAll
  <1>7. WriterInStep'
    BY <1>1, <1>2, <1>3 DEF WriterInStep
  <1> QED
    BY <1>1, <1>2, <1>3, <1>6, <1>7 DEF SamplesInStep

(* Every step keeps the inductive invariant. *)
LEMMA NextKeepsSamples ==
    ASSUME TypeOK, StoreMatchesLog, SamplesInStep, [Next]_vars
    PROVE  SamplesInStep'
  <1>1. CASE \E l \in Labels, t \in Times, v \in Values : append(l, t, v)
    <2>1. StoreOK
      BY DEF StoreMatchesLog
    <2> QED
      BY <1>1, <2>1, AppendKeepsSamples
  <1>2. CASE WalStep
    BY <1>2, WalStepKeepsSamples
  <1>3. CASE Destroy \/ DestroyFails \/ Crash \/ PowerLoss
    BY <1>3, EndKeepsSamplesInStep
  <1>4. CASE open \/ Replay
    BY <1>4, ReplayKeepsSamplesInStep, ReplayDoneKeepsSamples DEF Replay
  <1>5. CASE commit \/ UNCHANGED vars
    <2>1. /\ UNCHANGED <<by_ref, pending_samples, fd, skewed, unflushed, wal, cursor, rollFailed,
                         faults>>
          /\ \/ UNCHANGED phase
             \/ phase \in Running /\ phase' \in Running /\ phase' # "replay"
      BY <1>5 DEF commit, vars, store, pending, writer, disk, history, Running, Logging
    <2>2. WriterInStep => WriterInStep'
      BY <2>1 DEF WriterInStep
    <2>3. NoneRefused' <=> NoneRefused
      BY <2>1 DEF NoneRefused
    <2> QED
      BY <2>1, <2>2, <2>3 DEF SamplesInStep
  <1> QED
    BY <1>1, <1>2, <1>3, <1>4, <1>5 DEF Next

(* A fresh head holds nothing. *)
LEMMA InitSamples ==
    ASSUME Init
    PROVE  SamplesInStep
  <1>1. /\ phase = "down" /\ by_ref = <<>> /\ unflushed = <<>> /\ ~skewed /\ ~rollFailed
        /\ pending_samples = <<>> /\ Len(<<>>) = 0
    BY DEF Init
  <1> QED
    BY <1>1 DEF SamplesInStep, WriterInStep, EmptySlots, Running, Logging

(* As long as no I/O call has failed and no record on file is one that the page
   reader refuses, an open head is what its log and its pending buffer say,
   after any number of crashes and power losses: every sample of every series
   once, in the order of the log, and no other. *)
THEOREM ReplayRebuilds == Spec => []ReplayExact
  <1>1. Init => SamplesInStep
    BY InitSamples
  <1>2. TypeOK /\ StoreMatchesLog /\ SamplesInStep /\ [Next]_vars => SamplesInStep'
    BY NextKeepsSamples
  <1>3. TypeOK /\ SamplesInStep => ReplayExact
    <2> SUFFICES ASSUME TypeOK, SamplesInStep, phase = "open", faults = 0, NoneRefused,
                        NEW r \in 1..Len(by_ref)
                 PROVE  by_ref[r].samples = LoggedOf(r, wal, Len(wal))
                                              \o SamplesOf(r, pending_samples, Len(pending_samples))
      BY DEF ReplayExact
    <2>1. Rebuilds(by_ref, wal, pending_samples)
      BY DEF SamplesInStep, Running
    <2>2. r \in Nat /\ HeldOf(by_ref, r) = by_ref[r].samples
      BY DEF HeldOf
    <2> QED
      BY <2>1, <2>2, Zenon DEF Rebuilds
  <1> QED
    BY <1>1, <1>2, <1>3, TypeCorrect, StoreLogAgreement, PTL DEF Spec
=============================================================================
