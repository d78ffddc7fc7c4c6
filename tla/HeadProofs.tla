----------------------------- MODULE HeadProofs -----------------------------
(***************************************************************************)
(* Proofs about Head.tla, for every set of label sets, timestamps and      *)
(* values and for every bound.                                             *)
(***************************************************************************)
EXTENDS Head, TLAPS, SequenceTheorems

(* A function on 1..n is a sequence of length n. *)
LEMMA FunIsSeq ==
    ASSUME NEW S, NEW n \in Nat, NEW f \in [1..n -> S]
    PROVE  f \in Seq(S) /\ Len(f) = n
  OBVIOUS

(* An interval from 1 determines its upper bound. *)
LEMMA SameInterval ==
    ASSUME NEW m \in Nat, NEW n \in Nat, 1..m = 1..n
    PROVE  m = n
  <1>1. m > 0 => m \in 1..n
    OBVIOUS
  <1>2. n > 0 => n \in 1..m
    OBVIOUS
  <1> QED
    BY <1>1, <1>2

-----------------------------------------------------------------------------
(* What a write and an fsync do to the log.                                *)

\* w is the log with slots of the open segment added, of which the Series
\* records are among recs.
Extended(w, recs) ==
    /\ w \in Seq(Slots)
    /\ Len(w) >= Len(wal)
    /\ \A i \in 1..Len(wal) : w[i] = wal[i]
    /\ \A i \in Len(wal) + 1..Len(w) :
          /\ w[i].seg = nseg
          /\ w[i].type = "Series" =>
                \E k \in 1..Len(recs) :
                    recs[k].type = "Series" /\ w[i].items = recs[k].items

(* Writing complete records extends the log by them (Written). *)
LEMMA WrittenExtends ==
    ASSUME TypeOK, NEW recs \in Seq(Records)
    PROVE  Extended(Written(recs), recs)
  <1> DEFINE n == Len(recs)
             s == [i \in 1..n |-> Slot(recs[i])]
  <1>1. n \in Nat /\ wal \in Seq(Slots) /\ nseg \in Nat
    BY LenProperties DEF TypeOK
  <1>2. \A i \in 1..n : Slot(recs[i]) \in Slots
    <2> TAKE i \in 1..n
    <2>1. recs[i] \in Records
      BY ElementOfSeq
    <2> QED
      BY <2>1, <1>1 DEF Records, Slots, Slot
  <1>3. s \in Seq(Slots) /\ Len(s) = n
    BY <1>1, <1>2, FunIsSeq
  <1>4. Written(recs) = wal \o s
    BY DEF Written
  <1>5. /\ Written(recs) \in Seq(Slots)
        /\ Len(Written(recs)) = Len(wal) + n
        /\ \A i \in 1..Len(wal) + n : Written(recs)[i] =
              IF i <= Len(wal) THEN wal[i] ELSE s[i - Len(wal)]
    BY <1>1, <1>3, <1>4, ConcatProperties
  <1>6. Len(wal) \in Nat
    BY <1>1, LenProperties
  <1>7. ASSUME NEW i \in Len(wal) + 1..Len(wal) + n
        PROVE  /\ i - Len(wal) \in 1..n
               /\ Written(recs)[i] = Slot(recs[i - Len(wal)])
    <2>1. i \in 1..Len(wal) + n /\ ~(i <= Len(wal)) /\ i - Len(wal) \in 1..n
      BY <1>1, <1>6
    <2>2. Written(recs)[i] = s[i - Len(wal)]
      BY <1>5, <2>1
    <2> QED
      BY <2>1, <2>2
  <1> HIDE DEF s, n
  <1>8. ASSUME NEW i \in Len(wal) + 1..Len(Written(recs))
        PROVE  /\ Written(recs)[i].seg = nseg
               /\ \E k \in 1..n :
                     Written(recs)[i].type = recs[k].type /\ Written(recs)[i].items = recs[k].items
    <2>1. i - Len(wal) \in 1..n /\ Written(recs)[i] = Slot(recs[i - Len(wal)])
      BY <1>5, <1>7
    <2> QED
      BY <2>1 DEF Slot
  <1>9. Len(Written(recs)) >= Len(wal) /\ \A i \in 1..Len(wal) : Written(recs)[i] = wal[i]
    BY <1>1, <1>5, <1>6
  <1> QED
    BY <1>5, <1>8, <1>9 DEF Extended, n

(* A prefix of the records extends it too. *)
LEMMA PrefixExtends ==
    ASSUME TypeOK, NEW recs \in Seq(Records), NEW m \in 0..(Len(recs) - 1)
    PROVE  Extended(Written(SubSeq(recs, 1, m)), recs)
  <1> DEFINE p == SubSeq(recs, 1, m)
  <1>1. Len(recs) \in Nat
    BY LenProperties
  <1>2. /\ p \in Seq(Records)
        /\ Len(p) = m
        /\ \A k \in 1..m : p[k] = recs[k]
    <2>1. \A k \in 1..m : recs[k] \in Records
      BY <1>1, ElementOfSeq
    <2> QED
      BY <2>1, <1>1, SubSeqProperties
  <1>3. Extended(Written(p), p)
    BY <1>2, WrittenExtends
  <1> HIDE DEF p
  <1>4. \A k \in 1..Len(p) : k \in 1..Len(recs) /\ p[k] = recs[k]
    BY <1>1, <1>2
  <1> QED
    BY <1>3, <1>4 DEF Extended, p

(* A partial record after the rest adds no Series record (Partial). *)
LEMMA PartialExtends ==
    ASSUME TypeOK, NEW recs \in Seq(Records), NEW w, Extended(w, recs),
           NEW type \in {"Torn", "Bad"}
    PROVE  Extended(Append(w, Partial(type)), recs)
  <1>1. Partial(type) \in Slots
    BY DEF TypeOK, Partial, Slots
  <1>2. w \in Seq(Slots) /\ Len(w) \in Nat /\ Len(wal) \in Nat
    BY LenProperties DEF Extended, TypeOK
  <1>3. /\ Append(w, Partial(type)) \in Seq(Slots)
        /\ Len(Append(w, Partial(type))) = Len(w) + 1
        /\ \A i \in 1..Len(w) : Append(w, Partial(type))[i] = w[i]
        /\ Append(w, Partial(type))[Len(w) + 1] = Partial(type)
    BY <1>1, <1>2, AppendProperties
  <1>4. Partial(type).seg = nseg /\ Partial(type).type # "Series"
    BY DEF Partial
  <1> DEFINE x == Append(w, Partial(type))
  <1> HIDE DEF x
  <1>5. Len(x) >= Len(wal) /\ \A i \in 1..Len(wal) : x[i] = wal[i]
    BY <1>2, <1>3 DEF Extended, x
  <1>6. ASSUME NEW i \in Len(wal) + 1..Len(x), i # Len(w) + 1
        PROVE  i \in Len(wal) + 1..Len(w) /\ x[i] = w[i]
    BY <1>2, <1>3, <1>6 DEF x
  <1>7. \A i \in Len(wal) + 1..Len(x) :
          /\ x[i].seg = nseg
          /\ x[i].type = "Series" =>
                \E k \in 1..Len(recs) :
                    recs[k].type = "Series" /\ x[i].items = recs[k].items
    BY <1>3, <1>4, <1>6 DEF Extended, x
  <1> QED
    BY <1>3, <1>5, <1>7 DEF Extended, x

(* flush_pending, complete or cut short, extends the log. *)
LEMMA FlushExtends ==
    ASSUME TypeOK, NEW recs \in Seq(Records), NEW w \in Flushed(recs) \cup Cuttings(recs)
    PROVE  Extended(w, recs)
  <1>1. Extended(wal, recs)
    BY LenProperties DEF Extended, TypeOK
  <1>2. Extended(Written(recs), recs)
    BY WrittenExtends
  <1>3. CASE w = wal
    BY <1>1, <1>3
  <1>4. CASE w = Written(recs)
    BY <1>2, <1>4
  <1>5. CASE \E m \in 0..(Len(recs) - 1) : w = Written(SubSeq(recs, 1, m))
    BY <1>5, PrefixExtends
  <1>6. CASE \E m \in 0..(Len(recs) - 1), type \in {"Torn", "Bad"} :
               w = Append(Written(SubSeq(recs, 1, m)), Partial(type))
    BY <1>6, PrefixExtends, PartialExtends
  <1> QED
    BY <1>3, <1>4, <1>5, <1>6 DEF Flushed, BeforeRefused, Cuttings

\* w and x differ in what is durable only.
SameSlots(w, x) ==
    /\ w \in Seq(Slots) /\ x \in Seq(Slots)
    /\ Len(x) = Len(w)
    /\ \A i \in 1..Len(w) :
          x[i].seg = w[i].seg /\ x[i].type = w[i].type /\ x[i].items = w[i].items

(* fsync changes no record (Synced). *)
LEMMA SyncedSame ==
    ASSUME NEW w \in Seq(Slots)
    PROVE  SameSlots(w, Synced(w))
  <1>1. Len(w) \in Nat /\ DOMAIN w = 1..Len(w) /\ \A i \in 1..Len(w) : w[i] \in Slots
    BY LenProperties, ElementOfSeq
  <1>2. ASSUME NEW i \in 1..Len(w)
        PROVE  /\ Synced(w)[i] \in Slots
               /\ Synced(w)[i].seg = w[i].seg
               /\ Synced(w)[i].type = w[i].type
               /\ Synced(w)[i].items = w[i].items
    BY <1>1 DEF Synced, Slots
  <1>3. Synced(w) \in [1..Len(w) -> Slots]
    BY <1>1, <1>2 DEF Synced
  <1>4. Synced(w) \in Seq(Slots) /\ Len(Synced(w)) = Len(w)
    BY <1>1, <1>3, FunIsSeq
  <1> QED
    BY <1>2, <1>4 DEF SameSlots

-----------------------------------------------------------------------------
(* The series store.                                                       *)

(* A fresh series fills its own slot and touches no other (WithSeries). *)
LEMMA WithSeriesShape ==
    ASSUME TypeOK, NEW ref \in Nat \ {0}, NEW l \in Labels
    PROVE  /\ WithSeries(ref, l) \in Seq(MemSeries)
           /\ Len(WithSeries(ref, l)) = IF ref > Len(by_ref) THEN ref ELSE Len(by_ref)
           /\ WithSeries(ref, l)[ref] = [labels |-> l, samples |-> <<>>]
           /\ \A i \in 1..Len(WithSeries(ref, l)) : i # ref =>
                 WithSeries(ref, l)[i] = IF i <= Len(by_ref) THEN by_ref[i] ELSE NoSeries
  <1> DEFINE n == IF ref > Len(by_ref) THEN ref ELSE Len(by_ref)
  <1>1. /\ by_ref \in Seq(MemSeries)
        /\ Len(by_ref) \in Nat
        /\ \A i \in 1..Len(by_ref) : by_ref[i] \in MemSeries
    BY LenProperties, ElementOfSeq DEF TypeOK
  <1>2. n \in Nat /\ ref \in 1..n
    BY <1>1
  <1>3. NoSeries \in MemSeries /\ [labels |-> l, samples |-> <<>>] \in MemSeries
    BY EmptySeq DEF NoSeries, MemSeries
  <1>4. \A i \in 1..n : i <= Len(by_ref) => by_ref[i] \in MemSeries
    BY <1>1, <1>2
  <1>5. WithSeries(ref, l) \in [1..n -> MemSeries]
    BY <1>3, <1>4 DEF WithSeries
  <1>6. WithSeries(ref, l) \in Seq(MemSeries) /\ Len(WithSeries(ref, l)) = n
    BY <1>2, <1>5, FunIsSeq
  <1> QED
    BY <1>2, <1>6 DEF WithSeries

(* A sample is appended to its series and changes nothing else (Appended). *)
LEMMA AppendedShape ==
    ASSUME NEW refs \in Seq(MemSeries), NEW ref \in Nat, NEW t \in Times, NEW v \in Values
    PROVE  /\ Appended(refs, ref, t, v) \in Seq(MemSeries)
           /\ Len(Appended(refs, ref, t, v)) = Len(refs)
           /\ \A i \in 1..Len(refs) : Appended(refs, ref, t, v)[i].labels = refs[i].labels
  <1> DEFINE x  == [t |-> t, v |-> v]
             ms == [labels |-> refs[ref].labels, samples |-> Append(refs[ref].samples, x)]
  <1>1. Len(refs) \in Nat /\ DOMAIN refs = 1..Len(refs)
    BY LenProperties
  <1>2. CASE ref \in 1..Len(refs)
    <2>1. refs[ref] \in MemSeries
      BY <1>2, ElementOfSeq
    <2>2. x \in Samples /\ refs[ref].samples \in Seq(Samples)
      BY <2>1 DEF Samples, MemSeries
    <2>3. Append(refs[ref].samples, x) \in Seq(Samples)
      BY <2>2, AppendProperties
    <2>4. ms \in MemSeries
      BY <2>1, <2>3 DEF MemSeries
    <2>5. Appended(refs, ref, t, v) = [refs EXCEPT ![ref] = ms]
      BY DEF Appended
    <2> HIDE DEF ms
    <2>6. /\ [refs EXCEPT ![ref] = ms] \in Seq(MemSeries)
          /\ Len([refs EXCEPT ![ref] = ms]) = Len(refs)
          /\ \A i \in 1..Len(refs) :
                [refs EXCEPT ![ref] = ms][i] = IF i = ref THEN ms ELSE refs[i]
      BY <1>2, <2>4, ExceptSeq
    <2>7. ms.labels = refs[ref].labels
      BY DEF ms
    <2> QED
      BY <2>5, <2>6, <2>7
  <1>3. CASE ref \notin 1..Len(refs)
    <2>1. Appended(refs, ref, t, v) = refs
      BY <1>1, <1>3 DEF Appended
    <2> QED
      BY <2>1
  <1> QED
    BY <1>2, <1>3

-----------------------------------------------------------------------------
(* Type correctness.                                                       *)

(* The record that a running commit logs is well formed (Rec). *)
LEMMA RecType ==
    ASSUME TypeOK
    PROVE  /\ Rec \in Records
           /\ Append(unflushed, Rec) \in Seq(Records)
           /\ unflushed \in Seq(Records)
  <1>1. Rec \in Records
    BY DEF TypeOK, Rec, Records
  <1> QED
    BY <1>1, AppendProperties DEF TypeOK

(* A flush followed by an fsync leaves a well-formed log. *)
LEMMA FlushType ==
    ASSUME TypeOK, NEW recs \in Seq(Records), NEW w \in Flushed(recs) \cup Cuttings(recs)
    PROVE  w \in Seq(Slots) /\ Synced(w) \in Seq(Slots)
  BY FlushExtends, SyncedSame DEF Extended, SameSlots

(* Every step of append preserves the types. *)
LEMMA AppendType ==
    ASSUME TypeOK, NEW l \in Labels, NEW t \in Times, NEW v \in Values, append(l, t, v)
    PROVE  TypeOK'
  <1> DEFINE fresh == by_labels[l] = 0
             ref   == IF fresh THEN next_ref ELSE by_labels[l]
             refs  == IF fresh THEN WithSeries(ref, l) ELSE by_ref
  <1>1. ref \in Nat /\ (fresh => ref \in Nat \ {0})
    BY DEF TypeOK
  <1>2. refs \in Seq(MemSeries)
    BY <1>1, WithSeriesShape DEF TypeOK
  <1>3. Appended(refs, ref, t, v) \in Seq(MemSeries)
    BY <1>1, <1>2, AppendedShape
  <1>4. [ref |-> ref, labels |-> l] \in RefSeries /\ [ref |-> ref, t |-> t, v |-> v] \in RefSample
    BY <1>1 DEF RefSeries, RefSample
  <1> HIDE DEF ref, refs
  <1>5. /\ by_labels' = [by_labels EXCEPT ![l] = ref]
        /\ by_ref' = Appended(refs, ref, t, v)
        /\ next_ref' = IF fresh THEN next_ref + 1 ELSE next_ref
        /\ pending_series' = IF fresh
              THEN Append(pending_series, [ref |-> ref, labels |-> l]) ELSE pending_series
        /\ pending_samples' = Append(pending_samples, [ref |-> ref, t |-> t, v |-> v])
    BY DEF append, ref, refs
  <1>6. by_labels' \in [Labels -> Nat] /\ by_ref' \in Seq(MemSeries) /\ next_ref' \in Nat \ {0}
    BY <1>1, <1>3, <1>5 DEF TypeOK
  <1>7. pending_series' \in Seq(RefSeries) /\ pending_samples' \in Seq(RefSample)
    BY <1>4, <1>5, AppendProperties DEF TypeOK
  <1>8. mine' \subseteq (Labels \X Times \X Values)
    BY DEF append, TypeOK
  <1> QED
    BY <1>6, <1>7, <1>8 DEF append, TypeOK, writer, disk

(* Every step of commit() and close() preserves the types. *)
LEMMA WalStepType ==
    ASSUME TypeOK, WalStep
    PROVE  TypeOK'
  <1> USE DEF TypeOK, store, pending, writer, disk, history, Phases, Logging
  <1>0. <<>> \in Seq(Records) /\ <<>> \in Seq(RefSeries) /\ <<>> \in Seq(RefSample)
    BY EmptySeq
  <1>1. CASE LogOk
    BY <1>0, <1>1, RecType, FlushType DEF LogOk, Logged
  <1>2. CASE LogNowhere
    BY <1>0, <1>2, RecType DEF LogNowhere, Logged
  <1>3. CASE LogFails
    <2>1. wal' \in Cuttings(Append(unflushed, Rec)) /\ unflushed' = Append(unflushed, Rec)
      BY <1>3 DEF LogFails, FlushFails
    <2>2. wal' \in Seq(Slots) /\ unflushed' \in Seq(Records)
      BY <2>1, RecType, FlushType
    <2> QED
      BY <1>3, <2>2 DEF LogFails, FlushFails, Fault, CommitError
  <1>4. CASE CutOk
    <2>1. wal' \in Seq(Slots)
      BY <1>4, RecType, FlushType DEF CutOk
    <2>2. unflushed' \in Seq(Records) /\ nseg' \in Nat /\ phase' \in Phases
      BY <1>0, <1>4 DEF CutOk, Cutting
    <2>3. skewed' \in BOOLEAN
      BY <1>4 DEF CutOk
    <2> QED
      BY <1>4, <2>1, <2>2, <2>3 DEF CutOk
  <1>5. CASE CutNowhere
    BY <1>5 DEF CutNowhere
  <1>6. CASE CutSyncFails
    <2>1. wal' \in Flushed(unflushed) \cup Cuttings(unflushed)
      BY <1>6 DEF CutSyncFails, FlushFails
    <2>2. wal' \in Seq(Slots)
      BY <2>1, RecType, FlushType
    <2>3. unflushed' = unflushed \/ unflushed' = <<>>
      BY <1>6 DEF CutSyncFails, FlushFails
    <2>5. unflushed' \in Seq(Records)
      BY <1>0, <2>3
    <2>6. faults' = faults + 1 /\ phase' \in Phases
      BY <1>6 DEF CutSyncFails, FlushFails, Fault, CommitError
    <2>4. skewed' \in BOOLEAN
      BY <1>6 DEF CutSyncFails, FlushFails
    <2> QED
      BY <1>6, <2>2, <2>4, <2>5, <2>6 DEF CutSyncFails
  <1>7. CASE CutOpenFails
    <2>1. wal' \in Seq(Slots)
      BY <1>7, RecType, FlushType DEF CutOpenFails
    <2>2. unflushed' \in Seq(Records) /\ faults' \in Nat /\ phase' \in Phases
      BY <1>0, <1>7 DEF CutOpenFails, Fault, CommitError
    <2>3. fd' \in BOOLEAN /\ rollFailed' \in BOOLEAN
      BY <1>7 DEF CutOpenFails
    <2> QED
      BY <1>7, <2>1, <2>2, <2>3 DEF CutOpenFails
  <1>8. CASE SyncOk
    BY <1>8, SyncedSame DEF SyncOk, SameSlots
  <1>9. CASE SyncFails
    BY <1>9 DEF SyncFails, Fault, CommitError
  <1> QED
    BY <1>1, <1>2, <1>3, <1>4, <1>5, <1>6, <1>7, <1>8, <1>9 DEF WalStep

(* Every step of a dying process, and of a disk that loses power, preserves
   the types. *)
LEMMA EndType ==
    ASSUME TypeOK, Destroy \/ DestroyFails \/ Crash \/ PowerLoss
    PROVE  TypeOK'
  <1> USE DEF TypeOK, store, pending, writer, disk, history, Phases, Logging
  <1>0. /\ <<>> \in Seq(Records) /\ <<>> \in Seq(RefSeries) /\ <<>> \in Seq(RefSample)
        /\ <<>> \in Seq(MemSeries)
    BY EmptySeq
  <1>1. ASSUME Gone, wal' \in Seq(Slots), faults' \in Nat, crashes' \in Nat, powerLost' \in BOOLEAN
        PROVE  TypeOK'
    <2>1. /\ phase' \in Phases /\ by_labels' \in [Labels -> Nat] /\ by_ref' \in Seq(MemSeries)
          /\ next_ref' \in Nat \ {0}
          /\ cursor' \in [slot : Nat \ {0}, item : Nat \ {0}]
      BY <1>0, <1>1 DEF Gone, EmptyStore, AtStart
    <2>2. /\ pending_series' \in Seq(RefSeries) /\ pending_samples' \in Seq(RefSample)
          /\ unflushed' \in Seq(Records)
      BY <1>0, <1>1 DEF Gone
    <2>3. fd' \in BOOLEAN /\ skewed' \in BOOLEAN /\ closing' \in BOOLEAN
      BY <1>1 DEF Gone
    <2>4. mine' \subseteq (Labels \X Times \X Values)
      BY <1>1 DEF Gone
    <2> QED
      BY <1>1, <2>1, <2>2, <2>3, <2>4 DEF Gone
  <1>2. CASE Destroy
    <2>1. wal' \in Seq(Slots)
      BY <1>2, RecType, FlushType DEF Destroy
    <2> QED
      BY <1>1, <1>2, <2>1, SMTT(30) DEF Destroy
  <1>3. CASE DestroyFails
    <2>1. wal' \in Seq(Slots)
      BY <1>3, RecType, FlushType DEF DestroyFails
    <2> QED
      BY <1>1, <1>3, <2>1, SMTT(30) DEF DestroyFails, Fault
  <1>4. CASE Crash
    <2>1. wal' = wal \/ wal' \in Cuttings(Append(unflushed, Rec))
      BY <1>4 DEF Crash
    <2>2. wal' \in Seq(Slots)
      BY <2>1, RecType, FlushType
    <2> QED
      BY <1>1, <1>4, <2>2, SMTT(30) DEF Crash
  <1>5. CASE PowerLoss
    <2>0. PICK lost \in SUBSET {i \in DOMAIN wal : ~wal[i].durable} :
            \E type \in [lost -> {"Lost", "Torn", "Bad"}] :
               wal' = [i \in DOMAIN wal |->
                [seg |-> wal[i].seg, durable |-> TRUE,
                 type |-> IF i \in lost THEN type[i] ELSE wal[i].type,
                 items |-> IF i \in lost THEN <<>> ELSE wal[i].items]]
      BY <1>5 DEF PowerLoss
    <2>1. PICK type \in [lost -> {"Lost", "Torn", "Bad"}] :
             wal' = [i \in DOMAIN wal |->
                [seg |-> wal[i].seg, durable |-> TRUE,
                 type |-> IF i \in lost THEN type[i] ELSE wal[i].type,
                 items |-> IF i \in lost THEN <<>> ELSE wal[i].items]]
      BY <2>0
    <2>2. DOMAIN wal = 1..Len(wal) /\ Len(wal) \in Nat /\ \A i \in 1..Len(wal) : wal[i] \in Slots
      BY LenProperties, ElementOfSeq
    <2>3. ASSUME NEW i \in DOMAIN wal
          PROVE  [seg |-> wal[i].seg, durable |-> TRUE,
                  type |-> IF i \in lost THEN type[i] ELSE wal[i].type,
                  items |-> IF i \in lost THEN <<>> ELSE wal[i].items] \in Slots
      <3>1. wal[i] \in Slots
        BY <2>2
      <3>2. CASE i \in lost
        BY <2>1, <3>1, <3>2 DEF Slots
      <3>3. CASE i \notin lost
        BY <3>1, <3>3 DEF Slots
      <3> QED
        BY <3>2, <3>3
    <2>4. wal' \in [1..Len(wal) -> Slots]
      BY <2>1, <2>2, <2>3
    <2>5. wal' \in Seq(Slots)
      BY <2>2, <2>4, FunIsSeq
    <2> QED
      BY <1>5, <2>5 DEF PowerLoss
  <1> QED
    BY <1>2, <1>3, <1>4, <1>5

(* The item a replay is at belongs to its record. *)
LEMMA ItemType ==
    ASSUME TypeOK
    PROVE  /\ AtItem("Series") => Item \in RefSeries
           /\ AtItem("SamplesV2") => Item \in RefSample
  <1>1. ASSUME cursor.slot <= Len(wal)
        PROVE  Cur \in Slots
    BY <1>1, LenProperties, ElementOfSeq DEF TypeOK, Cur
  <1>2. ASSUME AtItem("Series")
        PROVE  Item \in RefSeries
    <2>1. Cur.items \in Seq(RefSeries)
      BY <1>1, <1>2 DEF AtItem, Slots
    <2> QED
      BY <1>2, <2>1, LenProperties, ElementOfSeq DEF AtItem, Item, TypeOK
  <1>3. ASSUME AtItem("SamplesV2")
        PROVE  Item \in RefSample
    <2>1. Cur.items \in Seq(RefSample)
      BY <1>1, <1>3 DEF AtItem, Slots
    <2> QED
      BY <1>3, <2>1, LenProperties, ElementOfSeq DEF AtItem, Item, TypeOK
  <1> QED
    BY <1>2, <1>3

(* Every step of open() preserves the types. *)
LEMMA OpenType ==
    ASSUME TypeOK, open \/ Replay
    PROVE  TypeOK'
  <1> USE DEF TypeOK, store, pending, writer, disk, history, Phases, Reasons
  <1>0. <<>> \in Seq(MemSeries)
    BY EmptySeq
  <1>1. ASSUME EmptyStore
        PROVE  by_labels' \in [Labels -> Nat] /\ by_ref' \in Seq(MemSeries) /\ next_ref' \in Nat \ {0}
    BY <1>0, <1>1 DEF EmptyStore
  <1>2. ASSUME NEW reason \in Reasons, ReplayFails(reason)
        PROVE  TypeOK'
    BY <1>1, <1>2 DEF ReplayFails
  <1>3. CASE open
    BY <1>1, <1>3 DEF open, AtStart
  <1>4. CASE ReplaySeries
    <2>1. CASE ReplayFails("RefConflict")
      BY <1>2, <2>1
    <2>2. CASE /\ insert_with_ref(Item.ref, Item.labels)
               /\ NextItem
               /\ UNCHANGED <<phase, closing, pending, writer, disk, why, history>>
      <3>1. Item.ref \in Nat /\ Item.labels \in Labels
        BY <1>4, ItemType DEF ReplaySeries, RefSeries
      <3>2. cursor' \in [slot : Nat \ {0}, item : Nat \ {0}]
        BY <2>2 DEF NextItem
      <3>3. CASE UNCHANGED store
        BY <2>2, <3>2, <3>3
      <3>4. CASE /\ Item.ref # 0
                 /\ by_labels' = [by_labels EXCEPT ![Item.labels] = Item.ref]
                 /\ by_ref' = WithSeries(Item.ref, Item.labels)
                 /\ next_ref' = IF Item.ref + 1 > next_ref THEN Item.ref + 1 ELSE next_ref
        <4>1. by_ref' \in Seq(MemSeries)
          BY <3>1, <3>4, WithSeriesShape
        <4>2. by_labels' \in [Labels -> Nat]
          BY <3>1, <3>4, SMTT(30)
        <4>3. next_ref' \in Nat \ {0}
          BY <3>1, <3>4, SMTT(30)
        <4> QED
          BY <2>2, <3>2, <4>1, <4>2, <4>3
      <3> QED
        BY <2>2, <3>3, <3>4 DEF insert_with_ref, InsertRefused
    <2> QED
      BY <1>4, <2>1, <2>2 DEF ReplaySeries
  <1>5. CASE ReplaySample
    <2>1. CASE ReplayFails("UnknownRef")
      BY <1>2, <2>1
    <2>2. CASE ReplayFails("OutOfOrder")
      BY <1>2, <2>2
    <2>3. CASE /\ by_ref' = Appended(by_ref, Item.ref, Item.t, Item.v)
               /\ NextItem
               /\ UNCHANGED <<phase, closing, by_labels, next_ref, pending, writer, disk,
                              why, history>>
      <3>1. Item.ref \in Nat /\ Item.t \in Times /\ Item.v \in Values
        BY <1>5, ItemType DEF ReplaySample, RefSample
      <3>2. by_ref' \in Seq(MemSeries)
        BY <2>3, <3>1, AppendedShape
      <3>3. cursor' \in [slot : Nat \ {0}, item : Nat \ {0}]
        BY <2>3 DEF NextItem
      <3> QED
        BY <2>3, <3>2, <3>3
    <2> QED
      BY <1>5, <2>1, <2>2, <2>3 DEF ReplaySample
  <1>6. CASE ReplayNext
    BY <1>6 DEF ReplayNext
  <1>7. CASE ReplayCorrupt
    BY <1>2, <1>7 DEF ReplayCorrupt
  <1>8. CASE OpenFails
    BY <1>1, <1>8 DEF OpenFails, Fault
  <1>9. CASE ReplayDone
    BY <1>9 DEF ReplayDone, AtStart
  <1> QED
    BY <1>3, <1>4, <1>5, <1>6, <1>7, <1>8, <1>9 DEF Replay

(* The initial state is well typed. *)
LEMMA InitType ==
    ASSUME Init
    PROVE  TypeOK
  <1>1. /\ <<>> \in Seq(Records) /\ <<>> \in Seq(RefSeries) /\ <<>> \in Seq(RefSample)
        /\ <<>> \in Seq(MemSeries) /\ <<>> \in Seq(Slots)
    BY EmptySeq
  <1>2. /\ closing \in BOOLEAN /\ fd \in BOOLEAN /\ skewed \in BOOLEAN
        /\ rollFailed \in BOOLEAN /\ powerLost \in BOOLEAN
    BY DEF Init
  <1>3. /\ by_ref \in Seq(MemSeries) /\ pending_series \in Seq(RefSeries)
        /\ pending_samples \in Seq(RefSample) /\ wal \in Seq(Slots)
        /\ unflushed \in Seq(Records)
    BY <1>1 DEF Init
  <1>4. /\ by_labels \in [Labels -> Nat] /\ next_ref \in Nat \ {0}
        /\ nseg \in Nat /\ faults \in Nat /\ crashes \in Nat
        /\ cursor \in [slot : Nat \ {0}, item : Nat \ {0}]
    BY DEF Init, AtStart
  <1>5. phase \in Phases /\ why \in Reasons /\ mine = {} /\ acked = {}
    BY DEF Init, Phases, Reasons
  <1> QED
    BY <1>2, <1>3, <1>4, <1>5 DEF TypeOK

(* Every step preserves the types. *)
LEMMA NextType ==
    ASSUME TypeOK, [Next]_vars
    PROVE  TypeOK'
  <1>1. ASSUME NEW l \in Labels, NEW t \in Times, NEW v \in Values, append(l, t, v)
        PROVE  TypeOK'
    BY <1>1, AppendType
  <1>2. CASE commit
    BY <1>2 DEF commit, TypeOK, store, pending, writer, disk, history, Phases
  <1>3. CASE UNCHANGED vars
    BY <1>3 DEF TypeOK, vars, store, pending, writer, disk, history
  <1> QED
    BY <1>1, <1>2, <1>3, WalStepType, EndType, OpenType DEF Next

(* Every variable keeps the type of the C++ member it stands for. *)
THEOREM TypeCorrect == Spec => []TypeOK
  BY InitType, NextType, PTL DEF Spec

-----------------------------------------------------------------------------
(* One binding of refs to label sets, in memory and in the log.            *)

\* LogConsistent, SegmentsInOrder and the first part of MemoryCovers, for
\* any contents w of the log.
ConsistentLog(w) ==
    \A i \in 1..Len(w), j \in 1..Len(w) :
        w[i].type = "Series" /\ w[j].type = "Series" =>
            \A k \in DOMAIN w[i].items, m \in DOMAIN w[j].items :
                /\ w[i].items[k].ref # 0
                /\ w[i].items[k].ref = w[j].items[m].ref
                      <=> w[i].items[k].labels = w[j].items[m].labels

OrderedLog(w, n) ==
    \A i \in 1..Len(w) :
        w[i].seg <= n /\ \A j \in 1..Len(w) : i < j => w[i].seg <= w[j].seg

BoundLog(w) == \A i \in 1..Len(w) : w[i].type = "Series" => AllBound(w[i].items)

(* The items of a Series record pair refs with label sets. *)
LEMMA SeriesItems ==
    ASSUME NEW w \in Seq(Slots), NEW i \in 1..Len(w), w[i].type = "Series"
    PROVE  /\ w[i].items \in Seq(RefSeries)
           /\ \A k \in DOMAIN w[i].items :
                 w[i].items[k].ref \in Nat /\ w[i].items[k].labels \in Labels
  <1>1. w[i] \in Slots
    BY ElementOfSeq
  <1>2. w[i].items \in Seq(RefSeries)
    BY <1>1 DEF Slots
  <1>3. \A k \in DOMAIN w[i].items : w[i].items[k] \in RefSeries
    BY <1>2, LenProperties, ElementOfSeq
  <1> QED
    BY <1>2, <1>3 DEF RefSeries

(* The three parts of the invariant in terms of the definitions above. *)
LEMMA LogForms ==
    ASSUME wal \in Seq(Slots)
    PROVE  /\ LogConsistent <=> ConsistentLog(wal)
           /\ SegmentsInOrder <=> OrderedLog(wal, nseg)
           /\ BoundLog(wal) <=> \A i \in DOMAIN wal : IsSeries(i) => AllBound(wal[i].items)
  <1>1. DOMAIN wal = 1..Len(wal)
    BY LenProperties
  <1>2. LogConsistent <=> ConsistentLog(wal)
    BY <1>1 DEF LogConsistent, ConsistentLog, IsSeries
  <1>3. SegmentsInOrder <=> OrderedLog(wal, nseg)
    BY <1>1 DEF SegmentsInOrder, OrderedLog
  <1> QED
    BY <1>1, <1>2, <1>3 DEF BoundLog, IsSeries

(* A log whose bindings are all in the store is consistent, because the store is. *)
LEMMA BoundIsConsistent ==
    ASSUME TypeOK, StoreOK, NEW w \in Seq(Slots), BoundLog(w)
    PROVE  ConsistentLog(w)
  <1> SUFFICES ASSUME NEW i \in 1..Len(w), NEW j \in 1..Len(w),
                      w[i].type = "Series", w[j].type = "Series",
                      NEW k \in DOMAIN w[i].items, NEW m \in DOMAIN w[j].items
               PROVE  /\ w[i].items[k].ref # 0
                      /\ w[i].items[k].ref = w[j].items[m].ref
                            <=> w[i].items[k].labels = w[j].items[m].labels
    BY DEF ConsistentLog
  <1>1. Bound(w[i].items[k]) /\ Bound(w[j].items[m])
    BY DEF BoundLog, AllBound
  <1>2. w[i].items[k].labels \in Labels /\ w[j].items[m].labels \in Labels
    BY SeriesItems
  <1> QED
    BY <1>1, <1>2 DEF Bound, StoreOK

(* A write of bound records to the open segment keeps the log bound and ordered. *)
LEMMA WriteKeepsLog ==
    ASSUME TypeOK, StoreOK, BoundLog(wal), OrderedLog(wal, nseg),
           NEW recs \in Seq(Records),
           \A k \in 1..Len(recs) : recs[k].type = "Series" => AllBound(recs[k].items),
           NEW w \in Flushed(recs) \cup Cuttings(recs)
    PROVE  /\ BoundLog(w) /\ ConsistentLog(w) /\ OrderedLog(w, nseg)
           /\ BoundLog(Synced(w)) /\ ConsistentLog(Synced(w)) /\ OrderedLog(Synced(w), nseg)
  <1>1. Extended(w, recs)
    BY FlushExtends
  <1>2. w \in Seq(Slots) /\ Len(w) \in Nat /\ Len(wal) \in Nat /\ Len(w) >= Len(wal)
    BY <1>1, LenProperties DEF Extended, TypeOK
  <1>3. BoundLog(w)
    <2> SUFFICES ASSUME NEW i \in 1..Len(w), w[i].type = "Series"
                 PROVE  AllBound(w[i].items)
      BY DEF BoundLog
    <2>1. CASE i \in 1..Len(wal)
      BY <1>1, <2>1 DEF Extended, BoundLog
    <2>2. CASE i \in Len(wal) + 1..Len(w)
      BY <1>1, <2>2 DEF Extended
    <2> QED
      BY <1>2, <2>1, <2>2
  <1>4. OrderedLog(w, nseg)
    <2> SUFFICES ASSUME NEW i \in 1..Len(w)
                 PROVE  /\ w[i].seg <= nseg
                        /\ \A j \in 1..Len(w) : i < j => w[i].seg <= w[j].seg
      BY DEF OrderedLog
    <2>1. \A j \in 1..Len(w) : j \in 1..Len(wal) \/ j \in Len(wal) + 1..Len(w)
      BY <1>2
    <2>2. \A j \in 1..Len(w) : w[j].seg <= nseg /\ w[j].seg \in Nat
      <3>1. \A j \in 1..Len(w) : w[j].seg \in Nat
        BY <1>2, ElementOfSeq DEF Slots
      <3>2. nseg \in Nat
        BY DEF TypeOK
      <3> QED
        BY <1>1, <2>1, <3>1, <3>2 DEF Extended, OrderedLog
    <2>3. ASSUME NEW j \in 1..Len(w), i < j
          PROVE  w[i].seg <= w[j].seg
      <3>1. CASE j \in 1..Len(wal)
        <4>1. i \in 1..Len(wal)
          BY <1>2, <2>3, <3>1
        <4> QED
          BY <1>1, <2>3, <3>1, <4>1 DEF Extended, OrderedLog
      <3>2. CASE j \in Len(wal) + 1..Len(w)
        BY <1>1, <2>2, <3>2 DEF Extended
      <3> QED
        BY <2>1, <3>1, <3>2
    <2> QED
      BY <2>2, <2>3
  <1>5. SameSlots(w, Synced(w))
    BY <1>2, SyncedSame
  <1>6. Synced(w) \in Seq(Slots) /\ BoundLog(Synced(w)) /\ OrderedLog(Synced(w), nseg)
    BY <1>3, <1>4, <1>5 DEF SameSlots, BoundLog, OrderedLog
  <1> QED
    BY <1>2, <1>3, <1>4, <1>6, BoundIsConsistent

\* The Series records among recs are in the store.
BoundRecs(recs) ==
    \A k \in 1..Len(recs) : recs[k].type = "Series" => AllBound(recs[k].items)

(* The segments of a log in order stay in order when the last one is newer. *)
LEMMA OrderedMonotone ==
    ASSUME NEW w \in Seq(Slots), NEW n \in Nat, OrderedLog(w, n)
    PROVE  OrderedLog(w, n + 1)
  <1>1. \A i \in 1..Len(w) : w[i].seg \in Nat
    BY ElementOfSeq DEF Slots
  <1> QED
    BY <1>1 DEF OrderedLog

(* The parts of the invariant that a running head has to keep. *)
LEMMA RunningMatch ==
    TypeOK /\ NoRefConflict /\ StoreOK /\ BoundLog(wal) /\ OrderedLog(wal, nseg)
      /\ BoundRecs(unflushed) /\ AllBound(pending_series) /\ phase \in Running
    => StoreMatchesLog
  <1> SUFFICES ASSUME TypeOK, NoRefConflict, StoreOK, BoundLog(wal), OrderedLog(wal, nseg),
                      BoundRecs(unflushed), AllBound(pending_series), phase \in Running
               PROVE  StoreMatchesLog
    OBVIOUS
  <1>1. wal \in Seq(Slots) /\ unflushed \in Seq(Records)
    BY DEF TypeOK
  <1>2. LogConsistent /\ SegmentsInOrder
    BY <1>1, LogForms, BoundIsConsistent
  <1>3. MemoryCovers
    BY <1>1, LogForms, LenProperties DEF MemoryCovers, BoundRecs
  <1>4. ReplayCovers /\ NothingPending
    BY DEF ReplayCovers, NothingPending, Running, Logging
  <1> QED
    BY <1>2, <1>3, <1>4 DEF StoreMatchesLog

(* What a running head knows of its log and of the records it frames. *)
LEMMA RunningFacts ==
    ASSUME TypeOK, StoreMatchesLog, phase \in Running
    PROVE  /\ BoundLog(wal) /\ OrderedLog(wal, nseg)
           /\ BoundRecs(unflushed) /\ BoundRecs(Append(unflushed, Rec))
           /\ AllBound(pending_series) /\ BoundRecs(<<>>)
  <1>1. BoundLog(wal) /\ OrderedLog(wal, nseg)
    BY LogForms DEF TypeOK, StoreMatchesLog, MemoryCovers
  <1>2. BoundRecs(unflushed)
    BY LenProperties DEF BoundRecs, TypeOK, StoreMatchesLog, MemoryCovers
  <1>3. AllBound(pending_series)
    BY DEF StoreMatchesLog, MemoryCovers
  <1>4. Rec.type = "Series" => AllBound(Rec.items)
    BY <1>3 DEF Rec
  <1>5. BoundRecs(Append(unflushed, Rec))
    <2>1. /\ Len(Append(unflushed, Rec)) = Len(unflushed) + 1
          /\ \A i \in 1..Len(unflushed) : Append(unflushed, Rec)[i] = unflushed[i]
          /\ Append(unflushed, Rec)[Len(unflushed) + 1] = Rec
          /\ Len(unflushed) \in Nat
      BY RecType, AppendProperties, LenProperties
    <2>2. \A k \in 1..Len(unflushed) + 1 : k \in 1..Len(unflushed) \/ k = Len(unflushed) + 1
      BY <2>1
    <2> QED
      BY <1>2, <1>4, <2>1, <2>2 DEF BoundRecs
  <1>6. BoundRecs(<<>>)
    BY EmptySeq DEF BoundRecs
  <1> QED
    BY <1>1, <1>2, <1>3, <1>5, <1>6

(* The steps of commit() and close() keep memory and log in agreement. *)
LEMMA WalStepKeepsMatch ==
    ASSUME TypeOK, StoreMatchesLog, WalStep
    PROVE  StoreMatchesLog'
  <1> DEFINE GoodLog(w) == BoundLog(w) /\ ConsistentLog(w) /\ OrderedLog(w, nseg)
  <1>1. phase \in Running
    BY DEF WalStep, LogOk, LogNowhere, LogFails, CutOk, CutNowhere, CutSyncFails,
           CutOpenFails, Cutting, SyncOk, SyncFails, Running, Logging
  <1>2. /\ BoundLog(wal) /\ OrderedLog(wal, nseg)
        /\ BoundRecs(unflushed) /\ BoundRecs(Append(unflushed, Rec))
        /\ AllBound(pending_series) /\ BoundRecs(<<>>)
    BY <1>1, RunningFacts
  <1>3. ASSUME NEW recs \in {unflushed, Append(unflushed, Rec)},
               NEW w \in Flushed(recs) \cup Cuttings(recs)
        PROVE  GoodLog(w) /\ GoodLog(Synced(w))
    BY <1>2, RecType, WriteKeepsLog DEF BoundRecs, StoreMatchesLog
  <1>4. wal \in Cuttings(unflushed)
    BY DEF Cuttings
  <1>5. GoodLog(wal) /\ GoodLog(Synced(wal))
    BY <1>3, <1>4
  <1> HIDE DEF GoodLog
  <1>6. /\ UNCHANGED <<by_labels, by_ref, next_ref, why>>
        /\ phase' \in Running
        /\ nseg' \in {nseg, nseg + 1}
        /\ GoodLog(wal')
        /\ BoundRecs(unflushed')
        /\ pending_series' \in {pending_series, <<>>}
    <2> USE DEF Running, Logging, CommitError, store, pending, writer, disk, history
    <2>1. CASE LogOk
      BY <1>2, <1>3, <2>1 DEF LogOk, Logged
    <2>2. CASE LogNowhere
      BY <1>2, <1>5, <2>2 DEF LogNowhere, Logged
    <2>3. CASE LogFails
      BY <1>2, <1>3, <2>3 DEF LogFails, FlushFails
    <2>4. CASE CutOk
      BY <1>2, <1>3, <2>4 DEF CutOk, Cutting
    <2>5. CASE CutNowhere
      BY <1>2, <1>5, <2>5 DEF CutNowhere
    <2>6. CASE CutSyncFails
      <3>1. wal' \in Flushed(unflushed) \cup Cuttings(unflushed)
        BY <2>6 DEF CutSyncFails, FlushFails
      <3>2. unflushed' = unflushed \/ unflushed' = <<>>
        BY <2>6 DEF CutSyncFails, FlushFails
      <3> QED
        BY <1>2, <1>3, <2>6, <3>1, <3>2 DEF CutSyncFails
    <2>7. CASE CutOpenFails
      BY <1>2, <1>3, <2>7 DEF CutOpenFails
    <2>8. CASE SyncOk
      BY <1>2, <1>5, <2>8 DEF SyncOk
    <2>9. CASE SyncFails
      BY <1>2, <1>5, <2>9 DEF SyncFails
    <2> QED
      BY <2>1, <2>2, <2>3, <2>4, <2>5, <2>6, <2>7, <2>8, <2>9 DEF WalStep
  <1>7. TypeOK'
    BY WalStepType
  <1>8. NoRefConflict' /\ StoreOK'
    BY <1>6 DEF StoreMatchesLog, NoRefConflict, StoreOK
  <1>9. BoundLog(wal)' /\ BoundRecs(unflushed)' /\ AllBound(pending_series)'
    <2>1. BoundLog(wal') /\ BoundRecs(unflushed') /\ AllBound(pending_series')
      BY <1>2, <1>6 DEF GoodLog, AllBound
    <2> QED
      BY <1>6, <2>1 DEF BoundLog, BoundRecs, AllBound, Bound
  <1>10. OrderedLog(wal', nseg')
    <2>1. OrderedLog(wal', nseg)
      BY <1>6, Zenon DEF GoodLog
    <2>2. wal' \in Seq(Slots) /\ nseg \in Nat
      BY <1>7 DEF TypeOK
    <2>3. OrderedLog(wal', nseg + 1)
      BY <2>1, <2>2, OrderedMonotone, Zenon
    <2>4. nseg' = nseg \/ nseg' = nseg + 1
      BY <1>6
    <2> QED
      BY <2>1, <2>3, <2>4
  <1>11. (TypeOK /\ NoRefConflict /\ StoreOK /\ BoundLog(wal) /\ OrderedLog(wal, nseg)
            /\ BoundRecs(unflushed) /\ AllBound(pending_series) /\ phase \in Running
          => StoreMatchesLog)'
    BY RunningMatch, PTL
  <1> QED
    BY <1>6, <1>7, <1>8, <1>9, <1>10, <1>11

\* The store after the step binds the labels of x to the ref of x.
BoundNext(x) == x.ref # 0 /\ by_labels'[x.labels] = x.ref

(* append binds a fresh label set to a ref that nothing uses. *)
LEMMA AppendKeepsMatch ==
    ASSUME TypeOK, StoreMatchesLog,
           NEW l \in Labels, NEW t \in Times, NEW v \in Values, append(l, t, v)
    PROVE  StoreMatchesLog'
  <1> DEFINE fresh == by_labels[l] = 0
             ref   == IF fresh THEN next_ref ELSE by_labels[l]
             refs  == IF fresh THEN WithSeries(ref, l) ELSE by_ref
  <1>1. phase \in Running /\ phase' \in Running
    BY DEF append, Running, Logging
  <1>2. /\ BoundLog(wal) /\ OrderedLog(wal, nseg)
        /\ BoundRecs(unflushed) /\ AllBound(pending_series)
    BY <1>1, RunningFacts
  <1>3. ref \in Nat \ {0} /\ refs \in Seq(MemSeries)
    BY WithSeriesShape DEF TypeOK
  <1>4. /\ Len(Appended(refs, ref, t, v)) = Len(refs)
        /\ \A i \in 1..Len(refs) : Appended(refs, ref, t, v)[i].labels = refs[i].labels
    BY <1>3, AppendedShape, SMTT(30)
  <1>5. Len(by_ref) \in Nat /\ next_ref \in Nat \ {0} /\ by_labels \in [Labels -> Nat]
    BY LenProperties DEF TypeOK
  <1> HIDE DEF ref, refs
  <1>6. /\ by_labels' = [by_labels EXCEPT ![l] = ref]
        /\ by_ref' = Appended(refs, ref, t, v)
        /\ next_ref' = IF fresh THEN next_ref + 1 ELSE next_ref
        /\ pending_series' = IF fresh
              THEN Append(pending_series, [ref |-> ref, labels |-> l]) ELSE pending_series
        /\ UNCHANGED <<wal, nseg, unflushed, why>>
    BY DEF append, ref, refs, disk, writer
  <1>7. StoreOK'
    <2>1. CASE ~fresh
      <3>1. ref = by_labels[l] /\ refs = by_ref
        BY <2>1 DEF ref, refs
      <3>2. by_labels' = by_labels /\ next_ref' = next_ref /\ Len(by_ref') = Len(by_ref)
        BY <1>4, <1>5, <1>6, <2>1, <3>1
      <3>3. \A i \in 1..Len(by_ref) : by_ref'[i].labels = by_ref[i].labels
        BY <1>4, <1>6, <3>1
      <3> QED
        BY <3>2, <3>3 DEF StoreMatchesLog, StoreOK
    <2>2. CASE fresh
      <3>1. ref = next_ref /\ refs = WithSeries(ref, l)
        BY <2>2 DEF ref, refs
      <3>2. Len(by_ref) < ref
        BY <3>1 DEF StoreMatchesLog, StoreOK
      <3>3. /\ Len(by_ref') = ref /\ next_ref' = ref + 1
            /\ by_ref'[ref].labels = l
            /\ \A i \in 1..ref : i # ref =>
                  by_ref'[i].labels = IF i <= Len(by_ref) THEN by_ref[i].labels ELSE NoLabels
        <4>1. /\ Len(refs) = ref /\ refs[ref].labels = l
              /\ \A i \in 1..ref : i # ref =>
                    refs[i] = IF i <= Len(by_ref) THEN by_ref[i] ELSE NoSeries
          <5> DEFINE ws == WithSeries(ref, l)
          <5>1. /\ Len(ws) = IF ref > Len(by_ref) THEN ref ELSE Len(by_ref)
                /\ ws[ref] = [labels |-> l, samples |-> <<>>]
                /\ \A i \in 1..Len(ws) : i # ref =>
                      ws[i] = IF i <= Len(by_ref) THEN by_ref[i] ELSE NoSeries
            BY <1>3, WithSeriesShape
          <5> HIDE DEF ws
          <5>2. Len(ws) = ref
            BY <1>3, <1>5, <3>2, <5>1
          <5>3. refs = ws
            BY <3>1 DEF ws
          <5> QED
            BY <5>1, <5>2, <5>3
        <4>2. ref \in 1..ref
          BY <1>3
        <4>3. Len(by_ref') = ref /\ \A i \in 1..ref : by_ref'[i].labels = refs[i].labels
          BY <1>4, <1>6, <4>1
        <4>4. next_ref' = ref + 1
          BY <1>6, <2>2, <3>1
        <4>5. NoSeries.labels = NoLabels
          BY DEF NoSeries
        <4> QED
          BY <4>1, <4>2, <4>3, <4>4, <4>5
      <3>4. ASSUME NEW x \in Labels, by_labels'[x] # 0
            PROVE  by_labels'[x] \in 1..Len(by_ref') /\ by_ref'[by_labels'[x]].labels = x
        <4>1. CASE x = l
          BY <1>3, <1>5, <1>6, <3>3, <4>1
        <4>2. CASE x # l
          <5>1. by_labels'[x] = by_labels[x]
            BY <1>5, <1>6, <4>2
          <5>2. by_labels[x] \in 1..Len(by_ref) /\ by_ref[by_labels[x]].labels = x
            BY <3>4, <5>1 DEF StoreMatchesLog, StoreOK
          <5> QED
            BY <1>3, <1>5, <3>2, <3>3, <5>1, <5>2
        <4> QED
          BY <4>1, <4>2
      <3>5. ASSUME NEW r \in 1..Len(by_ref'), by_ref'[r].labels # NoLabels
            PROVE  by_labels'[by_ref'[r].labels] = r
        <4>1. CASE r = ref
          BY <1>5, <1>6, <3>3, <4>1
        <4>2. CASE r # ref
          <5>1. r \in 1..Len(by_ref) /\ by_ref'[r].labels = by_ref[r].labels
            BY <1>3, <1>5, <3>3, <3>5, <4>2
          <5>2. by_labels[by_ref[r].labels] = r /\ r # 0
            BY <1>5, <3>5, <5>1 DEF StoreMatchesLog, StoreOK
          <5>3. by_ref[r].labels \in Labels
            <6>1. by_ref[r] \in MemSeries
              BY <5>1, ElementOfSeq DEF TypeOK
            <6> QED
              BY <3>5, <5>1, <6>1 DEF MemSeries
          <5> QED
            BY <1>5, <1>6, <2>2, <5>1, <5>2, <5>3
        <4> QED
          BY <4>1, <4>2
      <3> QED
        BY <1>3, <3>3, <3>4, <3>5 DEF StoreOK
    <2> QED
      BY <2>1, <2>2
  <1>8. \A x : Bound(x) /\ x.labels \in Labels => BoundNext(x)
    BY <1>5, <1>6 DEF Bound, BoundNext, ref
  <1>9. BoundLog(wal)' /\ BoundRecs(unflushed)'
    <2>1. wal \in Seq(Slots) /\ unflushed \in Seq(Records)
      BY DEF TypeOK
    <2>2. BoundLog(wal)'
      BY <1>2, <1>6, <1>8, <2>1, SeriesItems DEF BoundLog, AllBound, Bound, BoundNext
    <2>3. ASSUME NEW k \in 1..Len(unflushed), unflushed[k].type = "Series",
                 NEW m \in DOMAIN unflushed[k].items
          PROVE  unflushed[k].items[m].labels \in Labels
      <3>1. unflushed[k].items \in Seq(RefSeries)
        BY <2>1, <2>3, ElementOfSeq DEF Records
      <3> QED
        <4>1. unflushed[k].items[m] \in RefSeries
          BY <2>3, <3>1, LenProperties, ElementOfSeq
        <4> QED
          BY <4>1 DEF RefSeries
    <2> QED
      BY <1>2, <1>6, <1>8, <2>2, <2>3 DEF BoundRecs, AllBound, Bound, BoundNext
  <1>10. AllBound(pending_series)'
    <2>1. pending_series \in Seq(RefSeries) /\ DOMAIN pending_series = 1..Len(pending_series)
          /\ Len(pending_series) \in Nat
      BY LenProperties DEF TypeOK
    <2>2. \A k \in DOMAIN pending_series : BoundNext(pending_series[k])
      <3>1. \A k \in DOMAIN pending_series : pending_series[k] \in RefSeries
        BY <2>1, ElementOfSeq
      <3> QED
        BY <1>2, <1>8, <3>1 DEF AllBound, RefSeries
    <2>3. CASE ~fresh
      BY <1>6, <2>2, <2>3 DEF AllBound, Bound, BoundNext
    <2>4. CASE fresh
      <3> DEFINE b == [ref |-> ref, labels |-> l]
      <3>1. b \in RefSeries
        BY <1>3 DEF RefSeries
      <3>2. BoundNext(b)
        BY <1>3, <1>5, <1>6 DEF BoundNext
      <3> HIDE DEF b
      <3>3. pending_series' = Append(pending_series, b)
        BY <1>6, <2>4 DEF b
      <3>4. /\ DOMAIN pending_series' = 1..Len(pending_series) + 1
            /\ \A k \in 1..Len(pending_series) : pending_series'[k] = pending_series[k]
            /\ pending_series'[Len(pending_series) + 1] = b
        BY <2>1, <3>1, <3>3, AppendProperties, LenProperties
      <3>5. \A k \in 1..Len(pending_series) + 1 :
              k \in 1..Len(pending_series) \/ k = Len(pending_series) + 1
        BY <2>1
      <3>6. \A k \in DOMAIN pending_series' : BoundNext(pending_series'[k])
        BY <2>1, <2>2, <3>2, <3>4, <3>5
      <3> QED
        BY <3>6 DEF AllBound, Bound, BoundNext
    <2> QED
      BY <2>3, <2>4
  <1>11. TypeOK' /\ NoRefConflict' /\ OrderedLog(wal, nseg)'
    BY <1>2, <1>6, AppendType DEF StoreMatchesLog, NoRefConflict, OrderedLog
  <1>12. (TypeOK /\ NoRefConflict /\ StoreOK /\ BoundLog(wal) /\ OrderedLog(wal, nseg)
            /\ BoundRecs(unflushed) /\ AllBound(pending_series) /\ phase \in Running
          => StoreMatchesLog)'
    BY RunningMatch, PTL
  <1> QED
    BY <1>1, <1>7, <1>9, <1>10, <1>11, <1>12

(* An empty store is consistent (EmptyStore). *)
LEMMA EmptyStoreOK ==
    ASSUME EmptyStore
    PROVE  StoreOK'
  <1>1. Len(<<>>) = 0
    BY EmptySeq
  <1>2. by_ref' = <<>> /\ next_ref' = 1 /\ by_labels' = [l \in Labels |-> 0]
    BY DEF EmptyStore
  <1>3. Len(by_ref') = 0
    BY <1>1, <1>2
  <1> QED
    BY <1>2, <1>3 DEF StoreOK

(* The parts of the invariant that matter while no head is open. *)
LEMMA IdleMatch ==
    NoRefConflict /\ StoreOK /\ LogConsistent /\ SegmentsInOrder
      /\ pending_series = <<>> /\ unflushed = <<>> /\ phase \in {"down", "failed"}
    => StoreMatchesLog
  BY DEF StoreMatchesLog, MemoryCovers, ReplayCovers, NothingPending, Running, Logging

(* The end of a process, and a power loss, keep the log consistent. *)
LEMMA EndKeepsMatch ==
    ASSUME TypeOK, StoreMatchesLog, Destroy \/ DestroyFails \/ Crash \/ PowerLoss
    PROVE  StoreMatchesLog'
  <1>0. TypeOK'
    BY EndType
  <1>1. wal \in Seq(Slots) /\ wal' \in Seq(Slots) /\ nseg \in Nat
    BY <1>0 DEF TypeOK
  <1>2. ConsistentLog(wal) /\ OrderedLog(wal, nseg)
    BY <1>1, LogForms DEF StoreMatchesLog
  <1>3. ASSUME phase \in Running,
               NEW recs \in {unflushed, Append(unflushed, Rec)},
               NEW w \in Flushed(recs) \cup Cuttings(recs)
        PROVE  /\ ConsistentLog(w) /\ OrderedLog(w, nseg)
               /\ ConsistentLog(Synced(w)) /\ OrderedLog(Synced(w), nseg)
    BY <1>3, RunningFacts, RecType, WriteKeepsLog DEF BoundRecs, StoreMatchesLog
  <1>4. (wal \in Seq(Slots) =>
          /\ LogConsistent <=> ConsistentLog(wal)
          /\ SegmentsInOrder <=> OrderedLog(wal, nseg))'
    BY LogForms, PTL
  <1>5. (NoRefConflict /\ StoreOK /\ LogConsistent /\ SegmentsInOrder
           /\ pending_series = <<>> /\ unflushed = <<>> /\ phase \in {"down", "failed"}
         => StoreMatchesLog)'
    BY IdleMatch, PTL
  <1>6. ASSUME Gone, ConsistentLog(wal'), OrderedLog(wal', nseg)
        PROVE  StoreMatchesLog'
    BY <1>1, <1>4, <1>5, <1>6, EmptyStoreOK DEF Gone, StoreMatchesLog, NoRefConflict
  <1>7. CASE Destroy
    <2>1. phase \in Running
      BY <1>7 DEF Destroy, Running
    <2>2. ConsistentLog(wal') /\ OrderedLog(wal', nseg)
      BY <1>2, <1>3, <1>7, <2>1 DEF Destroy
    <2> QED
      BY <1>6, <1>7, <2>2 DEF Destroy
  <1>8. CASE DestroyFails
    <2>1. phase \in Running
      BY <1>8 DEF DestroyFails, Running
    <2>2. ConsistentLog(wal') /\ OrderedLog(wal', nseg)
      BY <1>3, <1>8, <2>1 DEF DestroyFails
    <2> QED
      BY <1>6, <1>8, <2>2 DEF DestroyFails
  <1>9. CASE Crash
    <2>1. \/ wal' = wal
          \/ phase \in Running /\ wal' \in Cuttings(Append(unflushed, Rec))
      BY <1>9 DEF Crash, Running
    <2>2. ConsistentLog(wal') /\ OrderedLog(wal', nseg)
      BY <1>2, <1>3, <2>1
    <2> QED
      BY <1>6, <1>9, <2>2 DEF Crash
  <1>10. CASE PowerLoss
    <2>1. PICK lost \in SUBSET {i \in DOMAIN wal : ~wal[i].durable} :
            \E type \in [lost -> {"Lost", "Torn", "Bad"}] :
               wal' = [i \in DOMAIN wal |->
                [seg |-> wal[i].seg, durable |-> TRUE,
                 type |-> IF i \in lost THEN type[i] ELSE wal[i].type,
                 items |-> IF i \in lost THEN <<>> ELSE wal[i].items]]
      BY <1>10 DEF PowerLoss
    <2>2. DOMAIN wal = 1..Len(wal) /\ DOMAIN wal' = 1..Len(wal') /\ Len(wal) \in Nat /\ Len(wal') \in Nat
      BY <1>1, LenProperties
    <2>3. DOMAIN wal' = DOMAIN wal
      BY <2>1
    <2>4. Len(wal') = Len(wal)
      BY <2>2, <2>3, SameInterval
    <2>5. \A i \in 1..Len(wal) :
            /\ wal'[i].seg = wal[i].seg
            /\ wal'[i].type = "Series" => wal[i].type = "Series" /\ wal'[i].items = wal[i].items
      BY <2>1, <2>2
    <2>6. ConsistentLog(wal') /\ OrderedLog(wal', nseg)
      BY <1>2, <2>4, <2>5 DEF ConsistentLog, OrderedLog
    <2>7. UNCHANGED <<phase, by_labels, by_ref, next_ref, pending_series, unflushed, nseg, why>>
          /\ phase = "down"
      BY <1>10 DEF PowerLoss, store, pending, writer
    <2>8. NoRefConflict' /\ StoreOK' /\ pending_series' = <<>> /\ unflushed' = <<>>
      BY <2>7 DEF StoreMatchesLog, NoRefConflict, StoreOK, NothingPending, Running, Logging
    <2> QED
      BY <1>1, <1>4, <1>5, <2>6, <2>7, <2>8
  <1> QED
    BY <1>7, <1>8, <1>9, <1>10

(* A replay meets no Series record that insert_with_ref refuses. *)
LEMMA ReplayAccepts ==
    ASSUME TypeOK, StoreMatchesLog, AtItem("Series")
    PROVE  ~InsertRefused(Item.ref, Item.labels)
  <1> DEFINE s == cursor.slot
             k == cursor.item
  <1>1. /\ wal \in Seq(Slots) /\ s \in 1..Len(wal) /\ wal[s].type = "Series"
        /\ phase = "replay"
    BY LenProperties DEF TypeOK, AtItem, Cur
  <1>2. wal[s].items \in Seq(RefSeries)
    BY <1>1, SeriesItems
  <1>3. k \in DOMAIN wal[s].items /\ Item = wal[s].items[k]
    BY <1>2, LenProperties DEF TypeOK, AtItem, Cur, Item
  <1>4. Item.ref \in Nat /\ Item.labels \in Labels
    BY <1>1, <1>3, SeriesItems
  <1>5. ConsistentLog(wal)
    BY <1>1, LogForms DEF StoreMatchesLog
  <1>6. DOMAIN wal = 1..Len(wal)
    BY <1>1, LenProperties
  <1>7. ASSUME NEW l \in Labels, by_labels[l] # 0
        PROVE  /\ Item.ref # 0
               /\ Item.ref = by_labels[l] <=> Item.labels = l
    <2>1. PICK j \in 1..Len(wal) : wal[j].type = "Series" /\
             \E m \in DOMAIN wal[j].items : wal[j].items[m] = [ref |-> by_labels[l], labels |-> l]
      BY <1>1, <1>6, <1>7 DEF StoreMatchesLog, ReplayCovers, IsSeries
    <2>2. PICK m \in DOMAIN wal[j].items : wal[j].items[m] = [ref |-> by_labels[l], labels |-> l]
      BY <2>1
    <2> QED
      BY <1>1, <1>3, <1>5, <2>1, <2>2 DEF ConsistentLog
  <1>8. Item.ref # 0
    BY <1>1, <1>3, <1>5 DEF ConsistentLog
  <1>9. ASSUME RefTaken(Item.ref)
        PROVE  by_ref[Item.ref].labels = Item.labels
    <2>1. by_ref[Item.ref] \in MemSeries
      BY <1>9, ElementOfSeq DEF RefTaken, TypeOK
    <2>2. by_ref[Item.ref].labels \in Labels
      BY <1>9, <2>1 DEF RefTaken, MemSeries
    <2>3. by_labels[by_ref[Item.ref].labels] = Item.ref
      BY <1>9 DEF RefTaken, StoreMatchesLog, StoreOK
    <2> QED
      BY <1>7, <1>8, <2>2, <2>3
  <1>10. by_labels[Item.labels] \in {0, Item.ref}
    BY <1>4, <1>7
  <1> QED
    BY <1>8, <1>9, <1>10 DEF InsertRefused

(* insert_with_ref binds its labels, keeps the other bindings, and keeps the
   two maps of the store inverse to each other. *)
LEMMA InsertKeepsStore ==
    ASSUME TypeOK, StoreOK, NEW ref \in Nat, NEW l \in Labels, insert_with_ref(ref, l)
    PROVE  /\ StoreOK'
           /\ ref # 0
           /\ by_labels' = [by_labels EXCEPT ![l] = ref]
           /\ by_labels[l] \in {0, ref}
  <1>1. Len(by_ref) \in Nat /\ next_ref \in Nat \ {0} /\ by_labels \in [Labels -> Nat]
    BY LenProperties DEF TypeOK
  <1>2. ref # 0 /\ (RefTaken(ref) => by_ref[ref].labels = l)
        /\ (~RefTaken(ref) => by_labels[l] \in {0, ref})
    BY DEF insert_with_ref, InsertRefused
  <1>3. CASE RefTaken(ref) \/ by_labels[l] = ref
    <2>1. by_labels[l] = ref
      BY <1>2, <1>3 DEF RefTaken, StoreOK
    <2>2. UNCHANGED <<by_labels, by_ref, next_ref>>
      BY <1>3 DEF insert_with_ref, store
    <2> QED
      BY <1>1, <1>2, <2>1, <2>2 DEF StoreOK
  <1>4. CASE ~(RefTaken(ref) \/ by_labels[l] = ref)
    <2>1. /\ by_labels[l] = 0
          /\ by_labels' = [by_labels EXCEPT ![l] = ref]
          /\ by_ref' = WithSeries(ref, l)
          /\ next_ref' = IF ref + 1 > next_ref THEN ref + 1 ELSE next_ref
      BY <1>2, <1>4 DEF insert_with_ref
    <2>2. /\ Len(by_ref') = IF ref > Len(by_ref) THEN ref ELSE Len(by_ref)
          /\ by_ref'[ref] = [labels |-> l, samples |-> <<>>]
          /\ \A i \in 1..Len(by_ref') : i # ref =>
                by_ref'[i] = IF i <= Len(by_ref) THEN by_ref[i] ELSE NoSeries
      BY <1>2, <2>1, WithSeriesShape
    <2>3. Len(by_ref') < next_ref'
      BY <1>1, <2>1, <2>2 DEF StoreOK
    <2>4. ref \in 1..Len(by_ref') /\ \A i \in 1..Len(by_ref) : i \in 1..Len(by_ref')
      BY <1>1, <1>2, <2>2
    <2>5. ASSUME NEW x \in Labels, by_labels'[x] # 0
          PROVE  by_labels'[x] \in 1..Len(by_ref') /\ by_ref'[by_labels'[x]].labels = x
      <3>1. CASE x = l
        BY <1>1, <2>1, <2>2, <2>4, <3>1
      <3>2. CASE x # l
        <4>1. by_labels'[x] = by_labels[x]
          BY <1>1, <2>1, <3>2
        <4>2. by_labels[x] \in 1..Len(by_ref) /\ by_ref[by_labels[x]].labels = x
          BY <2>5, <4>1 DEF StoreOK
        <4>3. by_labels[x] # ref
          <5>1. x # NoLabels
            BY HeadConstants
          <5> QED
            BY <1>4, <4>2, <5>1 DEF RefTaken
        <4>4. by_labels[x] \in 1..Len(by_ref') /\ by_labels[x] <= Len(by_ref)
          BY <1>1, <2>4, <4>2
        <4> QED
          BY <2>2, <4>1, <4>2, <4>3, <4>4
      <3> QED
        BY <3>1, <3>2
    <2>6. ASSUME NEW r \in 1..Len(by_ref'), by_ref'[r].labels # NoLabels
          PROVE  by_labels'[by_ref'[r].labels] = r
      <3>1. CASE r = ref
        BY <1>1, <2>1, <2>2, <3>1
      <3>2. CASE r # ref
        <4>1. r \in 1..Len(by_ref) /\ by_ref'[r] = by_ref[r]
          BY <1>1, <2>2, <2>6, <3>2 DEF NoSeries
        <4>2. by_labels[by_ref[r].labels] = r /\ r # 0
          BY <1>1, <2>6, <4>1 DEF StoreOK
        <4>3. by_ref[r] \in MemSeries
          BY <4>1, ElementOfSeq DEF TypeOK
        <4>4. by_ref[r].labels \in Labels
          BY <2>6, <4>1, <4>3 DEF MemSeries
        <4> QED
          BY <1>1, <2>1, <4>1, <4>2, <4>4
      <3> QED
        BY <3>1, <3>2
    <2> QED
      BY <1>2, <2>1, <2>3, <2>5, <2>6 DEF StoreOK
  <1> QED
    BY <1>3, <1>4

(* The steps of open() keep memory and log in agreement. *)
LEMMA OpenKeepsMatch ==
    ASSUME TypeOK, StoreMatchesLog, open \/ Replay
    PROVE  StoreMatchesLog'
  <1>0. TypeOK'
    BY OpenType
  <1>1. /\ wal \in Seq(Slots) /\ nseg \in Nat /\ DOMAIN wal = 1..Len(wal) /\ Len(wal) \in Nat
        /\ cursor.slot \in Nat \ {0} /\ cursor.item \in Nat \ {0}
        /\ by_labels \in [Labels -> Nat]
    BY LenProperties DEF TypeOK
  <1>2. /\ phase \notin Running
        /\ pending_series = <<>> /\ unflushed = <<>>
        /\ LogConsistent /\ SegmentsInOrder /\ StoreOK /\ NoRefConflict
    BY DEF StoreMatchesLog, NothingPending, Running, Logging, open, Replay, ReplaySeries,
           ReplaySample, ReplayNext, ReplayCorrupt, OpenFails, ReplayDone, AtItem
  <1>3. ASSUME UNCHANGED <<wal, nseg, pending_series, unflushed>>
        PROVE  /\ LogConsistent' /\ SegmentsInOrder'
               /\ pending_series' = <<>> /\ unflushed' = <<>>
    BY <1>2, <1>3 DEF LogConsistent, SegmentsInOrder, IsSeries
  <1>4. ASSUME LogConsistent', SegmentsInOrder', pending_series' = <<>>, unflushed' = <<>>,
               NoRefConflict', StoreOK', ReplayCovers', phase' = "replay"
        PROVE  StoreMatchesLog'
    BY <1>4 DEF StoreMatchesLog, MemoryCovers, NothingPending, Running, Logging
  <1>5. ASSUME LogConsistent', SegmentsInOrder', pending_series' = <<>>, unflushed' = <<>>,
               NoRefConflict', StoreOK', phase' = "failed"
        PROVE  StoreMatchesLog'
    <2>1. (NoRefConflict /\ StoreOK /\ LogConsistent /\ SegmentsInOrder
             /\ pending_series = <<>> /\ unflushed = <<>> /\ phase \in {"down", "failed"}
           => StoreMatchesLog)'
      BY IdleMatch, PTL
    <2> QED
      BY <1>5, <2>1
  <1>6. ASSUME NEW reason, reason # "RefConflict", ReplayFails(reason)
        PROVE  StoreMatchesLog'
    <2>1. UNCHANGED <<wal, nseg, pending_series, unflushed>> /\ phase' = "failed" /\ why' # "RefConflict"
      BY <1>6 DEF ReplayFails, pending, writer, disk
    <2>2. StoreOK'
      BY <1>6, EmptyStoreOK DEF ReplayFails
    <2> QED
      BY <1>3, <1>5, <2>1, <2>2 DEF NoRefConflict
  <1>7. CASE open
    <2>1. UNCHANGED <<wal, nseg, pending_series, unflushed>> /\ phase' = "replay" /\ why' = "none"
          /\ cursor' = [slot |-> 1, item |-> 1] /\ by_labels' = [l \in Labels |-> 0]
      BY <1>7 DEF open, pending, writer, disk, EmptyStore, AtStart
    <2>2. StoreOK'
      BY <1>7, EmptyStoreOK DEF open
    <2>3. \A i \in Nat : i < 1 => i = 0
      OBVIOUS
    <2>4. ReplayCovers'
      <3>1. cursor'.slot = 1 /\ cursor'.item = 1
        BY <2>1
      <3>2. \A l \in Labels : by_labels'[l] = 0
        BY <2>1
      <3>3. \A i \in DOMAIN wal' : ~(i < cursor'.slot)
        BY <1>1, <2>1, <3>1
      <3>4. ASSUME cursor'.slot \in DOMAIN wal', IsSeries(cursor.slot)'
            PROVE  \A k \in DOMAIN (Cur.items)' : ~(k < cursor'.item)
        <4>1. wal[1].type = "Series" /\ 1 \in 1..Len(wal) /\ (Cur.items)' = wal[1].items
          BY <1>1, <2>1, <3>1, <3>4 DEF IsSeries, Cur
        <4>2. DOMAIN wal[1].items = 1..Len(wal[1].items) /\ Len(wal[1].items) \in Nat
          BY <1>1, <4>1, SeriesItems, LenProperties
        <4> QED
          BY <3>1, <4>1, <4>2
      <3> QED
        BY <3>2, <3>3, <3>4 DEF ReplayCovers
    <2> QED
      BY <1>3, <1>4, <2>1, <2>2, <2>4 DEF NoRefConflict
  <1>8. CASE ReplayNext
    <2>1. /\ UNCHANGED <<wal, nseg, pending_series, unflushed, by_labels, by_ref, next_ref, why>>
          /\ phase = "replay" /\ phase' = "replay"
          /\ cursor.slot \in 1..Len(wal)
          /\ cursor'.slot = cursor.slot + 1 /\ cursor'.item = 1
      BY <1>1, <1>8 DEF ReplayNext, pending, writer, disk, store
    <2>2. StoreOK' /\ NoRefConflict'
      BY <1>2, <2>1 DEF StoreOK, NoRefConflict
    <2>3. ReplayCovers
      BY DEF StoreMatchesLog
    <2>4. IsSeries(cursor.slot) => AllBound(wal[cursor.slot].items)
      <3> SUFFICES ASSUME IsSeries(cursor.slot) PROVE AllBound(wal[cursor.slot].items)
        OBVIOUS
      <3>1. wal[cursor.slot].items \in Seq(RefSeries)
        BY <1>1, <2>1, SeriesItems DEF IsSeries
      <3>2. \A k \in DOMAIN wal[cursor.slot].items : k < cursor.item
        <4>1. cursor.item > Len(wal[cursor.slot].items)
          BY <1>8 DEF ReplayNext, Cur
        <4> QED
          BY <1>1, <3>1, <4>1, LenProperties
      <3> QED
        BY <1>1, <2>1, <2>3, <3>2 DEF ReplayCovers, AllBound, Cur
    <2>5. \A i \in DOMAIN wal : i < cursor.slot + 1 /\ IsSeries(i) => AllBound(wal[i].items)
      <3>1. \A i \in DOMAIN wal : i < cursor.slot + 1 => i < cursor.slot \/ i = cursor.slot
        BY <1>1
      <3> QED
        BY <2>1, <2>3, <2>4, <3>1 DEF ReplayCovers
    <2>6. ASSUME cursor'.slot \in DOMAIN wal', IsSeries(cursor.slot)'
          PROVE  \A k \in DOMAIN (Cur.items)' : ~(k < cursor'.item)
      <3> DEFINE n == cursor.slot + 1
      <3>1. wal[n].type = "Series" /\ n \in 1..Len(wal) /\ (Cur.items)' = wal[n].items
        BY <1>1, <2>1, <2>6 DEF IsSeries, Cur
      <3> HIDE DEF n
      <3>2. DOMAIN wal[n].items = 1..Len(wal[n].items) /\ Len(wal[n].items) \in Nat
        BY <1>1, <3>1, SeriesItems, LenProperties
      <3> QED
        BY <2>1, <3>1, <3>2
    <2>7. ReplayCovers'
      <3>1. \A i \in DOMAIN wal' : i < cursor'.slot /\ IsSeries(i)' => AllBound(wal'[i].items)
        BY <2>1, <2>5 DEF IsSeries
      <3>2. \A l \in Labels : by_labels'[l] # 0 =>
              \E i \in DOMAIN wal' : IsSeries(i)' /\
                 \E k \in DOMAIN wal'[i].items :
                    wal'[i].items[k] = [ref |-> by_labels'[l], labels |-> l]
        BY <2>1, <2>3 DEF ReplayCovers, IsSeries
      <3>3. \A i \in DOMAIN wal' : AllBound(wal'[i].items) => AllBound(wal[i].items)'
        BY <2>1 DEF AllBound, Bound
      <3> QED
        BY <2>1, <2>6, <3>1, <3>2, <3>3 DEF ReplayCovers, IsSeries
    <2> QED
      BY <1>3, <1>4, <2>1, <2>2, <2>7
  <1>9. CASE ReplayCorrupt
    BY <1>6, <1>9 DEF ReplayCorrupt
  <1>10. CASE OpenFails
    <2>1. UNCHANGED <<wal, nseg, pending_series, unflushed>> /\ phase' = "failed" /\ why' # "RefConflict"
      BY <1>10 DEF OpenFails, pending, writer, disk
    <2>2. StoreOK'
      BY <1>10, EmptyStoreOK DEF OpenFails
    <2> QED
      BY <1>3, <1>5, <2>1, <2>2 DEF NoRefConflict
  <1>11. CASE ReplayDone
    <2>1. /\ UNCHANGED <<wal, pending_series, unflushed, by_labels, by_ref, next_ref, why>>
          /\ phase = "replay" /\ phase' \in Running /\ nseg' = nseg + 1
      BY <1>11 DEF ReplayDone, pending, store, Running
    <2>2. OrderedLog(wal, nseg)
      BY <1>1, <1>2, LogForms
    <2>3. BoundLog(wal)
      <3> SUFFICES ASSUME NEW i \in 1..Len(wal), wal[i].type = "Series"
                   PROVE  AllBound(wal[i].items)
        BY DEF BoundLog
      <3>1. CASE i < cursor.slot
        BY <1>1, <2>1, <3>1 DEF StoreMatchesLog, ReplayCovers, IsSeries
      <3>2. CASE ~(i < cursor.slot)
        <4>1. cursor.slot \in 1..Len(wal)
          BY <1>1, <3>2
        <4>2. Cur.type = "Torn" /\ EndsSegment(cursor.slot) /\ Cur.seg = nseg
          BY <1>1, <1>11, <4>1 DEF ReplayDone, AtEndOfStream
        <4>3. i > cursor.slot
          BY <1>1, <3>2, <4>2 DEF Cur
        <4>4. wal[i].seg \in Nat /\ wal[cursor.slot].seg <= wal[i].seg /\ wal[i].seg <= nseg
          <5>1. wal[i] \in Slots
            BY <1>1, ElementOfSeq
          <5>2. wal[i].seg \in Nat
            BY <5>1 DEF Slots
          <5> QED
            BY <2>2, <4>1, <4>3, <5>2 DEF OrderedLog
        <4>5. wal[i].seg = wal[cursor.slot].seg
          BY <1>1, <4>2, <4>4 DEF Cur
        <4> QED
          BY <1>1, <4>2, <4>3, <4>5 DEF EndsSegment
      <3> QED
        BY <3>1, <3>2
    <2>4. OrderedLog(wal', nseg')
      BY <1>1, <2>1, <2>2, OrderedMonotone
    <2>5. BoundLog(wal)' /\ BoundRecs(unflushed)' /\ AllBound(pending_series)'
      <3>1. BoundRecs(<<>>) /\ AllBound(<<>>)
        BY EmptySeq DEF BoundRecs, AllBound
      <3> QED
        BY <1>2, <2>1, <2>3, <3>1 DEF BoundLog, BoundRecs, AllBound, Bound
    <2>6. NoRefConflict' /\ StoreOK'
      BY <1>2, <2>1 DEF NoRefConflict, StoreOK
    <2>7. (TypeOK /\ NoRefConflict /\ StoreOK /\ BoundLog(wal) /\ OrderedLog(wal, nseg)
              /\ BoundRecs(unflushed) /\ AllBound(pending_series) /\ phase \in Running
            => StoreMatchesLog)'
      BY RunningMatch, PTL
    <2> QED
      BY <1>0, <2>1, <2>4, <2>5, <2>6, <2>7
  <1>12. CASE ReplaySeries
    <2> DEFINE s   == cursor.slot
               ref == Item.ref
               l   == Item.labels
    <2>1. AtItem("Series")
      BY <1>12 DEF ReplaySeries
    <2>2. /\ s \in 1..Len(wal) /\ wal[s].type = "Series" /\ phase = "replay"
          /\ cursor.item <= Len(wal[s].items) /\ Item = wal[s].items[cursor.item]
      BY <1>1, <2>1 DEF AtItem, Cur, Item
    <2>3. wal[s].items \in Seq(RefSeries) /\ DOMAIN wal[s].items = 1..Len(wal[s].items)
          /\ Len(wal[s].items) \in Nat
      BY <1>1, <2>2, SeriesItems, LenProperties
    <2>4. cursor.item \in DOMAIN wal[s].items /\ Item \in RefSeries
      BY <1>1, <2>2, <2>3, ElementOfSeq
    <2>5. ref \in Nat /\ l \in Labels /\ Item = [ref |-> ref, labels |-> l]
      BY <2>4 DEF RefSeries
    <2>6. /\ insert_with_ref(ref, l) /\ NextItem
          /\ UNCHANGED <<phase, closing, pending, writer, disk, why, history>>
      BY <1>12, <2>1, ReplayAccepts DEF ReplaySeries
    <2>7. /\ StoreOK' /\ ref # 0
          /\ by_labels' = [by_labels EXCEPT ![l] = ref]
          /\ by_labels[l] \in {0, ref}
      BY <1>2, <2>5, <2>6, InsertKeepsStore
    <2> HIDE DEF s, ref, l
    <2>8. /\ UNCHANGED <<wal, nseg, pending_series, unflushed, why>> /\ phase' = "replay"
          /\ cursor'.slot = s /\ cursor'.item = cursor.item + 1
      BY <2>2, <2>6 DEF NextItem, pending, writer, disk, s
    <2>9. \A x : Bound(x) /\ x.labels \in Labels => BoundNext(x)
      BY <1>1, <2>5, <2>7 DEF Bound, BoundNext
    <2>10. BoundNext(Item)
      BY <1>1, <2>5, <2>7 DEF BoundNext
    <2>11. ReplayCovers
      BY DEF StoreMatchesLog
    <2>12. ASSUME NEW i \in DOMAIN wal, i < s, wal[i].type = "Series", NEW k \in DOMAIN wal[i].items
           PROVE  BoundNext(wal[i].items[k])
      <3>1. Bound(wal[i].items[k])
        BY <2>2, <2>11, <2>12 DEF ReplayCovers, IsSeries, AllBound, s
      <3>2. wal[i].items[k].labels \in Labels
        BY <1>1, <2>12, SeriesItems
      <3> QED
        BY <2>9, <3>1, <3>2
    <2>13. ASSUME NEW k \in DOMAIN wal[s].items, k < cursor.item + 1
           PROVE  BoundNext(wal[s].items[k])
      <3>1. CASE k = cursor.item
        BY <2>2, <2>10, <3>1
      <3>2. CASE k # cursor.item
        <4>1. k < cursor.item
          BY <1>1, <2>3, <2>13, <3>2
        <4>2. Bound(wal[s].items[k])
          BY <1>1, <2>2, <2>11, <4>1 DEF ReplayCovers, IsSeries, Cur, s
        <4>3. wal[s].items[k].labels \in Labels
          BY <1>1, <2>2, SeriesItems
        <4> QED
          BY <2>9, <4>2, <4>3
      <3> QED
        BY <3>1, <3>2
    <2>14. ASSUME NEW x \in Labels, by_labels'[x] # 0
           PROVE  \E i \in DOMAIN wal : wal[i].type = "Series" /\
                    \E k \in DOMAIN wal[i].items :
                       wal[i].items[k] = [ref |-> by_labels'[x], labels |-> x]
      <3>1. CASE x = l
        <4>1. by_labels'[x] = ref
          BY <1>1, <2>5, <2>7, <3>1
        <4>2. wal[s].items[cursor.item] = [ref |-> by_labels'[x], labels |-> x]
          BY <2>2, <2>5, <3>1, <4>1
        <4> QED
          BY <1>1, <2>2, <2>4, <4>2
      <3>2. CASE x # l
        <4>1. by_labels'[x] = by_labels[x]
          BY <1>1, <2>5, <2>7, <3>2
        <4> QED
          BY <2>2, <2>11, <2>14, <4>1 DEF ReplayCovers, IsSeries
      <3> QED
        BY <3>1, <3>2
    <2>15. ReplayCovers'
      <3>1. \A i \in DOMAIN wal' : i < cursor'.slot /\ IsSeries(i)' => AllBound(wal[i].items)'
        BY <2>8, <2>12 DEF IsSeries, AllBound, Bound, BoundNext
      <3>2. \A k \in DOMAIN (Cur.items)' : k < cursor'.item => Bound(Cur.items[k])'
        BY <2>8, <2>13 DEF Bound, BoundNext, Cur
      <3>3. \A x \in Labels : by_labels'[x] # 0 =>
              \E i \in DOMAIN wal' : IsSeries(i)' /\
                 \E k \in DOMAIN wal'[i].items :
                    wal'[i].items[k] = [ref |-> by_labels'[x], labels |-> x]
        BY <2>8, <2>14 DEF IsSeries
      <3> QED
        BY <3>1, <3>2, <3>3 DEF ReplayCovers
    <2> QED
      BY <1>2, <1>3, <1>4, <2>7, <2>8, <2>15 DEF NoRefConflict
  <1>13. CASE ReplaySample
    <2>1. CASE ReplayFails("UnknownRef") \/ ReplayFails("OutOfOrder")
      BY <1>6, <2>1
    <2>2. CASE /\ by_ref' = Appended(by_ref, Item.ref, Item.t, Item.v)
               /\ NextItem
               /\ UNCHANGED <<phase, closing, by_labels, next_ref, pending, writer, disk,
                              why, history>>
      <3>1. AtItem("SamplesV2") /\ phase = "replay"
        BY <1>13 DEF ReplaySample, AtItem
      <3>2. Item.ref \in Nat /\ Item.t \in Times /\ Item.v \in Values
        BY <3>1, ItemType DEF RefSample
      <3>3. /\ Len(by_ref') = Len(by_ref)
            /\ \A i \in 1..Len(by_ref) : by_ref'[i].labels = by_ref[i].labels
        <4>1. by_ref \in Seq(MemSeries)
          BY DEF TypeOK
        <4>2. /\ Len(Appended(by_ref, Item.ref, Item.t, Item.v)) = Len(by_ref)
              /\ \A i \in 1..Len(by_ref) :
                    Appended(by_ref, Item.ref, Item.t, Item.v)[i].labels = by_ref[i].labels
          BY <3>2, <4>1, AppendedShape
        <4> QED
          BY <2>2, <4>2
      <3>4. /\ UNCHANGED <<wal, nseg, pending_series, unflushed, why, by_labels, next_ref>>
            /\ phase' = "replay" /\ cursor'.slot = cursor.slot
        BY <2>2, <3>1 DEF NextItem, pending, writer, disk
      <3>5. StoreOK'
        BY <1>2, <3>3, <3>4 DEF StoreOK
      <3>6. ~IsSeries(cursor.slot) /\ ~IsSeries(cursor.slot)'
        <4>1. wal[cursor.slot].type = "SamplesV2"
          BY <3>1 DEF AtItem, Cur
        <4>2. wal'[cursor'.slot].type = "SamplesV2"
          BY <3>4, <4>1
        <4> QED
          BY <4>1, <4>2 DEF IsSeries
      <3>7. ReplayCovers
        BY DEF StoreMatchesLog
      <3>8. \A i \in DOMAIN wal' : i < cursor'.slot /\ IsSeries(i)' => AllBound(wal[i].items)'
        BY <3>1, <3>4, <3>7 DEF ReplayCovers, IsSeries, AllBound, Bound
      <3>9. \A x \in Labels : by_labels'[x] # 0 =>
              \E i \in DOMAIN wal' : IsSeries(i)' /\
                 \E k \in DOMAIN wal'[i].items :
                    wal'[i].items[k] = [ref |-> by_labels'[x], labels |-> x]
        BY <3>1, <3>4, <3>7 DEF ReplayCovers, IsSeries
      <3>10. ReplayCovers'
        BY <3>6, <3>8, <3>9 DEF ReplayCovers
      <3> QED
        BY <1>2, <1>3, <1>4, <3>4, <3>5, <3>10 DEF NoRefConflict
    <2> QED
      BY <1>13, <2>1, <2>2 DEF ReplaySample
  <1> QED
    BY <1>7, <1>8, <1>9, <1>10, <1>11, <1>12, <1>13 DEF Replay

-----------------------------------------------------------------------------
(* The theorems.                                                           *)

(* At every step of every call, after any crash, failed call or power loss,
   the store, the buffers, the page writer and the segment files agree on one
   binding of refs to label sets. *)
THEOREM StoreLogAgreement == Spec => []StoreMatchesLog
  <1>1. Init => StoreMatchesLog
    <2> SUFFICES ASSUME Init PROVE StoreMatchesLog
      OBVIOUS
    <2>1. Len(<<>>) = 0 /\ DOMAIN <<>> = {}
      BY EmptySeq
    <2>2. StoreOK
      BY <2>1 DEF Init, StoreOK
    <2>3. LogConsistent /\ SegmentsInOrder
      BY <2>1 DEF Init, LogConsistent, SegmentsInOrder
    <2> QED
      BY <2>2, <2>3, IdleMatch DEF Init, NoRefConflict
  <1>2. TypeOK /\ StoreMatchesLog /\ [Next]_vars => StoreMatchesLog'
    <2> SUFFICES ASSUME TypeOK, StoreMatchesLog, [Next]_vars
                 PROVE  StoreMatchesLog'
      OBVIOUS
    <2>1. ASSUME NEW l \in Labels, NEW t \in Times, NEW v \in Values, append(l, t, v)
          PROVE  StoreMatchesLog'
      BY <2>1, AppendKeepsMatch
    <2>2. CASE commit
      <3>1. TypeOK' /\ phase \in Running /\ phase' \in Running
        BY <2>2, NextType DEF commit, Running, Logging, Next
      <3>2. UNCHANGED <<by_labels, by_ref, next_ref, why, wal, nseg, unflushed, pending_series>>
        BY <2>2 DEF commit, store, pending, writer, disk
      <3>3. /\ BoundLog(wal) /\ OrderedLog(wal, nseg)
            /\ BoundRecs(unflushed) /\ AllBound(pending_series)
        BY <3>1, RunningFacts
      <3>4. /\ BoundLog(wal)' /\ OrderedLog(wal, nseg)'
            /\ BoundRecs(unflushed)' /\ AllBound(pending_series)'
        BY <3>2, <3>3 DEF BoundLog, OrderedLog, BoundRecs, AllBound, Bound
      <3>5. NoRefConflict' /\ StoreOK'
        BY <3>2 DEF StoreMatchesLog, NoRefConflict, StoreOK
      <3>6. (TypeOK /\ NoRefConflict /\ StoreOK /\ BoundLog(wal) /\ OrderedLog(wal, nseg)
                /\ BoundRecs(unflushed) /\ AllBound(pending_series) /\ phase \in Running
              => StoreMatchesLog)'
        BY RunningMatch, PTL
      <3> QED
        BY <3>1, <3>4, <3>5, <3>6
    <2>3. CASE UNCHANGED vars
      BY <2>3 DEF vars, store, pending, writer, disk, history, StoreMatchesLog, NoRefConflict,
         StoreOK, LogConsistent, MemoryCovers, ReplayCovers, NothingPending, SegmentsInOrder,
         IsSeries, AllBound, Bound, Cur
    <2> QED
      BY <2>1, <2>2, <2>3, WalStepKeepsMatch, EndKeepsMatch, OpenKeepsMatch DEF Next
  <1> QED
    BY <1>1, <1>2, TypeCorrect, PTL DEF Spec

(* open() never refuses a Series record of a log that this head wrote. *)
THEOREM RefsNeverConflict == Spec => []NoRefConflict
  <1>1. StoreMatchesLog => NoRefConflict
    BY DEF StoreMatchesLog
  <1> QED
    BY <1>1, StoreLogAgreement, PTL
=============================================================================
