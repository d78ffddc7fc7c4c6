-------------------------- MODULE HeadCommitProofs --------------------------
(***************************************************************************)
(* Head.tla never loses an acknowledged sample behind a successful open(): *)
(* the proof of NoSilentLoss, by the inductive invariant CommittedHeld.    *)
(***************************************************************************)
EXTENDS HeadProofs

\* The records recs hold the RefSample x.
Framed(recs, x) ==
    \E i \in 1..Len(recs) : recs[i].type = "SamplesV2" /\
       \E k \in DOMAIN recs[i].items : recs[i].items[k] = x

\* The log w holds x where the next fsync of segment n leaves it durable.
Carries(w, n, x) ==
    \E i \in 1..Len(w) : w[i].type = "SamplesV2" /\ (w[i].durable \/ w[i].seg = n) /\
       \E k \in DOMAIN w[i].items : w[i].items[k] = x

\* x is buffered in p, framed in recs, or in the log w as above.
Awaited(p, recs, w, n, x) ==
    \/ \E k \in DOMAIN p : p[k] = x
    \/ Framed(recs, x)
    \/ Carries(w, n, x)

\* The next fsync of segment n leaves the log w unreadable for good.
Spoiled(w, n) == \E i \in 1..Len(w) : w[i].type = "Bad" /\ (w[i].durable \/ w[i].seg = n)

\* The log w holds x in an fsynced record.
StoredIn(w, x) ==
    \E i \in 1..Len(w) : w[i].durable /\ w[i].type = "SamplesV2" /\
       \E k \in DOMAIN w[i].items : w[i].items[k] = x

\* The log w is unreadable for good.
PoisonedLog(w) == \E i \in 1..Len(w) : w[i].type = "Bad" /\ w[i].durable

\* The Series records of w bind ref to no label set but l.
OwnedIn(w, ref, l) ==
    \A i \in 1..Len(w) : w[i].type = "Series" =>
        \A k \in DOMAIN w[i].items : w[i].items[k].ref = ref => w[i].items[k].labels = l

\* The sample s as it is logged under ref.
Logs(ref, s) == [ref |-> ref, t |-> s[2], v |-> s[3]]

\* The log w has every slot of the log before, fsynced if it was; its Series
\* records are in the store.
Grown(w) ==
    /\ w \in Seq(Slots)
    /\ Len(w) >= Len(wal)
    /\ \A i \in 1..Len(wal) :
          /\ w[i].seg = wal[i].seg /\ w[i].type = wal[i].type /\ w[i].items = wal[i].items
          /\ wal[i].durable => w[i].durable
    /\ BoundLog(w)

-----------------------------------------------------------------------------
(* The invariant in terms of these.                                        *)

(* A slot of samples holds RefSamples. *)
LEMMA SampleItems ==
    ASSUME NEW w \in Seq(Slots), NEW i \in 1..Len(w), w[i].type = "SamplesV2",
           NEW k \in DOMAIN w[i].items
    PROVE  w[i].items[k] \in RefSample
  <1>1. w[i] \in Slots
    BY ElementOfSeq
  <1>2. w[i].items \in Seq(RefSample)
    BY <1>1 DEF Slots
  <1> QED
    BY <1>2, LenProperties, ElementOfSeq

(* AckedOnFile, MineOnItsWay and Poisoned are about indices of sequences. *)
LEMMA CommitForms ==
    TypeOK =>
      /\ Poisoned <=> PoisonedLog(wal)
      /\ AckedOnFile <=>
            (~rollFailed /\ ~PoisonedLog(wal) => \A s \in acked : \E r \in Nat :
                /\ StoredIn(wal, Logs(r, s))
                /\ OwnedIn(wal, r, s[1])
                /\ phase \in Running => by_labels[s[1]] = r)
      /\ MineOnItsWay <=>
            (phase \in Running /\ ~rollFailed =>
                \/ Spoiled(wal, nseg)
                \/ \A s \in mine :
                      Awaited(pending_samples, unflushed, wal, nseg, Logs(by_labels[s[1]], s)))
  <1> SUFFICES ASSUME TypeOK
               PROVE  /\ Poisoned <=> PoisonedLog(wal)
                      /\ AckedOnFile <=>
                            (~rollFailed /\ ~PoisonedLog(wal) => \A s \in acked : \E r \in Nat :
                                /\ StoredIn(wal, Logs(r, s))
                                /\ OwnedIn(wal, r, s[1])
                                /\ phase \in Running => by_labels[s[1]] = r)
                      /\ MineOnItsWay <=>
                            (phase \in Running /\ ~rollFailed =>
                                \/ Spoiled(wal, nseg)
                                \/ \A s \in mine :
                                      Awaited(pending_samples, unflushed, wal, nseg, Logs(by_labels[s[1]], s)))
    OBVIOUS
  <1>1. wal \in Seq(Slots) /\ DOMAIN wal = 1..Len(wal) /\ DOMAIN unflushed = 1..Len(unflushed)
    BY LenProperties DEF TypeOK
  <1>2. Poisoned <=> PoisonedLog(wal)
    BY <1>1 DEF Poisoned, PoisonedLog
  <1>3. \A ref, l : OwnedBy(ref, l) <=>
            OwnedIn(wal, ref, l) /\ (phase \in Running => by_labels[l] = ref)
    BY <1>1 DEF OwnedBy, OwnedIn, IsSeries
  <1>4. ASSUME NEW s \in acked
        PROVE  (\E i \in DOMAIN wal : wal[i].durable /\ wal[i].type = "SamplesV2" /\
                  \E k \in DOMAIN wal[i].items :
                     LET x == wal[i].items[k]
                     IN x.t = s[2] /\ x.v = s[3] /\ OwnedBy(x.ref, s[1]))
               <=>
               \E r \in Nat : StoredIn(wal, Logs(r, s)) /\ OwnedBy(r, s[1])
    <2>1. ASSUME NEW i \in 1..Len(wal), wal[i].type = "SamplesV2", NEW k \in DOMAIN wal[i].items
          PROVE  /\ wal[i].items[k].ref \in Nat
                 /\ wal[i].items[k] = [ref |-> wal[i].items[k].ref, t |-> wal[i].items[k].t,
                                       v |-> wal[i].items[k].v]
      <3>1. wal[i].items[k] \in RefSample
        BY <1>1, <2>1, SampleItems
      <3> QED
        BY <3>1 DEF RefSample
    <2>2. ASSUME NEW i \in DOMAIN wal, wal[i].durable, wal[i].type = "SamplesV2",
                 NEW k \in DOMAIN wal[i].items,
                 wal[i].items[k].t = s[2], wal[i].items[k].v = s[3],
                 OwnedBy(wal[i].items[k].ref, s[1])
          PROVE  \E r \in Nat : StoredIn(wal, Logs(r, s)) /\ OwnedBy(r, s[1])
      <3>1. i \in 1..Len(wal)
        BY <1>1
      <3>2. /\ wal[i].items[k].ref \in Nat
            /\ wal[i].items[k] = Logs(wal[i].items[k].ref, s)
        BY <2>1, <2>2, <3>1 DEF Logs
      <3>3. StoredIn(wal, Logs(wal[i].items[k].ref, s))
        BY <2>2, <3>1, <3>2 DEF StoredIn
      <3> QED
        BY <2>2, <3>2, <3>3
    <2>3. ASSUME NEW r \in Nat, StoredIn(wal, Logs(r, s)), OwnedBy(r, s[1])
          PROVE  \E i \in DOMAIN wal : wal[i].durable /\ wal[i].type = "SamplesV2" /\
                    \E k \in DOMAIN wal[i].items :
                       LET x == wal[i].items[k]
                       IN x.t = s[2] /\ x.v = s[3] /\ OwnedBy(x.ref, s[1])
      <3>1. PICK i \in 1..Len(wal) : wal[i].durable /\ wal[i].type = "SamplesV2" /\
                    \E k \in DOMAIN wal[i].items : wal[i].items[k] = Logs(r, s)
        BY <2>3 DEF StoredIn
      <3>2. PICK k \in DOMAIN wal[i].items : wal[i].items[k] = Logs(r, s)
        BY <3>1
      <3>3. wal[i].items[k].ref = r /\ wal[i].items[k].t = s[2] /\ wal[i].items[k].v = s[3]
        BY <3>2 DEF Logs
      <3>4. i \in DOMAIN wal
        BY <1>1
      <3> QED
        BY <2>3, <3>1, <3>3, <3>4
    <2> QED
      BY <2>2, <2>3
  <1>5. AckedOnFile <=>
            (~rollFailed /\ ~Poisoned => \A s \in acked : \E r \in Nat :
                StoredIn(wal, Logs(r, s)) /\ OwnedBy(r, s[1]))
    BY <1>4 DEF AckedOnFile
  <1>6. \A x : OnItsWay(x) <=> Awaited(pending_samples, unflushed, wal, nseg, x)
    BY <1>1 DEF OnItsWay, Awaited, Framed, Carries, Syncing
  <1>7. (\E i \in DOMAIN wal : wal[i].type = "Bad" /\ Syncing(i)) <=> Spoiled(wal, nseg)
    BY <1>1 DEF Spoiled, Syncing
  <1>8. MineOnItsWay <=>
            (phase \in Running /\ ~rollFailed =>
                Spoiled(wal, nseg) \/ \A s \in mine : OnItsWay(Logs(by_labels[s[1]], s)))
    BY <1>7 DEF MineOnItsWay, Logs
  <1> QED
    BY <1>2, <1>3, <1>5, <1>6, <1>8

-----------------------------------------------------------------------------
(* What a write and an fsync do to the samples of the log.                 *)

(* A write, complete or cut short, and a write followed by an fsync, let the
   log grow. *)
LEMMA WriteGrows ==
    ASSUME TypeOK, StoreOK, BoundLog(wal), OrderedLog(wal, nseg),
           NEW recs \in Seq(Records), BoundRecs(recs),
           NEW w \in Flushed(recs) \cup Cuttings(recs)
    PROVE  Grown(w) /\ Grown(Synced(w))
  <1>1. BoundLog(w) /\ BoundLog(Synced(w))
    BY WriteKeepsLog DEF BoundRecs
  <1>2. Extended(w, recs)
    BY FlushExtends
  <1>3. w \in Seq(Slots) /\ SameSlots(w, Synced(w)) /\ Len(wal) \in Nat /\ Len(w) \in Nat
    BY <1>2, SyncedSame, LenProperties DEF Extended, TypeOK
  <1>4. Grown(w)
    BY <1>1, <1>2 DEF Extended, Grown
  <1>5. \A i \in 1..Len(w) : w[i].durable => Synced(w)[i].durable
    <2>1. DOMAIN w = 1..Len(w) /\ \A i \in 1..Len(w) : w[i] \in Slots
      BY <1>3, LenProperties, ElementOfSeq
    <2> QED
      BY <2>1 DEF Synced, Slots
  <1>6. \A i \in 1..Len(wal) : i \in 1..Len(w)
    BY <1>2, <1>3 DEF Extended
  <1>7. Grown(Synced(w))
    BY <1>1, <1>3, <1>4, <1>5, <1>6 DEF Grown, SameSlots
  <1> QED
    BY <1>4, <1>7

(* What the log held, or was on its way to spoil, stays so as it grows. *)
LEMMA GrownKeeps ==
    ASSUME wal \in Seq(Slots), NEW w, Grown(w)
    PROVE  /\ \A n, x : Carries(wal, n, x) => Carries(w, n, x)
           /\ \A n : Spoiled(wal, n) => Spoiled(w, n)
           /\ \A x : StoredIn(wal, x) => StoredIn(w, x)
           /\ PoisonedLog(wal) => PoisonedLog(w)
  <1>1. Len(wal) \in Nat /\ Len(w) \in Nat
    BY LenProperties DEF Grown
  <1>2. \A i \in 1..Len(wal) : i \in 1..Len(w)
    BY <1>1 DEF Grown
  <1> QED
    BY <1>2 DEF Grown, Carries, Spoiled, StoredIn, PoisonedLog

(* flush_pending puts every sample of recs into the open segment, or bytes
   that nobody can read. *)
LEMMA FlushCarries ==
    ASSUME TypeOK, NEW recs \in Seq(Records), NEW w \in Flushed(recs)
    PROVE  Spoiled(w, nseg) \/ \A x : Framed(recs, x) => Carries(w, nseg, x)
  <1>1. wal \in Seq(Slots) /\ Len(wal) \in Nat /\ nseg \in Nat /\ Len(recs) \in Nat
    BY LenProperties DEF TypeOK
  <1>2. CASE w = Written(recs)
    <2> DEFINE s == [i \in 1..Len(recs) |-> Slot(recs[i])]
    <2>1. \A i \in 1..Len(recs) : Slot(recs[i]) \in Slots
      <3> TAKE i \in 1..Len(recs)
      <3>1. recs[i] \in Records
        BY ElementOfSeq
      <3> QED
        BY <3>1, <1>1 DEF Records, Slots, Slot
    <2>2. s \in Seq(Slots) /\ Len(s) = Len(recs)
      BY <1>1, <2>1, FunIsSeq
    <2>3. w = wal \o s
      BY <1>2 DEF Written
    <2>4. /\ Len(w) = Len(wal) + Len(recs)
          /\ \A i \in 1..Len(wal) + Len(recs) : w[i] =
                IF i <= Len(wal) THEN wal[i] ELSE s[i - Len(wal)]
      BY <1>1, <2>2, <2>3, ConcatProperties
    <2>5. ASSUME NEW k \in 1..Len(recs)
          PROVE  Len(wal) + k \in 1..Len(w) /\ w[Len(wal) + k] = Slot(recs[k])
      <3> DEFINE j == Len(wal) + k
      <3>1. j \in 1..Len(wal) + Len(recs) /\ ~(j <= Len(wal)) /\ j - Len(wal) = k
        BY <1>1
      <3>2. s[k] = Slot(recs[k])
        OBVIOUS
      <3> HIDE DEF j, s
      <3>3. w[j] = s[j - Len(wal)]
        BY <2>4, <3>1
      <3> QED
        BY <2>4, <3>1, <3>2, <3>3 DEF j
    <2> HIDE DEF s
    <2>6. ASSUME NEW x, Framed(recs, x)
          PROVE  Carries(w, nseg, x)
      <3>1. PICK k \in 1..Len(recs) : recs[k].type = "SamplesV2" /\
                   \E m \in DOMAIN recs[k].items : recs[k].items[m] = x
        BY <2>6 DEF Framed
      <3>2. PICK j \in 1..Len(w) : w[j] = Slot(recs[k])
        BY <2>5
      <3>3. w[j].type = recs[k].type /\ w[j].items = recs[k].items /\ w[j].seg = nseg
        BY <3>2 DEF Slot
      <3> QED
        BY <3>1, <3>3 DEF Carries
    <2> QED
      BY <2>6
  <1>3. CASE w # Written(recs)
    <2>1. PICK m \in 0..(Len(recs) - 1) : w = Append(Written(SubSeq(recs, 1, m)), Partial("Bad"))
      BY <1>3 DEF Flushed, BeforeRefused
    <2> DEFINE u == Written(SubSeq(recs, 1, m))
    <2>2. u \in Seq(Slots) /\ Len(u) \in Nat
      BY PrefixExtends, LenProperties DEF Extended
    <2>3. Partial("Bad") \in Slots
      BY <1>1 DEF Partial, Slots
    <2> HIDE DEF u
    <2>4. w = Append(u, Partial("Bad"))
      BY <2>1 DEF u
    <2>5. Len(w) = Len(u) + 1 /\ w[Len(u) + 1] = Partial("Bad")
      BY <2>2, <2>3, <2>4, AppendProperties
    <2>6. Len(u) + 1 \in 1..Len(w)
      BY <2>2, <2>5
    <2> QED
      BY <2>5, <2>6 DEF Spoiled, Partial
  <1> QED
    BY <1>2, <1>3

(* After an fsync nothing of the open segment is on its way any more. *)
LEMMA SyncStores ==
    ASSUME NEW w \in Seq(Slots)
    PROVE  /\ \A x : Carries(w, nseg, x) => StoredIn(Synced(w), x)
           /\ Spoiled(w, nseg) => PoisonedLog(Synced(w))
  <1>1. DOMAIN w = 1..Len(w) /\ \A i \in 1..Len(w) : w[i] \in Slots
    BY LenProperties, ElementOfSeq
  <1>2. SameSlots(w, Synced(w))
    BY SyncedSame
  <1>3. \A i \in 1..Len(w) : w[i].durable \/ w[i].seg = nseg => Synced(w)[i].durable
    BY <1>1 DEF Synced, Slots
  <1>4. Len(Synced(w)) = Len(w) /\ \A i \in 1..Len(w) :
          Synced(w)[i].type = w[i].type /\ Synced(w)[i].items = w[i].items
    BY <1>2 DEF SameSlots
  <1> DEFINE y == Synced(w)
  <1> HIDE DEF y
  <1>5. /\ Len(y) = Len(w)
        /\ \A i \in 1..Len(w) : /\ y[i].type = w[i].type /\ y[i].items = w[i].items
                                /\ w[i].durable \/ w[i].seg = nseg => y[i].durable
    BY <1>3, <1>4 DEF y
  <1> QED
    BY <1>5 DEF Carries, StoredIn, Spoiled, PoisonedLog, y

(* What is stored in an fsynced record needs no fsync. *)
LEMMA StoredCarries ==
    /\ \A w, n, x : StoredIn(w, x) => Carries(w, n, x)
    /\ \A w, n : PoisonedLog(w) => Spoiled(w, n)
  BY DEF Carries, StoredIn, Spoiled, PoisonedLog

-----------------------------------------------------------------------------
(* The steps of a running head.                                            *)

(* A log whose Series records are in the store gives the ref of a series to
   no other. *)
LEMMA BoundOwned ==
    ASSUME TypeOK, StoreOK, NEW w \in Seq(Slots), BoundLog(w),
           NEW l \in Labels, by_labels[l] # 0
    PROVE  OwnedIn(w, by_labels[l], l)
  <1> SUFFICES ASSUME NEW i \in 1..Len(w), w[i].type = "Series", NEW k \in DOMAIN w[i].items,
                      w[i].items[k].ref = by_labels[l]
               PROVE  w[i].items[k].labels = l
    BY DEF OwnedIn
  <1>1. Bound(w[i].items[k]) /\ w[i].items[k].labels \in Labels
    BY SeriesItems DEF BoundLog, AllBound
  <1> QED
    BY <1>1 DEF Bound, StoreOK

(* An acknowledged sample stays on file, under a ref of its own series. *)
LEMMA AckedStays ==
    ASSUME TypeOK, StoreOK, AckedOnFile, MemoryHolds, phase \in Running, ~rollFailed,
           Grown(wal'), ~PoisonedLog(wal'),
           phase' \in Running =>
              \A l \in Labels : by_labels[l] # 0 => by_labels'[l] = by_labels[l],
           NEW s \in acked
    PROVE  \E r \in Nat :
              /\ StoredIn(wal', Logs(r, s))
              /\ OwnedIn(wal', r, s[1])
              /\ phase' \in Running => by_labels'[s[1]] = r
  <1>1. wal \in Seq(Slots) /\ s[1] \in Labels
    BY DEF TypeOK
  <1>2. ~PoisonedLog(wal) /\ \A x : StoredIn(wal, x) => StoredIn(wal', x)
    BY <1>1, GrownKeeps
  <1>3. PICK r \in Nat : StoredIn(wal, Logs(r, s)) /\ by_labels[s[1]] = r
    BY <1>2, CommitForms
  <1>4. by_labels[s[1]] # 0
    BY DEF MemoryHolds, InStore
  <1>5. OwnedIn(wal', r, s[1])
    BY <1>1, <1>3, <1>4, BoundOwned DEF Grown
  <1> QED
    BY <1>1, <1>2, <1>3, <1>4, <1>5

(* The steps of commit() and close() leave the store alone and let the log
   grow. *)
LEMMA WalStepGrows ==
    ASSUME TypeOK, StoreMatchesLog, WalStep
    PROVE  /\ phase \in Running /\ phase' \in Running
           /\ UNCHANGED <<by_labels, by_ref, next_ref, mine>>
           /\ Grown(wal')
           /\ rollFailed => rollFailed'
  <1>1. phase \in Running
    BY DEF WalStep, LogOk, LogNowhere, LogFails, CutOk, CutNowhere, CutSyncFails,
           CutOpenFails, Cutting, SyncOk, SyncFails, Running, Logging
  <1>2. ASSUME NEW recs \in {unflushed, Append(unflushed, Rec)},
               NEW w \in Flushed(recs) \cup Cuttings(recs)
        PROVE  Grown(w) /\ Grown(Synced(w))
    BY <1>1, RunningFacts, RecType, WriteGrows DEF StoreMatchesLog
  <1>3. wal \in Cuttings(unflushed)
    BY DEF Cuttings
  <1>4. Grown(wal) /\ Grown(Synced(wal))
    BY <1>2, <1>3
  <1> USE <1>1 DEF Running, Logging, CommitError, store, pending, writer, disk, history
  <1>5. CASE LogOk
    BY <1>2, <1>5 DEF LogOk, Logged
  <1>6. CASE LogNowhere
    BY <1>4, <1>6 DEF LogNowhere, Logged
  <1>7. CASE LogFails
    BY <1>2, <1>7 DEF LogFails, FlushFails
  <1>8. CASE CutOk
    BY <1>2, <1>8 DEF CutOk, Cutting
  <1>9. CASE CutNowhere
    BY <1>4, <1>9 DEF CutNowhere
  <1>10. CASE CutSyncFails
    <2>1. wal' \in Flushed(unflushed) \cup Cuttings(unflushed)
      BY <1>10 DEF CutSyncFails, FlushFails
    <2> QED
      BY <1>2, <1>10, <2>1 DEF CutSyncFails
  <1>11. CASE CutOpenFails
    BY <1>2, <1>11 DEF CutOpenFails
  <1>12. CASE SyncOk
    BY <1>4, <1>12 DEF SyncOk
  <1>13. CASE SyncFails
    BY <1>4, <1>13 DEF SyncFails
  <1> QED
    BY <1>5, <1>6, <1>7, <1>8, <1>9, <1>10, <1>11, <1>12, <1>13 DEF WalStep

(* commit() comes to its fsync with empty buffers. *)
LEMMA WalStepLeavesNothing ==
    ASSUME TypeOK, NothingLeftBehind, WalStep
    PROVE  NothingLeftBehind'
  <1> SUFFICES ASSUME phase' \in Running, ~rollFailed'
               PROVE  /\ fd'
                      /\ phase' = "logSeries" => pending_series' # <<>>
                      /\ phase' = "logSamples" => pending_samples' # <<>>
                      /\ phase' \in {"sync", "cut"} => pending_samples' = <<>> /\ unflushed' = <<>>
                      /\ phase' = "open" /\ pending_series' = <<>> /\ pending_samples' = <<>>
                            => unflushed' = <<>>
    BY DEF NothingLeftBehind
  <1> USE DEF NothingLeftBehind, Running, Logging, CommitError, store, pending, writer, disk,
              history
  <1>1. CASE LogOk
    BY <1>1 DEF LogOk, Logged
  <1>2. CASE LogNowhere
    BY <1>2 DEF LogNowhere, Logged
  <1>3. CASE LogFails
    BY <1>3 DEF LogFails, FlushFails
  <1>4. CASE CutOk
    BY <1>4 DEF CutOk, Cutting
  <1>5. CASE CutNowhere
    BY <1>5 DEF CutNowhere
  <1>6. CASE CutSyncFails
    BY <1>6 DEF CutSyncFails, Cutting, FlushFails
  <1>7. CASE CutOpenFails
    BY <1>7 DEF CutOpenFails
  <1>8. CASE SyncOk
    BY <1>8 DEF SyncOk
  <1>9. CASE SyncFails
    BY <1>9 DEF SyncFails
  <1> QED
    BY <1>1, <1>2, <1>3, <1>4, <1>5, <1>6, <1>7, <1>8, <1>9 DEF WalStep

(* What is on its way to the disk stays on its way through every step of
   commit() and close(), or the file becomes unreadable. *)
LEMMA WalStepKeepsWay ==
    ASSUME TypeOK, StoreMatchesLog, NothingLeftBehind, WalStep, ~rollFailed'
    PROVE  \/ Spoiled(wal', nseg')
           \/ /\ ~Spoiled(wal, nseg)
              /\ \A x : Awaited(pending_samples, unflushed, wal, nseg, x)
                           => Awaited(pending_samples', unflushed', wal', nseg', x)
  <1>1. /\ phase \in Running /\ Grown(wal') /\ ~rollFailed /\ fd
        /\ wal \in Seq(Slots) /\ wal' \in Seq(Slots)
    BY WalStepGrows, WalStepType DEF NothingLeftBehind, TypeOK
  <1>2. /\ \A n, x : Carries(wal, n, x) => Carries(wal', n, x)
        /\ \A n : Spoiled(wal, n) => Spoiled(wal', n)
    BY <1>1, GrownKeeps
  <1>3. \A x : Framed(unflushed, x) => Framed(Append(unflushed, Rec), x)
    <2>1. /\ Len(Append(unflushed, Rec)) = Len(unflushed) + 1
          /\ \A i \in 1..Len(unflushed) : Append(unflushed, Rec)[i] = unflushed[i]
          /\ Len(unflushed) \in Nat
      BY RecType, AppendProperties, LenProperties
    <2>2. \A i \in 1..Len(unflushed) : i \in 1..Len(unflushed) + 1
      BY <2>1
    <2> QED
      BY <2>1, <2>2 DEF Framed
  <1>4. ASSUME phase = "logSamples", NEW k \in DOMAIN pending_samples
        PROVE  Framed(Append(unflushed, Rec), pending_samples[k])
    <2>1. /\ Len(Append(unflushed, Rec)) = Len(unflushed) + 1
          /\ Append(unflushed, Rec)[Len(unflushed) + 1] = Rec
          /\ Len(unflushed) \in Nat
      BY RecType, AppendProperties, LenProperties
    <2>2. Len(unflushed) + 1 \in 1..Len(Append(unflushed, Rec))
      BY <2>1
    <2>3. Rec.type = "SamplesV2" /\ Rec.items = pending_samples
      BY <1>4 DEF Rec
    <2> QED
      BY <1>4, <2>1, <2>2, <2>3 DEF Framed
  <1> USE DEF store, pending, writer, disk, history
  <1>5. CASE LogOk
    <2>1. wal' \in Flushed(Append(unflushed, Rec)) /\ nseg' = nseg
      BY <1>5 DEF LogOk
    <2>2. \/ Spoiled(wal', nseg)
          \/ \A x : Framed(Append(unflushed, Rec), x) => Carries(wal', nseg, x)
      BY <2>1, RecType, FlushCarries
    <2>3. pending_samples' = pending_samples \/ phase = "logSamples"
      BY <1>5 DEF LogOk, Logged
    <2> QED
      BY <1>2, <1>3, <1>4, <2>1, <2>2, <2>3 DEF Awaited
  <1>6. CASE LogFails
    BY <1>2, <1>3, <1>6 DEF LogFails, FlushFails, Awaited
  <1>7. CASE CutOk
    <2>1. PICK w \in Flushed(unflushed) : wal' = Synced(w)
      BY <1>7 DEF CutOk
    <2>2. w \in Seq(Slots) /\ Grown(w)
      BY <1>1, RecType, FlushType, RunningFacts, WriteGrows DEF StoreMatchesLog
    <2>3. \/ Spoiled(w, nseg)
          \/ \A x : Framed(unflushed, x) => Carries(w, nseg, x)
      BY RecType, FlushCarries
    <2>4. /\ \A x : Carries(wal, nseg, x) => Carries(w, nseg, x)
          /\ Spoiled(wal, nseg) => Spoiled(w, nseg)
      BY <1>1, <2>2, GrownKeeps
    <2>5. /\ \A x : Carries(w, nseg, x) => StoredIn(wal', x)
          /\ Spoiled(w, nseg) => PoisonedLog(wal')
      BY <2>1, <2>2, SyncStores
    <2>6. pending_samples' = pending_samples
      BY <1>7 DEF CutOk
    <2>7. /\ \A x : Carries(w, nseg, x) => Carries(wal', nseg', x)
          /\ Spoiled(w, nseg) => Spoiled(wal', nseg')
      BY <2>5, StoredCarries
    <2> QED
      BY <2>3, <2>4, <2>6, <2>7 DEF Awaited
  <1>8. CASE CutSyncFails
    <2>1. nseg' = nseg /\ pending_samples' = pending_samples
      BY <1>8 DEF CutSyncFails
    <2>2. CASE unflushed' = unflushed
      BY <1>2, <2>1, <2>2 DEF Awaited
    <2>3. CASE wal' \in Flushed(unflushed)
      <3>1. \/ Spoiled(wal', nseg)
            \/ \A x : Framed(unflushed, x) => Carries(wal', nseg, x)
        BY <2>3, RecType, FlushCarries
      <3> QED
        BY <1>2, <2>1, <3>1 DEF Awaited
    <2> QED
      BY <1>8, <2>2, <2>3 DEF CutSyncFails, FlushFails
  <1>9. CASE SyncOk \/ SyncFails
    BY <1>2, <1>9 DEF SyncOk, SyncFails, Awaited
  <1> QED
    BY <1>1, <1>5, <1>6, <1>7, <1>8, <1>9
       DEF WalStep, LogNowhere, CutNowhere, CutOpenFails

(* The steps of commit() and close() keep every sample where it is needed. *)
LEMMA WalStepKeepsCommits ==
    ASSUME TypeOK, StoreMatchesLog, CommittedHeld, WalStep
    PROVE  CommittedHeld'
  <1> USE DEF CommittedHeld
  <1>1. /\ phase \in Running /\ phase' \in Running
        /\ UNCHANGED <<by_labels, by_ref, next_ref, mine>>
        /\ Grown(wal')
        /\ rollFailed => rollFailed'
    BY WalStepGrows
  <1>2. TypeOK' /\ wal \in Seq(Slots) /\ wal' \in Seq(Slots)
    BY WalStepType DEF TypeOK
  <1>3. acked' = acked \/ SyncOk
    BY DEF WalStep, LogOk, LogNowhere, LogFails, CutOk, CutNowhere, CutSyncFails,
           CutOpenFails, SyncFails, history
  <1>4. NothingLeftBehind'
    BY WalStepLeavesNothing
  <1>5. (TypeOK =>
          /\ AckedOnFile <=>
                (~rollFailed /\ ~PoisonedLog(wal) => \A s \in acked : \E r \in Nat :
                    /\ StoredIn(wal, Logs(r, s))
                    /\ OwnedIn(wal, r, s[1])
                    /\ phase \in Running => by_labels[s[1]] = r)
          /\ MineOnItsWay <=>
                (phase \in Running /\ ~rollFailed =>
                    \/ Spoiled(wal, nseg)
                    \/ \A s \in mine :
                          Awaited(pending_samples, unflushed, wal, nseg, Logs(by_labels[s[1]], s))))'
    BY CommitForms, PTL
  <1>6. MineOnItsWay'
    BY <1>1, <1>2, <1>5, WalStepKeepsWay, CommitForms
  <1>7. MemoryHolds'
    <2>1. acked' \subseteq acked \cup mine
      BY <1>3 DEF SyncOk
    <2>2. \A s : InStore(s) => InStore(s)'
      BY <1>1 DEF InStore
    <2>3. \A s \in mine' : InStore(s)'
      BY <1>1, <2>2 DEF MemoryHolds
    <2>4. ~rollFailed' => \A s \in acked' : InStore(s)'
      BY <1>1, <2>1, <2>2 DEF MemoryHolds
    <2> QED
      BY <1>1, <2>3, <2>4 DEF MemoryHolds
  <1>8. ReplayHolds'
    BY <1>1 DEF ReplayHolds, Running, Logging
  <1>9. AckedOnFile'
    <2> SUFFICES ASSUME ~rollFailed', ~PoisonedLog(wal'), NEW s \in acked'
                 PROVE  \E r \in Nat :
                          /\ StoredIn(wal', Logs(r, s))
                          /\ OwnedIn(wal', r, s[1])
                          /\ phase' \in Running => by_labels'[s[1]] = r
      BY <1>2, <1>5
    <2>1. CASE s \in acked
      BY <1>1, <2>1, AckedStays DEF StoreMatchesLog
    <2>2. CASE SyncOk /\ s \in mine
      <3>1. /\ fd /\ wal' = Synced(wal) /\ ~rollFailed
            /\ pending_samples = <<>> /\ unflushed = <<>>
        BY <1>1, <2>2 DEF SyncOk, NothingLeftBehind
      <3>2. ~Spoiled(wal, nseg)
        BY <1>2, <3>1, SyncStores
      <3>3. Awaited(pending_samples, unflushed, wal, nseg, Logs(by_labels[s[1]], s))
        BY <1>1, <2>2, <3>1, <3>2, CommitForms
      <3>4. Carries(wal, nseg, Logs(by_labels[s[1]], s))
        BY <3>1, <3>3 DEF Awaited, Framed
      <3>5. StoredIn(wal', Logs(by_labels[s[1]], s))
        BY <1>2, <3>1, <3>4, SyncStores
      <3>6. s[1] \in Labels /\ by_labels[s[1]] # 0 /\ by_labels[s[1]] \in Nat
        BY <1>1, <2>2 DEF TypeOK, MemoryHolds, InStore
      <3>7. OwnedIn(wal', by_labels[s[1]], s[1])
        BY <1>1, <1>2, <3>6, BoundOwned DEF Grown, StoreMatchesLog
      <3> QED
        BY <1>1, <3>5, <3>6, <3>7
    <2> QED
      BY <1>3, <2>1, <2>2 DEF SyncOk
  <1> QED
    BY <1>4, <1>6, <1>7, <1>8, <1>9

-----------------------------------------------------------------------------
(* append.                                                                 *)

\* The series ms holds the sample p.
Holds(ms, p) == \E k \in DOMAIN ms.samples : ms.samples[k] = p

(* MemSeries::append adds its sample and keeps those of every series. *)
LEMMA AppendedHolds ==
    ASSUME NEW refs \in Seq(MemSeries), NEW ref \in 1..Len(refs),
           NEW t \in Times, NEW v \in Values
    PROVE  /\ Holds(Appended(refs, ref, t, v)[ref], [t |-> t, v |-> v])
           /\ \A i \in 1..Len(refs) : \A p :
                 Holds(refs[i], p) => Holds(Appended(refs, ref, t, v)[i], p)
  <1> DEFINE x  == [t |-> t, v |-> v]
             ms == [labels |-> refs[ref].labels, samples |-> Append(refs[ref].samples, x)]
  <1>1. DOMAIN refs = 1..Len(refs) /\ refs[ref] \in MemSeries
    BY LenProperties, ElementOfSeq
  <1>2. x \in Samples /\ refs[ref].samples \in Seq(Samples)
    BY <1>1 DEF Samples, MemSeries
  <1>3. Appended(refs, ref, t, v) = [refs EXCEPT ![ref] = ms]
    BY DEF Appended
  <1>4. ms.samples = Append(refs[ref].samples, x)
    OBVIOUS
  <1> HIDE DEF x, ms
  <1>5. \A i \in 1..Len(refs) :
          Appended(refs, ref, t, v)[i] = IF i = ref THEN ms ELSE refs[i]
    BY <1>1, <1>3
  <1>6. /\ DOMAIN ms.samples = 1..Len(refs[ref].samples) + 1
        /\ \A k \in 1..Len(refs[ref].samples) : ms.samples[k] = refs[ref].samples[k]
        /\ ms.samples[Len(refs[ref].samples) + 1] = x
        /\ DOMAIN refs[ref].samples = 1..Len(refs[ref].samples)
        /\ Len(refs[ref].samples) \in Nat
    BY <1>2, <1>4, AppendProperties, LenProperties
  <1>7. Holds(ms, x) /\ \A p : Holds(refs[ref], p) => Holds(ms, p)
    <2>1. Len(refs[ref].samples) + 1 \in DOMAIN ms.samples
      BY <1>6
    <2>2. \A k \in DOMAIN refs[ref].samples : k \in DOMAIN ms.samples /\ ms.samples[k] = refs[ref].samples[k]
      BY <1>6
    <2> QED
      BY <1>6, <2>1, <2>2 DEF Holds
  <1> QED
    BY <1>5, <1>7 DEF x

(* InStore by way of the series of a label set. *)
LEMMA InStoreForm ==
    \A s : InStore(s) <=>
        by_labels[s[1]] # 0 /\ Holds(by_ref[by_labels[s[1]]], [t |-> s[2], v |-> s[3]])
  BY DEF InStore, Holds

(* append keeps what the head holds and buffers what it adds. *)
LEMMA AppendKeepsCommits ==
    ASSUME TypeOK, StoreMatchesLog, CommittedHeld,
           NEW l \in Labels, NEW t \in Times, NEW v \in Values, append(l, t, v)
    PROVE  CommittedHeld'
  <1> DEFINE fresh == by_labels[l] = 0
             ref   == IF fresh THEN next_ref ELSE by_labels[l]
             refs  == IF fresh THEN WithSeries(ref, l) ELSE by_ref
             new   == [ref |-> ref, t |-> t, v |-> v]
  <1>1. /\ phase = "open" /\ phase' = "open" /\ phase \in Running /\ phase' \in Running
        /\ UNCHANGED <<wal, nseg, unflushed, fd, acked, rollFailed>>
        /\ mine' = mine \cup {<<l, t, v>>}
    BY DEF append, Running, writer, disk
  <1>2. TypeOK'
    BY AppendType
  <1>3. /\ ref \in Nat \ {0} /\ new \in RefSample
        /\ by_ref \in Seq(MemSeries) /\ Len(by_ref) \in Nat /\ by_labels \in [Labels -> Nat]
        /\ wal \in Seq(Slots)
    BY LenProperties DEF TypeOK, RefSample
  <1>4. /\ refs \in Seq(MemSeries) /\ ref \in 1..Len(refs)
        /\ \A i \in 1..Len(by_ref) : i \in 1..Len(refs) /\ refs[i] = by_ref[i]
    <2>1. CASE fresh
      <3>1. ref = next_ref /\ refs = WithSeries(ref, l) /\ Len(by_ref) < ref
        BY <2>1 DEF StoreMatchesLog, StoreOK
      <3> DEFINE ws == WithSeries(ref, l)
      <3>2. /\ ws \in Seq(MemSeries)
            /\ Len(ws) = IF ref > Len(by_ref) THEN ref ELSE Len(by_ref)
            /\ \A i \in 1..Len(ws) : i # ref =>
                  ws[i] = IF i <= Len(by_ref) THEN by_ref[i] ELSE NoSeries
        BY <1>3, WithSeriesShape
      <3> HIDE DEF ws, ref
      <3>3. Len(ws) = ref /\ ref \in 1..Len(ws)
        BY <1>3, <3>1, <3>2
      <3>4. \A i \in 1..Len(by_ref) : i \in 1..Len(ws) /\ i # ref /\ ws[i] = by_ref[i]
        BY <1>3, <3>1, <3>2, <3>3
      <3>5. refs = ws
        BY <3>1 DEF ws
      <3> QED
        BY <3>2, <3>3, <3>4, <3>5
    <2>2. CASE ~fresh
      BY <1>3, <2>2 DEF StoreMatchesLog, StoreOK
    <2> QED
      BY <2>1, <2>2
  <1>5. /\ by_labels' = [by_labels EXCEPT ![l] = ref]
        /\ by_ref' = Appended(refs, ref, t, v)
        /\ pending_samples' = Append(pending_samples, new)
    BY DEF append
  <1>6. \A m \in Labels : by_labels[m] # 0 => by_labels'[m] = by_labels[m]
    BY <1>3, <1>5
  <1>7. by_labels'[l] = ref
    BY <1>3, <1>5
  <1> HIDE DEF refs, ref, fresh
  <1>8. /\ Holds(by_ref'[ref], [t |-> t, v |-> v])
        /\ \A i \in 1..Len(by_ref) : \A p : Holds(by_ref[i], p) => Holds(by_ref'[i], p)
    BY <1>4, <1>5, AppendedHolds
  <1>9. (\A s : InStore(s) <=>
           by_labels[s[1]] # 0 /\ Holds(by_ref[by_labels[s[1]]], [t |-> s[2], v |-> s[3]]))'
    BY InStoreForm, PTL
  <1>10. MemoryHolds'
    <2>1. ASSUME NEW s, s[1] \in Labels, InStore(s)
          PROVE  InStore(s)'
      <3>1. by_labels[s[1]] # 0 /\ Holds(by_ref[by_labels[s[1]]], [t |-> s[2], v |-> s[3]])
        BY <2>1, InStoreForm
      <3>2. by_labels[s[1]] \in 1..Len(by_ref) /\ by_labels'[s[1]] = by_labels[s[1]]
        BY <1>6, <2>1, <3>1 DEF StoreMatchesLog, StoreOK
      <3> QED
        BY <1>8, <1>9, <3>1, <3>2
    <2>2. InStore(<<l, t, v>>)'
      <3>1. <<l, t, v>>[1] = l /\ <<l, t, v>>[2] = t /\ <<l, t, v>>[3] = v
        OBVIOUS
      <3> QED
        BY <1>3, <1>7, <1>8, <1>9, <3>1
    <2>3. \A s \in mine \cup acked : s[1] \in Labels
      BY DEF TypeOK
    <2>4. \A s \in mine' : InStore(s)'
      BY <1>1, <2>1, <2>2, <2>3 DEF CommittedHeld, MemoryHolds
    <2>5. ~rollFailed' => \A s \in acked' : InStore(s)'
      BY <1>1, <2>1, <2>3 DEF CommittedHeld, MemoryHolds
    <2> QED
      BY <1>1, <2>4, <2>5 DEF MemoryHolds
  <1>11. (TypeOK =>
          /\ AckedOnFile <=>
                (~rollFailed /\ ~PoisonedLog(wal) => \A s \in acked : \E r \in Nat :
                    /\ StoredIn(wal, Logs(r, s))
                    /\ OwnedIn(wal, r, s[1])
                    /\ phase \in Running => by_labels[s[1]] = r)
          /\ MineOnItsWay <=>
                (phase \in Running /\ ~rollFailed =>
                    \/ Spoiled(wal, nseg)
                    \/ \A s \in mine :
                          Awaited(pending_samples, unflushed, wal, nseg, Logs(by_labels[s[1]], s))))'
    BY CommitForms, PTL
  <1>12. AckedOnFile'
    <2>1. Grown(wal')
      <3>1. BoundLog(wal)
        BY <1>1, RunningFacts
      <3> QED
        BY <1>1, <1>3, <3>1, LenProperties DEF Grown
    <2>2. ~rollFailed' /\ ~PoisonedLog(wal') => \A s \in acked' : \E r \in Nat :
             /\ StoredIn(wal', Logs(r, s))
             /\ OwnedIn(wal', r, s[1])
             /\ phase' \in Running => by_labels'[s[1]] = r
      BY <1>1, <1>6, <2>1, AckedStays DEF CommittedHeld, StoreMatchesLog
    <2> QED
      BY <1>2, <1>11, <2>2
  <1>13. MineOnItsWay'
    <2>1. /\ pending_samples \in Seq(RefSample)
          /\ DOMAIN pending_samples = 1..Len(pending_samples) /\ Len(pending_samples) \in Nat
          /\ DOMAIN pending_samples' = 1..Len(pending_samples')
      BY <1>2, LenProperties DEF TypeOK
    <2> HIDE DEF new
    <2>2. /\ Len(pending_samples') = Len(pending_samples) + 1
          /\ \A k \in 1..Len(pending_samples) : pending_samples'[k] = pending_samples[k]
          /\ pending_samples'[Len(pending_samples) + 1] = new
      BY <1>3, <1>5, <2>1, AppendProperties
    <2>3. Len(pending_samples) + 1 \in DOMAIN pending_samples'
      BY <2>1, <2>2
    <2>4. \A k \in DOMAIN pending_samples : k \in DOMAIN pending_samples'
      BY <2>1, <2>2
    <2>5. Awaited(pending_samples', unflushed', wal', nseg', new)
      BY <2>2, <2>3 DEF Awaited
    <2>6. \A x : Awaited(pending_samples, unflushed, wal, nseg, x)
                   => Awaited(pending_samples', unflushed', wal', nseg', x)
      BY <1>1, <2>1, <2>2, <2>4 DEF Awaited
    <2>7. ASSUME NEW s \in mine', ~rollFailed, ~Spoiled(wal, nseg)
          PROVE  Awaited(pending_samples', unflushed', wal', nseg', Logs(by_labels'[s[1]], s))
      <3>1. CASE s \in mine
        <4>1. s[1] \in Labels /\ by_labels[s[1]] # 0
          BY <1>1, <3>1 DEF TypeOK, CommittedHeld, MemoryHolds, InStore
        <4>2. by_labels'[s[1]] = by_labels[s[1]]
          BY <1>6, <4>1
        <4> QED
          BY <1>1, <2>6, <2>7, <3>1, <4>2, CommitForms DEF CommittedHeld
      <3>2. CASE s = <<l, t, v>>
        <4>1. Logs(by_labels'[s[1]], s) = new
          BY <1>7, <3>2 DEF Logs, new
        <4> QED
          BY <2>5, <4>1
      <3> QED
        BY <1>1, <2>7, <3>1, <3>2
    <2> QED
      BY <1>1, <1>2, <1>11, <2>7
  <1>14. NothingLeftBehind'
    <2>1. pending_samples' # <<>>
      <3>1. pending_samples \in Seq(RefSample)
        BY DEF TypeOK
      <3> QED
        BY <1>3, <1>5, <3>1, AppendProperties
    <2> QED
      BY <1>1, <2>1 DEF CommittedHeld, NothingLeftBehind
  <1>15. ReplayHolds'
    BY <1>1 DEF ReplayHolds
  <1> QED
    BY <1>10, <1>12, <1>13, <1>14, <1>15 DEF CommittedHeld

-----------------------------------------------------------------------------
(* The end of a process.                                                   *)

(* While no head is open, what counts is on file. *)
LEMMA IdleCommits ==
    AckedOnFile /\ ReplayHolds /\ phase \notin Running /\ mine = {} => CommittedHeld
  BY DEF CommittedHeld, MemoryHolds, MineOnItsWay, NothingLeftBehind

(* The end of a process, and a power loss, keep every acknowledged sample. *)
LEMMA EndKeepsCommits ==
    ASSUME TypeOK, StoreMatchesLog, CommittedHeld,
           Destroy \/ DestroyFails \/ Crash \/ PowerLoss
    PROVE  CommittedHeld'
  <1>0. TypeOK' /\ wal \in Seq(Slots) /\ wal' \in Seq(Slots)
    BY EndType DEF TypeOK
  <1>1. (AckedOnFile /\ ReplayHolds /\ phase \notin Running /\ mine = {} => CommittedHeld)'
    BY IdleCommits, PTL
  <1>2. /\ phase' = "down" /\ phase' \notin Running /\ mine' = {}
        /\ acked' = acked /\ rollFailed' = rollFailed
    <2>1. Gone => phase' = "down" /\ mine' = {} /\ acked' = acked /\ rollFailed' = rollFailed
      BY DEF Gone
    <2>2. PowerLoss => /\ phase' = "down" /\ mine' = mine /\ acked' = acked
                       /\ rollFailed' = rollFailed /\ phase \notin Running
      BY DEF PowerLoss, Running, Logging
    <2>3. phase \notin Running => mine = {}
      BY DEF CommittedHeld, MemoryHolds
    <2>4. "down" \notin Running
      BY DEF Running, Logging
    <2> QED
      BY <2>1, <2>2, <2>3, <2>4 DEF Destroy, DestroyFails, Crash
  <1>3. ReplayHolds'
    BY <1>2 DEF ReplayHolds
  <1>4. (TypeOK =>
          (AckedOnFile <=>
             (~rollFailed /\ ~PoisonedLog(wal) => \A s \in acked : \E r \in Nat :
                /\ StoredIn(wal, Logs(r, s))
                /\ OwnedIn(wal, r, s[1])
                /\ phase \in Running => by_labels[s[1]] = r)))'
    BY CommitForms, PTL
  <1>5. ASSUME phase \in Running, Grown(wal')
        PROVE  AckedOnFile'
    <2>1. ~rollFailed /\ ~PoisonedLog(wal') => \A s \in acked : \E r \in Nat :
             /\ StoredIn(wal', Logs(r, s))
             /\ OwnedIn(wal', r, s[1])
             /\ phase' \in Running => by_labels'[s[1]] = r
      BY <1>2, <1>5, AckedStays DEF CommittedHeld, StoreMatchesLog
    <2> QED
      BY <1>0, <1>2, <1>4, <2>1
  <1>6. ASSUME wal' = wal
        PROVE  AckedOnFile'
    BY <1>0, <1>2, <1>4, <1>6, CommitForms DEF CommittedHeld
  <1>7. ASSUME phase \in Running,
               NEW recs \in {unflushed, Append(unflushed, Rec)},
               NEW w \in Flushed(recs) \cup Cuttings(recs)
        PROVE  Grown(w) /\ Grown(Synced(w))
    BY <1>7, RunningFacts, RecType, WriteGrows DEF StoreMatchesLog
  <1>8. CASE Destroy
    <2>1. phase \in Running /\ (wal' = wal \/ Grown(wal'))
      BY <1>7, <1>8 DEF Destroy, Running
    <2> QED
      BY <1>1, <1>2, <1>3, <1>5, <1>6, <2>1
  <1>9. CASE DestroyFails
    <2>1. phase \in Running /\ Grown(wal')
      BY <1>7, <1>9 DEF DestroyFails, Running
    <2> QED
      BY <1>1, <1>2, <1>3, <1>5, <2>1
  <1>10. CASE Crash
    <2>1. wal' = wal \/ (phase \in Running /\ Grown(wal'))
      BY <1>7, <1>10 DEF Crash, Running
    <2> QED
      BY <1>1, <1>2, <1>3, <1>5, <1>6, <2>1
  <1>11. CASE PowerLoss
    <2>1. PICK lost \in SUBSET {i \in DOMAIN wal : ~wal[i].durable} :
            \E type \in [lost -> {"Lost", "Torn", "Bad"}] :
               wal' = [i \in DOMAIN wal |->
                [seg |-> wal[i].seg, durable |-> TRUE,
                 type |-> IF i \in lost THEN type[i] ELSE wal[i].type,
                 items |-> IF i \in lost THEN <<>> ELSE wal[i].items]]
      BY <1>11 DEF PowerLoss
    <2>2. DOMAIN wal = 1..Len(wal) /\ DOMAIN wal' = 1..Len(wal') /\ Len(wal) \in Nat /\ Len(wal') \in Nat
      BY <1>0, LenProperties
    <2>3. DOMAIN wal' = DOMAIN wal
      BY <2>1
    <2>4. Len(wal') = Len(wal)
      BY <2>2, <2>3, SameInterval
    <2>5. \A i \in 1..Len(wal) :
            /\ wal'[i].type = "Series" => wal[i].type = "Series" /\ wal'[i].items = wal[i].items
            /\ wal[i].durable =>
                 wal'[i].type = wal[i].type /\ wal'[i].items = wal[i].items /\ wal'[i].durable
      BY <2>1, <2>2
    <2>6. PoisonedLog(wal) => PoisonedLog(wal')
      BY <2>4, <2>5 DEF PoisonedLog
    <2>7. \A x : StoredIn(wal, x) => StoredIn(wal', x)
      BY <2>4, <2>5 DEF StoredIn
    <2>8. \A r, l : OwnedIn(wal, r, l) => OwnedIn(wal', r, l)
      BY <2>4, <2>5 DEF OwnedIn
    <2>9. AckedOnFile'
      BY <1>0, <1>2, <1>4, <2>6, <2>7, <2>8, CommitForms DEF CommittedHeld
    <2> QED
      BY <1>1, <1>2, <1>3, <2>9
  <1> QED
    BY <1>8, <1>9, <1>10, <1>11

-----------------------------------------------------------------------------
(* open().                                                                 *)

(* A series that a replay inserts takes no sample from another one. *)
LEMMA InsertKeepsSamples ==
    ASSUME TypeOK, NEW ref \in Nat, NEW l \in Labels, insert_with_ref(ref, l),
           NEW x, Replayed(x)
    PROVE  Replayed(x)'
  <1>1. x.ref \in 1..Len(by_ref) /\ by_ref[x.ref].labels # NoLabels
    BY DEF Replayed, RefTaken
  <1>2. CASE by_ref' = by_ref
    BY <1>2 DEF Replayed, RefTaken
  <1>3. CASE by_ref' # by_ref
    <2>1. ref # 0 /\ ~RefTaken(ref) /\ by_ref' = WithSeries(ref, l)
      BY <1>3 DEF insert_with_ref, InsertRefused, store
    <2>2. x.ref # ref
      BY <1>1, <2>1 DEF RefTaken
    <2> DEFINE ws == WithSeries(ref, l)
    <2>3. /\ Len(ws) = IF ref > Len(by_ref) THEN ref ELSE Len(by_ref)
          /\ \A i \in 1..Len(ws) : i # ref =>
                ws[i] = IF i <= Len(by_ref) THEN by_ref[i] ELSE NoSeries
      BY <2>1, WithSeriesShape
    <2> HIDE DEF ws
    <2>4. Len(by_ref) \in Nat
      BY LenProperties DEF TypeOK
    <2>5. x.ref \in 1..Len(ws) /\ ws[x.ref] = by_ref[x.ref]
      BY <1>1, <2>2, <2>3, <2>4
    <2>6. by_ref' = ws
      BY <2>1 DEF ws
    <2> QED
      BY <1>1, <2>5, <2>6 DEF Replayed, RefTaken
  <1> QED
    BY <1>2, <1>3

(* Every step of a replay keeps what it has read. *)
LEMMA ReplayKeepsCommits ==
    ASSUME TypeOK, StoreMatchesLog, CommittedHeld,
           open \/ ReplaySeries \/ ReplaySample \/ ReplayNext \/ ReplayCorrupt \/ OpenFails
    PROVE  CommittedHeld'
  <1> USE DEF store, pending, writer, disk, history
  <1>1. /\ phase \notin Running
        /\ phase' \in {"replay", "failed"} /\ phase' \notin Running
        /\ UNCHANGED <<wal, nseg, mine, acked, rollFailed>>
    <2>1. /\ phase \in {"down", "failed", "replay"}
          /\ phase' \in {"replay", "failed"}
          /\ UNCHANGED <<wal, nseg, mine, acked, rollFailed>>
      BY DEF open, ReplaySeries, ReplaySample, ReplayNext, ReplayCorrupt, OpenFails, AtItem,
             ReplayFails
    <2> QED
      BY <2>1 DEF Running, Logging
  <1>2. (AckedOnFile /\ ReplayHolds /\ phase \notin Running /\ mine = {} => CommittedHeld)'
    BY IdleCommits, PTL
  <1>3. mine' = {}
    BY <1>1 DEF CommittedHeld, MemoryHolds
  <1>4. AckedOnFile'
    BY <1>1 DEF CommittedHeld, AckedOnFile, OwnedBy, Poisoned, IsSeries
  <1>5. wal \in Seq(Slots) /\ DOMAIN wal = 1..Len(wal) /\ Len(wal) \in Nat
        /\ cursor \in [slot : Nat \ {0}, item : Nat \ {0}]
    BY LenProperties DEF TypeOK
  <1>6. ReplayHolds'
    <2>1. CASE phase' = "failed"
      BY <2>1 DEF ReplayHolds
    <2>2. CASE open
      <3>1. cursor' = [slot |-> 1, item |-> 1]
        BY <2>2 DEF open, AtStart
      <3>2. \A i \in 1..Len(wal) : ~(i < 1)
        BY <1>5
      <3>3. ASSUME cursor'.slot \in DOMAIN wal', wal'[cursor'.slot].type = "SamplesV2",
                   NEW k \in DOMAIN wal'[cursor'.slot].items
            PROVE  ~(k < cursor'.item)
        <4>1. wal[cursor'.slot].items \in Seq(RefSample)
          <5>1. wal[cursor'.slot] \in Slots
            BY <1>1, <1>5, <3>3, ElementOfSeq
          <5> QED
            BY <1>1, <3>3, <5>1 DEF Slots
        <4>2. k \in 1..Len(wal[cursor'.slot].items)
          BY <1>1, <3>3, <4>1, LenProperties
        <4> QED
          BY <3>1, <4>1, <4>2, LenProperties
      <3> QED
        BY <1>1, <1>5, <3>1, <3>2, <3>3 DEF ReplayHolds, Cur
    <2>3. CASE ReplaySeries /\ phase' = "replay"
      <3>1. /\ phase = "replay" /\ cursor.slot \in 1..Len(wal) /\ Cur.type = "Series"
            /\ insert_with_ref(Item.ref, Item.labels)
            /\ cursor'.slot = cursor.slot
        BY <1>5, <2>3 DEF ReplaySeries, AtItem, ReplayFails, NextItem
      <3>2. Item.ref \in Nat /\ Item.labels \in Labels
        <4>1. Cur.items \in Seq(RefSeries) /\ cursor.item \in 1..Len(Cur.items)
          BY <1>5, <2>3, <3>1, SeriesItems, LenProperties DEF Cur, ReplaySeries, AtItem
        <4>2. Item \in RefSeries
          BY <4>1, ElementOfSeq DEF Item
        <4> QED
          BY <4>2 DEF RefSeries
      <3>3. \A x : Replayed(x) => Replayed(x)'
        BY <3>1, <3>2, InsertKeepsSamples
      <3> QED
        BY <1>1, <3>1, <3>3 DEF CommittedHeld, ReplayHolds, Cur
    <2>4. CASE ReplaySample /\ phase' = "replay"
      <3>1. /\ phase = "replay" /\ cursor.slot \in 1..Len(wal) /\ Cur.type = "SamplesV2"
            /\ RefTaken(Item.ref)
            /\ cursor' = [slot |-> cursor.slot, item |-> cursor.item + 1]
            /\ by_ref' = Appended(by_ref, Item.ref, Item.t, Item.v)
        BY <1>5, <2>4 DEF ReplaySample, AtItem, ReplayFails, NextItem
      <3>2. cursor.item \in DOMAIN Cur.items /\ Item \in RefSample
        <4>1. Cur \in Slots
          BY <1>5, <3>1, ElementOfSeq DEF Cur
        <4>2. Cur.items \in Seq(RefSample)
          BY <3>1, <4>1 DEF Slots
        <4>3. cursor.item \in 1..Len(Cur.items)
          BY <1>5, <2>4, <4>2, LenProperties DEF ReplaySample, AtItem
        <4> QED
          BY <4>2, <4>3, LenProperties, ElementOfSeq DEF Item
      <3>3. /\ by_ref \in Seq(MemSeries) /\ Item.ref \in 1..Len(by_ref)
            /\ Item.ref \in Nat /\ Item.t \in Times /\ Item.v \in Values
        BY <3>1, <3>2 DEF TypeOK, RefTaken, RefSample
      <3>4. /\ Len(by_ref') = Len(by_ref)
            /\ \A i \in 1..Len(by_ref) : by_ref'[i].labels = by_ref[i].labels
        BY <3>1, <3>3, AppendedShape
      <3>5. /\ Holds(by_ref'[Item.ref], [t |-> Item.t, v |-> Item.v])
            /\ \A i \in 1..Len(by_ref) : \A p : Holds(by_ref[i], p) => Holds(by_ref'[i], p)
        BY <3>1, <3>3, AppendedHolds
      <3>6. \A x : Replayed(x) => Replayed(x)'
        BY <3>4, <3>5 DEF Replayed, RefTaken, Holds
      <3>7. \A x : x.ref = Item.ref /\ x.t = Item.t /\ x.v = Item.v => Replayed(x)'
        BY <3>1, <3>3, <3>4, <3>5 DEF Replayed, RefTaken, Holds
      <3>8. ASSUME NEW k \in DOMAIN Cur.items, k < cursor.item + 1
            PROVE  Replayed(Cur.items[k])'
        <4>1. CASE k = cursor.item
          <5>1. Cur' = Cur /\ Cur.items[k] = Item
            BY <1>1, <3>1, <4>1 DEF Cur, Item
          <5> QED
            BY <3>7, <5>1
        <4>2. CASE k # cursor.item
          <5>1. DOMAIN Cur.items = 1..Len(Cur.items)
            <6>1. Cur \in Slots
              BY <1>5, <3>1, ElementOfSeq DEF Cur
            <6>2. Cur.items \in Seq(RefSample)
              BY <3>1, <6>1 DEF Slots
            <6> QED
              BY <6>2, LenProperties
          <5>2. k < cursor.item
            BY <1>5, <3>8, <4>2, <5>1
          <5>3. cursor.slot \in DOMAIN wal
            BY <1>5, <3>1
          <5>4. Replayed(Cur.items[k])
            BY <3>1, <5>2, <5>3 DEF CommittedHeld, ReplayHolds
          <5>5. \A x : Replayed(x) => Replayed(x)'
            BY <3>6
          <5> QED
            BY <1>1, <3>1, <5>4, <5>5 DEF Cur
        <4> QED
          BY <4>1, <4>2
      <3> QED
        BY <1>1, <3>1, <3>6, <3>8 DEF CommittedHeld, ReplayHolds, Cur
    <2>5. CASE ReplayNext
      <3>1. /\ phase = "replay" /\ cursor.slot \in 1..Len(wal)
            /\ Cur.type \notin {"Torn", "Bad"} /\ cursor.item > Len(Cur.items)
            /\ cursor' = [slot |-> cursor.slot + 1, item |-> 1] /\ by_ref' = by_ref
        BY <1>5, <2>5 DEF ReplayNext
      <3>2. \A i \in 1..Len(wal) : i < cursor.slot + 1 => i < cursor.slot \/ i = cursor.slot
        BY <1>5
      <3>3. Cur.type = "SamplesV2" => \A k \in DOMAIN Cur.items : k < cursor.item
        <4> SUFFICES ASSUME Cur.type = "SamplesV2", NEW k \in DOMAIN Cur.items
                     PROVE  k < cursor.item
          OBVIOUS
        <4>1. Cur \in Slots
          BY <1>5, <3>1, ElementOfSeq DEF Cur
        <4>2. Cur.items \in Seq(RefSample)
          BY <4>1 DEF Slots
        <4>3. k \in 1..Len(Cur.items) /\ Len(Cur.items) \in Nat
          BY <4>2, LenProperties
        <4> QED
          BY <1>5, <3>1, <4>3
      <3>4. ASSUME NEW i, NEW k \in DOMAIN wal[i].items, i \in 1..Len(wal),
                   wal[i].type = "SamplesV2"
            PROVE  i = cursor.slot + 1 => ~(k < 1)
        <4>1. wal[i] \in Slots
          BY <1>5, <3>4, ElementOfSeq
        <4>2. wal[i].items \in Seq(RefSample)
          BY <3>4, <4>1 DEF Slots
        <4>3. k \in 1..Len(wal[i].items) /\ Len(wal[i].items) \in Nat
          BY <4>2, LenProperties
        <4> QED
          BY <4>3
      <3>5. \A x : Replayed(x) => Replayed(x)'
        BY <3>1 DEF Replayed, RefTaken
      <3>6. \A i \in 1..Len(wal) : i < cursor.slot + 1 =>
              /\ wal[i].type \notin {"Torn", "Bad"}
              /\ wal[i].type = "SamplesV2" =>
                    \A k \in DOMAIN wal[i].items : Replayed(wal[i].items[k])
        BY <1>5, <3>1, <3>2, <3>3 DEF CommittedHeld, ReplayHolds, Cur
      <3> QED
        BY <1>1, <1>5, <3>1, <3>4, <3>5, <3>6 DEF ReplayHolds, Cur
    <2> QED
      BY <1>1, <2>1, <2>2, <2>3, <2>4, <2>5
         DEF ReplayCorrupt, OpenFails, ReplayFails
  <1> QED
    BY <1>1, <1>2, <1>3, <1>4, <1>6

(* A replay that comes to the end of the log has read all of it. *)
LEMMA EndOfStreamReadsAll ==
    ASSUME TypeOK, StoreMatchesLog, ReplayHolds, phase = "replay", AtEndOfStream,
           NEW i \in 1..Len(wal)
    PROVE  /\ wal[i].type # "Bad"
           /\ wal[i].type = "SamplesV2" =>
                 \A k \in DOMAIN wal[i].items : Replayed(wal[i].items[k])
  <1>1. /\ wal \in Seq(Slots) /\ DOMAIN wal = 1..Len(wal) /\ Len(wal) \in Nat
        /\ cursor.slot \in Nat \ {0} /\ nseg \in Nat
    BY LenProperties DEF TypeOK
  <1>2. CASE i < cursor.slot
    BY <1>1, <1>2 DEF ReplayHolds
  <1>3. CASE i = cursor.slot
    BY <1>1, <1>3 DEF AtEndOfStream, Cur
  <1>4. CASE i > cursor.slot
    <2>1. cursor.slot \in 1..Len(wal) /\ EndsSegment(cursor.slot) /\ Cur.seg = nseg
      BY <1>1, <1>4 DEF AtEndOfStream
    <2>2. wal[i].seg <= nseg /\ nseg <= wal[i].seg
      BY <1>1, <1>4, <2>1 DEF StoreMatchesLog, SegmentsInOrder, Cur
    <2>3. wal[i].seg \in Nat
      BY <1>1, ElementOfSeq DEF Slots
    <2>4. wal[i].seg = nseg
      BY <1>1, <2>2, <2>3
    <2>5. wal[i].type = "Lost"
      BY <1>1, <1>4, <2>1, <2>4 DEF EndsSegment, Cur
    <2> QED
      BY <2>5
  <1> QED
    BY <1>1, <1>2, <1>3, <1>4

(* open() succeeds only with every acknowledged sample in memory. *)
LEMMA ReplayDoneKeepsCommits ==
    ASSUME TypeOK, StoreMatchesLog, CommittedHeld, ReplayDone
    PROVE  CommittedHeld'
  <1> USE DEF store, pending, writer, disk, history
  <1>1. /\ phase = "replay" /\ phase' = "open" /\ phase \notin Running /\ phase' \in Running
        /\ UNCHANGED <<by_labels, by_ref, next_ref, pending_series, pending_samples,
                       unflushed, wal, mine, acked, rollFailed>>
        /\ fd' /\ AtEndOfStream
    BY DEF ReplayDone, Running, Logging
  <1>2. mine = {} /\ unflushed = <<>> /\ ReplayHolds
    BY <1>1 DEF CommittedHeld, MemoryHolds, StoreMatchesLog, NothingPending
  <1>3. TypeOK' /\ wal \in Seq(Slots) /\ DOMAIN wal = 1..Len(wal)
    <2>1. Replay
      BY DEF Replay
    <2> QED
      BY <2>1, OpenType, LenProperties DEF TypeOK
  <1>4. ~PoisonedLog(wal)
    BY <1>1, <1>2, EndOfStreamReadsAll DEF PoisonedLog
  <1>5. ASSUME NEW s \in acked, ~rollFailed
        PROVE  \E r \in Nat : /\ StoredIn(wal, Logs(r, s))
                              /\ OwnedIn(wal, r, s[1])
                              /\ by_labels[s[1]] = r
                              /\ InStore(s)
    <2>1. PICK r \in Nat : StoredIn(wal, Logs(r, s)) /\ OwnedIn(wal, r, s[1])
      BY <1>4, <1>5, CommitForms DEF CommittedHeld
    <2>2. Replayed(Logs(r, s))
      BY <1>1, <1>2, <2>1, EndOfStreamReadsAll DEF StoredIn
    <2>3. /\ r \in 1..Len(by_ref) /\ by_ref[r].labels # NoLabels
          /\ \E k \in DOMAIN by_ref[r].samples :
                by_ref[r].samples[k] = [t |-> s[2], v |-> s[3]]
      BY <2>2 DEF Replayed, RefTaken, Logs
    <2> DEFINE m == by_ref[r].labels
    <2>4. m \in Labels
      <3>1. by_ref[r] \in MemSeries
        BY <2>3, ElementOfSeq DEF TypeOK
      <3> QED
        BY <2>3, <3>1 DEF MemSeries
    <2>5. by_labels[m] = r /\ r # 0
      BY <2>3, LenProperties DEF StoreMatchesLog, StoreOK, TypeOK
    <2> HIDE DEF m
    <2>6. PICK i \in 1..Len(wal) : wal[i].type = "Series" /\
             \E k \in DOMAIN wal[i].items : wal[i].items[k] = [ref |-> r, labels |-> m]
      BY <1>1, <1>3, <2>4, <2>5 DEF StoreMatchesLog, ReplayCovers, IsSeries
    <2>7. m = s[1]
      BY <2>1, <2>6 DEF OwnedIn
    <2>8. InStore(s)
      BY <2>3, <2>5, <2>7 DEF InStore
    <2> QED
      BY <2>1, <2>5, <2>7, <2>8
  <1>6. (TypeOK =>
          (AckedOnFile <=>
             (~rollFailed /\ ~PoisonedLog(wal) => \A s \in acked : \E r \in Nat :
                /\ StoredIn(wal, Logs(r, s))
                /\ OwnedIn(wal, r, s[1])
                /\ phase \in Running => by_labels[s[1]] = r)))'
    BY CommitForms, PTL
  <1>7. AckedOnFile'
    BY <1>1, <1>3, <1>5, <1>6
  <1>8. MemoryHolds'
    <2>1. \A s : InStore(s) => InStore(s)'
      BY <1>1 DEF InStore
    <2> QED
      BY <1>1, <1>2, <1>5, <2>1 DEF MemoryHolds
  <1>9. MineOnItsWay' /\ NothingLeftBehind' /\ ReplayHolds'
    BY <1>1, <1>2 DEF MineOnItsWay, NothingLeftBehind, ReplayHolds
  <1> QED
    BY <1>7, <1>8, <1>9 DEF CommittedHeld

-----------------------------------------------------------------------------

(* A fresh head has nothing to lose. *)
LEMMA InitCommits ==
    ASSUME Init
    PROVE  CommittedHeld
  <1>1. acked = {} /\ mine = {} /\ phase = "down"
    BY DEF Init
  <1> QED
    BY <1>1 DEF CommittedHeld, AckedOnFile, MemoryHolds, MineOnItsWay, NothingLeftBehind,
                ReplayHolds, Running, Logging

(* Every step keeps the inductive invariant. *)
LEMMA NextKeepsCommits ==
    ASSUME TypeOK, StoreMatchesLog, CommittedHeld, [Next]_vars
    PROVE  CommittedHeld'
  <1>1. CASE \E l \in Labels, t \in Times, v \in Values : append(l, t, v)
    BY <1>1, AppendKeepsCommits
  <1>2. CASE commit
    <2> USE DEF store, pending, writer, disk, history
    <2>1. /\ phase = "open" /\ phase \in Running /\ phase' \in Running
          /\ phase' = IF pending_series # <<>> THEN "logSeries"
                      ELSE IF pending_samples # <<>> THEN "logSamples" ELSE "sync"
          /\ UNCHANGED <<by_labels, by_ref, next_ref, pending_series, pending_samples, fd, wal,
                         nseg, unflushed, mine, acked, rollFailed>>
      BY <1>2 DEF commit, Running, Logging
    <2>2. NothingLeftBehind'
      BY <2>1 DEF CommittedHeld, NothingLeftBehind
    <2>3. AckedOnFile'
      BY <2>1 DEF CommittedHeld, AckedOnFile, OwnedBy, Poisoned, IsSeries
    <2>4. MemoryHolds'
      BY <2>1 DEF CommittedHeld, MemoryHolds, InStore
    <2>5. MineOnItsWay'
      BY <2>1 DEF CommittedHeld, MineOnItsWay, OnItsWay, Syncing
    <2>6. ReplayHolds'
      BY <2>1 DEF ReplayHolds, Running, Logging
    <2> QED
      BY <2>2, <2>3, <2>4, <2>5, <2>6 DEF CommittedHeld
  <1>3. CASE WalStep
    BY <1>3, WalStepKeepsCommits
  <1>4. CASE Destroy \/ DestroyFails \/ Crash \/ PowerLoss
    BY <1>4, EndKeepsCommits
  <1>5. CASE open \/ Replay
    BY <1>5, ReplayKeepsCommits, ReplayDoneKeepsCommits DEF Replay
  <1>6. CASE UNCHANGED vars
    <2>1. UNCHANGED <<phase, by_labels, by_ref, next_ref, pending_series, pending_samples, fd,
                      unflushed, wal, nseg, cursor, mine, acked, rollFailed>>
      BY <1>6 DEF vars, store, pending, writer, disk, history
    <2>2. NothingLeftBehind'
      BY <2>1 DEF CommittedHeld, NothingLeftBehind
    <2>3. AckedOnFile'
      BY <2>1 DEF CommittedHeld, AckedOnFile, OwnedBy, Poisoned, IsSeries
    <2>4. MemoryHolds'
      BY <2>1 DEF CommittedHeld, MemoryHolds, InStore
    <2>5. MineOnItsWay'
      BY <2>1 DEF CommittedHeld, MineOnItsWay, OnItsWay, Syncing
    <2>6. ReplayHolds'
      <3>1. \A x : Replayed(x) => Replayed(x)'
        BY <2>1 DEF Replayed, RefTaken
      <3>2. Cur' = Cur
        BY <2>1 DEF Cur
      <3> QED
        BY <2>1, <3>1, <3>2 DEF CommittedHeld, ReplayHolds
    <2> QED
      BY <2>2, <2>3, <2>4, <2>5, <2>6 DEF CommittedHeld
  <1> QED
    BY <1>1, <1>2, <1>3, <1>4, <1>5, <1>6 DEF Next

(* From append() to the fsync and through every replay, no sample that a
   commit covers drops out: the inductive invariant behind NoSilentLoss. *)
THEOREM CommitsAreHeld == Spec => []CommittedHeld
  <1>1. Init => CommittedHeld
    BY InitCommits
  <1>2. TypeOK /\ StoreMatchesLog /\ CommittedHeld /\ [Next]_vars => CommittedHeld'
    BY NextKeepsCommits
  <1> QED
    BY <1>1, <1>2, TypeCorrect, StoreLogAgreement, PTL DEF Spec

(* Whenever open() succeeds, after any sequence of crashes, power losses and
   failed calls, the head holds every sample that a successful commit()
   covered, unless a segment file could not be created. *)
THEOREM AckedNeverLost == Spec => []NoSilentLoss
  <1>1. CommittedHeld => NoSilentLoss
    BY DEF CommittedHeld, MemoryHolds, NoSilentLoss, Running
  <1> QED
    BY <1>1, CommitsAreHeld, PTL
=============================================================================
