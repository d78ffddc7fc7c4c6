-------------------------------- MODULE Head --------------------------------
(***************************************************************************)
(* The head block: Head (src/src/head/head.cpp), its SeriesStore and the   *)
(* sample lists of its MemSeries, over a write-ahead log seen one record   *)
(* at a time.  append() changes memory only; commit() logs at most one     *)
(* Series and one SamplesV2 record and fsyncs; open() replays the log.     *)
(*                                                                         *)
(* The head is single threaded, so what interleaves with it is the         *)
(* environment: I/O calls that fail part way, process crashes between any  *)
(* two steps of a call, and power losses that drop what was not fsynced.   *)
(*                                                                         *)
(* The log is a sequence of slots, in file order.  A slot's type is        *)
(*   "Series", "SamplesV2"  a complete record;                             *)
(*   "Torn"  the head of a record that ends between two fragments;         *)
(*   "Bad"   bytes the page reader refuses: a fragment cut short, bytes    *)
(*           that are out of step with the page grid, or a record whose    *)
(*           first fragment is empty, so that a second one is marked First *)
(*           too;                                                          *)
(*   "Lost"  nothing: the slot's bytes did not survive a power loss.       *)
(* Sizes are left out, so the model takes both sides of every decision     *)
(* that the code makes on an offset.                                       *)
(***************************************************************************)
EXTENDS Naturals, Sequences

CONSTANTS
    Labels,     \* label sets a caller may append to
    NoLabels,   \* an empty slot of by_ref_
    Times,      \* timestamps
    Values,     \* sample values
    MaxBatch,   \* bound: samples buffered between two commits
    MaxRecs,    \* bound: records in the log when a commit starts
    MaxSegs,    \* bound: segment files
    MaxFaults,  \* bound: I/O calls that fail
    MaxCrashes  \* bound: process crashes and power losses

ASSUME HeadConstants ==
    /\ NoLabels \notin Labels
    /\ Times \subseteq Nat
    /\ MaxBatch \in Nat /\ MaxRecs \in Nat /\ MaxSegs \in Nat
    /\ MaxFaults \in Nat /\ MaxCrashes \in Nat

VARIABLES
    phase,           \* where the process is; see Phases
    closing,         \* the running commit was called by close()
    by_labels,       \* SeriesStore: labels -> ref, 0 when absent
    by_ref,          \* SeriesStore: ref -> series
    next_ref,        \* SeriesStore: the next ref to hand out
    pending_series,  \* series created since their Series record was logged
    pending_samples, \* samples appended since their record was logged
    wal,             \* the slots of all segment files
    nseg,            \* number of segment files
    fd,              \* the writer has a segment file open
    skewed,          \* a failed write may have put the open file out of step
                     \* with the page writer's offsets
    unflushed,       \* records framed in the page writer, not yet written
    cursor,          \* replay position: slot and item within the slot
    why,             \* why the last open() failed
    mine,            \* history: samples appended since open()
    acked,           \* history: samples covered by a successful commit()
    rollFailed,      \* history: a new segment file could not be created
    faults,          \* I/O failures so far
    crashes,         \* crashes and power losses so far
    powerLost        \* history: a power loss has happened

store   == <<by_labels, by_ref, next_ref>>
pending == <<pending_series, pending_samples>>
writer  == <<fd, skewed, unflushed>>
disk    == <<wal, nseg>>
history == <<mine, acked, rollFailed, faults, crashes, powerLost>>
vars    == <<phase, closing, store, pending, writer, disk, cursor, why, history>>

Phases  == {"down", "replay", "failed", "open", "logSeries", "logSamples",
            "sync", "cut", "closed"}
Logging == {"logSeries", "logSamples"}
Running == {"open", "sync", "cut", "closed"} \cup Logging
Reasons == {"none", "RefConflict", "UnknownRef", "OutOfOrder",
            "CorruptMidStream", "InvalidFraming", "Io"}

RefSeries == [ref : Nat, labels : Labels]
RefSample == [ref : Nat, t : Times, v : Values]
Samples   == [t : Times, v : Values]
MemSeries == [labels : Labels \cup {NoLabels}, samples : Seq(Samples)]
Records   == [type : {"Series"}, items : Seq(RefSeries)]
               \cup [type : {"SamplesV2"}, items : Seq(RefSample)]
Slots     == [seg : Nat, durable : BOOLEAN, type : {"Series"}, items : Seq(RefSeries)]
               \cup [seg : Nat, durable : BOOLEAN, type : {"SamplesV2"}, items : Seq(RefSample)]
               \cup [seg : Nat, durable : BOOLEAN, type : {"Torn", "Bad", "Lost"}, items : {<<>>}]

(* Every variable has the type its C++ counterpart has. *)
TypeOK ==
    /\ phase \in Phases
    /\ closing \in BOOLEAN
    /\ by_labels \in [Labels -> Nat]
    /\ by_ref \in Seq(MemSeries)
    /\ next_ref \in Nat \ {0}
    /\ pending_series \in Seq(RefSeries)
    /\ pending_samples \in Seq(RefSample)
    /\ wal \in Seq(Slots)
    /\ nseg \in Nat
    /\ fd \in BOOLEAN
    /\ skewed \in BOOLEAN
    /\ unflushed \in Seq(Records)
    /\ cursor \in [slot : Nat \ {0}, item : Nat \ {0}]
    /\ why \in Reasons
    /\ mine \subseteq (Labels \X Times \X Values)
    /\ acked \subseteq (Labels \X Times \X Values)
    /\ rollFailed \in BOOLEAN
    /\ faults \in Nat
    /\ crashes \in Nat
    /\ powerLost \in BOOLEAN

-----------------------------------------------------------------------------
(* SeriesStore and MemSeries.                                              *)

NoSeries == [labels |-> NoLabels, samples |-> <<>>]

\* Mutant: 0 is handed out although it is reserved.
EmptyStoreFromZero ==
    /\ by_labels' = [l \in Labels |-> 0]
    /\ by_ref' = <<>>
    /\ next_ref' = 0

EmptyStore ==
    /\ by_labels' = [l \in Labels |-> 0]
    /\ by_ref' = <<>>
    /\ next_ref' = 1

RefTaken(ref) == ref \in 1..Len(by_ref) /\ by_ref[ref].labels # NoLabels

\* by_ref_ after ensure_ref_slot(ref) and the assignment of a fresh series.
WithSeries(ref, l) ==
    [i \in 1..(IF ref > Len(by_ref) THEN ref ELSE Len(by_ref)) |->
        IF i = ref THEN [labels |-> l, samples |-> <<>>]
        ELSE IF i <= Len(by_ref) THEN by_ref[i] ELSE NoSeries]

\* MemSeries::append accepts t: timestamps never decrease, ties are kept.
InOrder(ms, t) == ms.samples # <<>> => ms.samples[Len(ms.samples)].t <= t

Appended(refs, ref, t, v) ==
    [refs EXCEPT ![ref] = [labels  |-> @.labels,
                           samples |-> Append(@.samples, [t |-> t, v |-> v])]]

\* insert_with_ref returns false.
InsertRefused(ref, l) ==
    \/ ref = 0
    \/ RefTaken(ref) /\ by_ref[ref].labels # l
    \/ ~RefTaken(ref) /\ by_labels[l] \notin {0, ref}

\* Mutant: next_ref_ is not moved past a replayed ref.
InsertKeepingNextRef(ref, l) ==
    /\ ~InsertRefused(ref, l)
    /\ IF RefTaken(ref) \/ by_labels[l] = ref
       THEN UNCHANGED store
       ELSE /\ by_labels' = [by_labels EXCEPT ![l] = ref]
            /\ by_ref' = WithSeries(ref, l)
            /\ UNCHANGED next_ref

\* insert_with_ref returns true, creating the series if the slot is free.
insert_with_ref(ref, l) ==
    /\ ~InsertRefused(ref, l)
    /\ IF RefTaken(ref) \/ by_labels[l] = ref
       THEN UNCHANGED store
       ELSE /\ by_labels' = [by_labels EXCEPT ![l] = ref]
            /\ by_ref' = WithSeries(ref, l)
            /\ next_ref' = IF ref + 1 > next_ref THEN ref + 1 ELSE next_ref

-----------------------------------------------------------------------------
(* Head::append.  A refused sample leaves the head as it was: the series   *)
(* is not fresh, since a fresh series accepts every timestamp.             *)

append(l, t, v) ==
    /\ phase = "open"
    /\ Len(pending_samples) < MaxBatch
    /\ LET fresh == by_labels[l] = 0
           ref   == IF fresh THEN next_ref ELSE by_labels[l]
           refs  == IF fresh THEN WithSeries(ref, l) ELSE by_ref
       IN /\ InOrder(refs[ref], t)
          /\ by_labels' = [by_labels EXCEPT ![l] = ref]
          /\ by_ref' = Appended(refs, ref, t, v)
          /\ next_ref' = IF fresh THEN next_ref + 1 ELSE next_ref
          /\ pending_series' = IF fresh
                THEN Append(pending_series, [ref |-> ref, labels |-> l])
                ELSE pending_series
          /\ pending_samples' = Append(pending_samples, [ref |-> ref, t |-> t, v |-> v])
    /\ mine' = mine \cup {<<l, t, v>>}
    /\ UNCHANGED <<phase, closing, writer, disk, cursor, why, acked, rollFailed,
                   faults, crashes, powerLost>>

-----------------------------------------------------------------------------
(* Head::commit and Head::close, one step per call into SegmentWriter.     *)

\* commit(), and close() = commit() + wal_.cut().
commit ==
    /\ phase = "open"
    /\ Len(wal) + Len(unflushed) + 2 <= MaxRecs
    /\ nseg + 3 <= MaxSegs
    /\ closing' \in BOOLEAN
    /\ phase' = IF pending_series # <<>> THEN "logSeries"
                ELSE IF pending_samples # <<>> THEN "logSamples" ELSE "sync"
    /\ UNCHANGED <<store, pending, writer, disk, cursor, why, history>>

\* The record the running commit is about to log.
Rec == IF phase = "logSeries"
       THEN [type |-> "Series", items |-> pending_series]
       ELSE [type |-> "SamplesV2", items |-> pending_samples]

\* commit() returns an error: close() still marks the head closed.
CommitError == phase' = IF closing THEN "closed" ELSE "open"

\* Mutant: the sample buffer is not cleared.
LoggedKeepingSamples ==
    \/ /\ phase = "logSeries"
       /\ pending_series' = <<>>
       /\ UNCHANGED pending_samples
       /\ phase' = IF pending_samples # <<>> THEN "logSamples" ELSE "sync"
    \/ /\ phase = "logSamples"
       /\ UNCHANGED <<pending_series, pending_samples>>
       /\ phase' = "sync"

\* Mutant: both buffers are cleared with the first record.
LoggedClearingBoth ==
    /\ phase \in Logging
    /\ pending_series' = <<>>
    /\ pending_samples' = <<>>
    /\ phase' = "sync"

\* wal_.log() returned success: clear the buffer, go on to the next call.
Logged ==
    \/ /\ phase = "logSeries"
       /\ pending_series' = <<>>
       /\ UNCHANGED pending_samples
       /\ phase' = IF pending_samples # <<>> THEN "logSamples" ELSE "sync"
    \/ /\ phase = "logSamples"
       /\ pending_samples' = <<>>
       /\ UNCHANGED pending_series
       /\ phase' = "sync"

Slot(rec) == [seg |-> nseg, durable |-> FALSE, type |-> rec.type, items |-> rec.items]

Partial(type) == [seg |-> nseg, durable |-> FALSE, type |-> type, items |-> <<>>]

\* The segment files with the complete records recs at their end.
Written(recs) == wal \o [i \in 1..Len(recs) |-> Slot(recs[i])]

\* Mutant: the fsync is left out.
NotSynced(w) == w

\* The files w once fsync of the open segment has returned.
Synced(w) == [i \in DOMAIN w |-> IF w[i].seg = nseg
                                 THEN [w[i] EXCEPT !.durable = TRUE] ELSE w[i]]

\* The files when write() stops short of the end of recs: the first m records
\* are complete, part of the next one may follow.
Cuttings(recs) ==
    {wal} \cup
    UNION {{Written(SubSeq(recs, 1, m))} \cup
           {Append(Written(SubSeq(recs, 1, m)), Partial(type)) : type \in {"Torn", "Bad"}}
             : m \in 0..(Len(recs) - 1)}

\* The open segment file has bytes in it.
SegmentWritten == \E i \in DOMAIN wal : wal[i].seg = nseg /\ wal[i].type # "Lost"

\* How many of recs may precede one that the reader refuses although all of
\* its bytes are on file.  PageWriter::log gives two First fragments to a
\* record that starts where the page has room for a header and nothing else,
\* which the first record of a segment never does.  In a skewed file the page
\* padding is in the wrong place.
BeforeRefused(recs) ==
    {m \in 0..(Len(recs) - 1) : skewed \/ m > 0 \/ SegmentWritten}

\* flush_pending() of recs succeeds.
Flushed(recs) ==
    {Written(recs)} \cup
    {Append(Written(SubSeq(recs, 1, m)), Partial("Bad")) : m \in BeforeRefused(recs)}

Fault == faults < MaxFaults /\ faults' = faults + 1

\* flush_pending() of recs fails and leaves one of files: flushed_bytes_ stays
\* where it was, so all of recs is written again, whatever part of it reached
\* the file.
FlushFails(recs, files) ==
    /\ Fault
    /\ wal' \in files
    /\ unflushed' = recs
    /\ skewed' = TRUE

\* log(): frame the record, then flush everything that is not on file yet.
LogOk ==
    /\ phase \in Logging
    /\ fd
    /\ wal' \in Flushed(Append(unflushed, Rec))
    /\ unflushed' = <<>>
    /\ Logged
    /\ UNCHANGED <<closing, store, nseg, fd, skewed, cursor, why, history>>

\* log() with no segment open: flush_pending() returns success at once.
LogNowhere ==
    /\ phase \in Logging
    /\ ~fd
    /\ unflushed' = Append(unflushed, Rec)
    /\ Logged
    /\ UNCHANGED <<closing, store, disk, fd, skewed, cursor, why, history>>

\* log() whose write fails: the record stays framed.
LogFails ==
    /\ phase \in Logging
    /\ fd
    /\ FlushFails(Append(unflushed, Rec), Cuttings(Append(unflushed, Rec)))
    /\ CommitError
    /\ UNCHANGED <<closing, store, pending, nseg, fd, cursor, why, mine, acked,
                   rollFailed, crashes, powerLost>>

\* The open segment has bytes in it, on file or framed.
SegmentHasBytes == unflushed # <<>> \/ SegmentWritten

\* cut() runs at the end of close(), and in log() as the rollover of a segment
\* that has bytes in it; whether its size limit is reached is left open.
Cutting ==
    /\ fd
    /\ \/ phase = "cut"
       \/ phase \in Logging /\ SegmentHasBytes

\* cut(): pad, flush, fsync, close, open the next segment.
CutOk ==
    /\ Cutting
    /\ \E w \in Flushed(unflushed) : wal' = Synced(w)
    /\ unflushed' = <<>>
    /\ nseg' = nseg + 1
    /\ skewed' = FALSE
    /\ phase' = IF phase = "cut" THEN "closed" ELSE phase
    /\ UNCHANGED <<closing, store, pending, fd, cursor, why, history>>

\* cut() with no segment open returns success at once.
CutNowhere ==
    /\ phase = "cut"
    /\ ~fd
    /\ phase' = "closed"
    /\ UNCHANGED <<closing, store, pending, writer, disk, cursor, why, history>>

\* cut() whose flush or fsync fails.  The flush may have got past the records,
\* into the padding of the last page.
CutSyncFails ==
    /\ Cutting
    /\ \/ FlushFails(unflushed, Flushed(unflushed) \cup Cuttings(unflushed))
       \/ Fault /\ wal' \in Flushed(unflushed) /\ unflushed' = <<>> /\ UNCHANGED skewed
    /\ CommitError
    /\ UNCHANGED <<closing, store, pending, nseg, fd, cursor, why, mine, acked,
                   rollFailed, crashes, powerLost>>

\* cut() whose open_new_segment() fails: fd_ stays -1 from here on.
CutOpenFails ==
    /\ Cutting
    /\ Fault
    /\ \E w \in Flushed(unflushed) : wal' = Synced(w)
    /\ unflushed' = <<>>
    /\ fd' = FALSE
    /\ rollFailed' = TRUE
    /\ CommitError
    /\ UNCHANGED <<closing, store, pending, nseg, skewed, cursor, why, mine, acked,
                   crashes, powerLost>>

\* sync() succeeds, so commit() does.  Its flush has nothing to write: the
\* log() calls before it have written everything.  An fsync that succeeds is
\* taken to cover all that was written, also after one that failed; a kernel
\* that drops the pages it could not write gives less.
SyncOk ==
    /\ phase = "sync"
    /\ wal' = IF fd THEN Synced(wal) ELSE wal
    /\ acked' = acked \cup mine
    /\ phase' = IF closing THEN "cut" ELSE "open"
    /\ UNCHANGED <<closing, store, pending, nseg, writer, cursor, why, mine,
                   rollFailed, faults, crashes, powerLost>>

\* The fsync of sync() fails; the pending buffers are gone already.
SyncFails ==
    /\ phase = "sync"
    /\ fd
    /\ Fault
    /\ CommitError
    /\ UNCHANGED <<closing, store, pending, writer, disk, cursor, why, mine, acked,
                   rollFailed, crashes, powerLost>>

-----------------------------------------------------------------------------
(* End of a process.                                                       *)

AtStart == [slot |-> 1, item |-> 1]

Gone ==
    /\ phase' = "down"
    /\ EmptyStore
    /\ pending_series' = <<>> /\ pending_samples' = <<>>
    /\ fd' = FALSE /\ skewed' = FALSE /\ unflushed' = <<>>
    /\ closing' = FALSE
    /\ cursor' = AtStart
    /\ mine' = {}
    /\ UNCHANGED <<nseg, why, acked, rollFailed>>

\* ~Head of a closed head: ~SegmentWriter flushes and fsyncs ...
Destroy ==
    /\ phase = "closed"
    /\ Gone
    /\ IF fd THEN \E w \in Flushed(unflushed) : wal' = Synced(w) ELSE UNCHANGED wal
    /\ UNCHANGED <<faults, crashes, powerLost>>

\* ... and ignores it when either call fails.
DestroyFails ==
    /\ phase = "closed"
    /\ fd
    /\ Gone
    /\ Fault
    /\ wal' \in Flushed(unflushed) \cup Cuttings(unflushed)
    /\ UNCHANGED <<crashes, powerLost>>

\* The process dies, possibly in the middle of a write.
Crash ==
    /\ phase \notin {"down", "failed"}
    /\ crashes < MaxCrashes
    /\ crashes' = crashes + 1
    /\ Gone
    /\ \/ UNCHANGED wal
       \/ phase \in Logging /\ fd /\ wal' \in Cuttings(Append(unflushed, Rec))
    /\ UNCHANGED <<faults, powerLost>>

\* Power fails while no head is open: each file keeps what was fsynced and
\* some of what follows it.
PowerLoss ==
    /\ phase = "down"
    /\ crashes < MaxCrashes
    /\ crashes' = crashes + 1
    /\ powerLost' = TRUE
    /\ \E lost \in SUBSET {i \in DOMAIN wal : ~wal[i].durable} :
       \E type \in [lost -> {"Lost", "Torn", "Bad"}] :
          /\ \A i \in lost : \A j \in DOMAIN wal :
                j > i /\ wal[j].seg = wal[i].seg => j \in lost /\ type[j] = "Lost"
          /\ wal' = [i \in DOMAIN wal |->
                [seg |-> wal[i].seg, durable |-> TRUE,
                 type |-> IF i \in lost THEN type[i] ELSE wal[i].type,
                 items |-> IF i \in lost THEN <<>> ELSE wal[i].items]]
    /\ UNCHANGED <<phase, closing, store, pending, writer, nseg, cursor, why, mine,
                   acked, rollFailed, faults>>

-----------------------------------------------------------------------------
(* Head::open: replay_wal_into, then SegmentWriter::open.                  *)

open ==
    /\ phase \in {"down", "failed"}
    /\ nseg < MaxSegs
    /\ phase' = "replay"
    /\ EmptyStore
    /\ cursor' = AtStart
    /\ why' = "none"
    /\ UNCHANGED <<closing, pending, writer, disk, history>>

Cur  == wal[cursor.slot]
Item == Cur.items[cursor.item]

AtItem(type) ==
    /\ phase = "replay"
    /\ cursor.slot <= Len(wal)
    /\ Cur.type = type
    /\ cursor.item <= Len(Cur.items)

\* Mutant: the loop does not advance.
SameItem == UNCHANGED cursor

NextItem == cursor' = [slot |-> cursor.slot, item |-> cursor.item + 1]

ReplayFails(reason) ==
    /\ phase' = "failed"
    /\ why' = reason
    /\ EmptyStore
    /\ UNCHANGED <<closing, pending, writer, disk, cursor, history>>

ReplaySeries ==
    /\ AtItem("Series")
    /\ \/ /\ insert_with_ref(Item.ref, Item.labels)
          /\ NextItem
          /\ UNCHANGED <<phase, closing, pending, writer, disk, why, history>>
       \/ InsertRefused(Item.ref, Item.labels) /\ ReplayFails("RefConflict")

ReplaySample ==
    /\ AtItem("SamplesV2")
    /\ \/ ~RefTaken(Item.ref) /\ ReplayFails("UnknownRef")
       \/ /\ RefTaken(Item.ref)
          /\ ~InOrder(by_ref[Item.ref], Item.t)
          /\ ReplayFails("OutOfOrder")
       \/ /\ RefTaken(Item.ref)
          /\ InOrder(by_ref[Item.ref], Item.t)
          /\ by_ref' = Appended(by_ref, Item.ref, Item.t, Item.v)
          /\ NextItem
          /\ UNCHANGED <<phase, closing, by_labels, next_ref, pending, writer, disk,
                         why, history>>

\* The record is finished, or the slot holds no bytes: read the next one.
ReplayNext ==
    /\ phase = "replay"
    /\ cursor.slot <= Len(wal)
    /\ Cur.type \notin {"Torn", "Bad"}
    /\ cursor.item > Len(Cur.items)
    /\ cursor' = [slot |-> cursor.slot + 1, item |-> 1]
    /\ UNCHANGED <<phase, closing, store, pending, writer, disk, why, history>>

\* Nothing but page padding follows slot i in its segment.
EndsSegment(i) ==
    \A j \in DOMAIN wal : j > i /\ wal[j].seg = wal[i].seg => wal[j].type = "Lost"

\* SegmentReader::next at a partial record that is not a tolerated tail.
ReplayCorrupt ==
    /\ phase = "replay"
    /\ cursor.slot <= Len(wal)
    /\ \/ Cur.type = "Bad" /\ ReplayFails("InvalidFraming")
       \/ Cur.type = "Torn" /\ ~EndsSegment(cursor.slot) /\ ReplayFails("InvalidFraming")
       \/ /\ Cur.type = "Torn" /\ EndsSegment(cursor.slot) /\ Cur.seg # nseg
          /\ ReplayFails("CorruptMidStream")

\* A segment cannot be read, or SegmentWriter::open fails after the replay.
OpenFails ==
    /\ phase = "replay"
    /\ Fault
    /\ phase' = "failed"
    /\ why' = "Io"
    /\ EmptyStore
    /\ UNCHANGED <<closing, pending, writer, disk, cursor, mine, acked, rollFailed,
                   crashes, powerLost>>

\* Mutant: a torn record ends the stream in any segment.
AtAnyTornRecord ==
    cursor.slot <= Len(wal) => Cur.type = "Torn" /\ EndsSegment(cursor.slot)

\* EndOfStream: every slot is read, or a torn record ends the last segment.
AtEndOfStream ==
    cursor.slot <= Len(wal) =>
        Cur.type = "Torn" /\ EndsSegment(cursor.slot) /\ Cur.seg = nseg

\* The writer opens a fresh segment after the highest existing one.
ReplayDone ==
    /\ phase = "replay"
    /\ AtEndOfStream
    /\ phase' = "open"
    /\ nseg' = nseg + 1
    /\ fd' = TRUE
    /\ cursor' = AtStart
    /\ UNCHANGED <<closing, store, pending, skewed, unflushed, wal, why, mine, acked,
                   rollFailed, faults, crashes, powerLost>>

-----------------------------------------------------------------------------
Init ==
    /\ phase = "down"
    /\ closing = FALSE
    /\ by_labels = [l \in Labels |-> 0] /\ by_ref = <<>> /\ next_ref = 1
    /\ pending_series = <<>> /\ pending_samples = <<>>
    /\ wal = <<>> /\ nseg = 0
    /\ fd = FALSE /\ skewed = FALSE /\ unflushed = <<>>
    /\ cursor = AtStart
    /\ why = "none"
    /\ mine = {} /\ acked = {}
    /\ rollFailed = FALSE
    /\ faults = 0 /\ crashes = 0
    /\ powerLost = FALSE

Replay == ReplaySeries \/ ReplaySample \/ ReplayNext \/ ReplayCorrupt
            \/ OpenFails \/ ReplayDone

WalStep == LogOk \/ LogNowhere \/ LogFails \/ CutOk \/ CutNowhere
             \/ CutSyncFails \/ CutOpenFails \/ SyncOk \/ SyncFails

Next ==
    \/ \E l \in Labels, t \in Times, v \in Values : append(l, t, v)
    \/ commit
    \/ WalStep
    \/ Destroy \/ DestroyFails
    \/ Crash
    \/ PowerLoss
    \/ open
    \/ Replay

Spec == Init /\ [][Next]_vars

\* A process that is inside open(), commit() or close() goes on running.
FairSpec == Spec /\ WF_vars(Replay) /\ WF_vars(WalStep)

-----------------------------------------------------------------------------
(* Safety.                                                                 *)

\* open() never refuses a Series record of a log that this head wrote: over
\* all crashes, retries and replays, a ref is bound to one label set and a
\* label set to one ref (insert_with_ref, next_ref_).
NoRefConflict == why # "RefConflict"

\* The store binds the labels of x to the ref of x.
Bound(x) == x.ref # 0 /\ by_labels[x.labels] = x.ref

AllBound(items) == \A k \in DOMAIN items : Bound(items[k])

\* by_labels_ and by_ref_ are inverse to each other.
StoreOK ==
    /\ \A l \in Labels : by_labels[l] # 0 =>
          by_labels[l] \in 1..Len(by_ref) /\ by_ref[by_labels[l]].labels = l
    /\ \A r \in 1..Len(by_ref) : by_ref[r].labels # NoLabels =>
          by_labels[by_ref[r].labels] = r
    /\ Len(by_ref) < next_ref

IsSeries(i) == wal[i].type = "Series"

\* The log binds every ref to one label set and every label set to one ref.
LogConsistent ==
    \A i \in DOMAIN wal, j \in DOMAIN wal : IsSeries(i) /\ IsSeries(j) =>
        \A k \in DOMAIN wal[i].items, m \in DOMAIN wal[j].items :
            LET x == wal[i].items[k]
                y == wal[j].items[m]
            IN x.ref # 0 /\ (x.ref = y.ref <=> x.labels = y.labels)

\* A running head has every Series record that is on file or on its way.
MemoryCovers ==
    phase \in Running =>
        /\ \A i \in DOMAIN wal : IsSeries(i) => AllBound(wal[i].items)
        /\ \A i \in DOMAIN unflushed :
              unflushed[i].type = "Series" => AllBound(unflushed[i].items)
        /\ AllBound(pending_series)

\* A replay has bound what it has read and nothing else.
ReplayCovers ==
    phase = "replay" =>
        /\ \A i \in DOMAIN wal : i < cursor.slot /\ IsSeries(i) => AllBound(wal[i].items)
        /\ cursor.slot \in DOMAIN wal /\ IsSeries(cursor.slot) =>
              \A k \in DOMAIN Cur.items : k < cursor.item => Bound(Cur.items[k])
        /\ \A l \in Labels : by_labels[l] # 0 =>
              \E i \in DOMAIN wal : IsSeries(i) /\
                 \E k \in DOMAIN wal[i].items :
                    wal[i].items[k] = [ref |-> by_labels[l], labels |-> l]

\* Without a running head there is nothing on its way to the log.
NothingPending ==
    phase \notin Running => pending_series = <<>> /\ unflushed = <<>>

SegmentsInOrder ==
    \A i \in DOMAIN wal :
        /\ wal[i].seg <= nseg
        /\ \A j \in DOMAIN wal : i < j => wal[i].seg <= wal[j].seg

\* The series store, the pending buffers, the page writer and all segment
\* files agree on one binding of refs to label sets, at every step of every
\* call: the inductive invariant behind NoRefConflict.
StoreMatchesLog ==
    /\ NoRefConflict
    /\ StoreOK
    /\ LogConsistent
    /\ MemoryCovers
    /\ ReplayCovers
    /\ NothingPending
    /\ SegmentsInOrder

\* The sample <<l, t, v>> can be read from the open head.
InStore(s) ==
    /\ by_labels[s[1]] # 0
    /\ \E k \in DOMAIN by_ref[by_labels[s[1]]].samples :
          by_ref[by_labels[s[1]]].samples[k] = [t |-> s[2], v |-> s[3]]

\* Whenever open() succeeds, whatever crashes, power losses and failed calls
\* came before, the head holds every sample that a successful commit()
\* covered; the one exception is a head that could not create a segment file
\* (see AckedSurvives).
NoSilentLoss == phase = "open" /\ ~rollFailed => \A s \in acked : InStore(s)

\* An fsynced slot that the page reader refuses: no open() gets past it.
Poisoned == \E i \in DOMAIN wal : wal[i].type = "Bad" /\ wal[i].durable

\* No series but l has, or can get, the samples that are logged under ref.
OwnedBy(ref, l) ==
    /\ \A i \in DOMAIN wal : IsSeries(i) =>
          \A k \in DOMAIN wal[i].items : wal[i].items[k].ref = ref => wal[i].items[k].labels = l
    /\ phase \in Running => by_labels[l] = ref

\* Every sample that a commit covered is in an fsynced record, under a ref of
\* its own series, or the log is one that no open() accepts.
AckedOnFile ==
    ~rollFailed /\ ~Poisoned => \A s \in acked :
        \E i \in DOMAIN wal : wal[i].durable /\ wal[i].type = "SamplesV2" /\
           \E k \in DOMAIN wal[i].items :
              LET x == wal[i].items[k]
              IN x.t = s[2] /\ x.v = s[3] /\ OwnedBy(x.ref, s[1])

\* An open head holds what it acknowledged and what was appended to it.
MemoryHolds ==
    /\ phase \in Running => \A s \in mine : InStore(s)
    /\ phase \in Running /\ ~rollFailed => \A s \in acked : InStore(s)
    /\ phase \notin Running => mine = {}

\* The next fsync leaves slot i durable, if it is not already.
Syncing(i) == wal[i].durable \/ wal[i].seg = nseg

\* The RefSample x is buffered, framed, or written where the next fsync gets it.
OnItsWay(x) ==
    \/ \E k \in DOMAIN pending_samples : pending_samples[k] = x
    \/ \E i \in DOMAIN unflushed : unflushed[i].type = "SamplesV2" /\
          \E k \in DOMAIN unflushed[i].items : unflushed[i].items[k] = x
    \/ \E i \in DOMAIN wal : wal[i].type = "SamplesV2" /\ Syncing(i) /\
          \E k \in DOMAIN wal[i].items : wal[i].items[k] = x

\* No sample of the open head falls between the pending buffer and the file,
\* unless a skewed write makes the whole file unreadable.
MineOnItsWay ==
    phase \in Running /\ ~rollFailed =>
        \/ \E i \in DOMAIN wal : wal[i].type = "Bad" /\ Syncing(i)
        \/ \A s \in mine : OnItsWay([ref |-> by_labels[s[1]], t |-> s[2], v |-> s[3]])

\* When commit() comes to its fsync there is nothing left to log or to flush.
NothingLeftBehind ==
    phase \in Running /\ ~rollFailed =>
        /\ fd
        /\ phase = "logSeries" => pending_series # <<>>
        /\ phase = "logSamples" => pending_samples # <<>>
        /\ phase \in {"sync", "cut"} => pending_samples = <<>> /\ unflushed = <<>>
        /\ phase = "open" /\ pending_series = <<>> /\ pending_samples = <<>> => unflushed = <<>>

\* A replay has put the RefSample x into its series.
Replayed(x) ==
    /\ RefTaken(x.ref)
    /\ \E k \in DOMAIN by_ref[x.ref].samples :
          by_ref[x.ref].samples[k] = [t |-> x.t, v |-> x.v]

\* A replay holds every sample it has read, and it has skipped nothing.
ReplayHolds ==
    phase = "replay" =>
        /\ \A i \in DOMAIN wal : i < cursor.slot =>
              /\ wal[i].type \notin {"Torn", "Bad"}
              /\ wal[i].type = "SamplesV2" =>
                    \A k \in DOMAIN wal[i].items : Replayed(wal[i].items[k])
        /\ cursor.slot \in DOMAIN wal /\ Cur.type = "SamplesV2" =>
              \A k \in DOMAIN Cur.items : k < cursor.item => Replayed(Cur.items[k])

\* From append() to the fsync, and from the first slot of a replay to the
\* last, every sample is where the next step needs it: the inductive
\* invariant behind NoSilentLoss.
CommittedHeld ==
    /\ AckedOnFile
    /\ MemoryHolds
    /\ MineOnItsWay
    /\ NothingLeftBehind
    /\ ReplayHolds

NoTail == \A i \in DOMAIN wal : wal[i].type \notin {"Torn", "Bad"}

\* No record on file is one that the page reader refuses.
NoneRefused == \A i \in DOMAIN wal : wal[i].type # "Bad"

\* As long as no I/O call fails, no crash cuts a record short and no record
\* starts with exactly a header's room in its page (WalPage's RoundTrip), open()
\* accepts the log: every sample follows its Series record and no timestamp
\* goes back.
ReplayNeverRefuses == faults = 0 /\ ~powerLost /\ NoTail => phase # "failed"

\* The samples of every series are in time order, ties included.
SeriesSorted ==
    \A r \in DOMAIN by_ref : \A k, m \in DOMAIN by_ref[r].samples :
        k < m => by_ref[r].samples[k].t <= by_ref[r].samples[m].t

\* The file is where the page writer thinks it is, and nothing waits for it.
WriterInStep ==
    /\ unflushed = <<>> /\ ~skewed /\ ~rollFailed
    /\ IF phase \in Running THEN fd ELSE pending_samples = <<>>

\* Some Series record before slot n binds ref.
IntroducedBefore(n, ref) ==
    \E i \in DOMAIN wal : i < n /\ IsSeries(i) /\
       \E k \in DOMAIN wal[i].items : wal[i].items[k].ref = ref

\* Every logged sample comes after a Series record of its ref.
SeriesFirst ==
    \A j \in DOMAIN wal : wal[j].type = "SamplesV2" =>
        \A m \in DOMAIN wal[j].items : IntroducedBefore(j, wal[j].items[m].ref)

\* A replay reads item k of slot i before item m of slot j.
Before(i, k, j, m) == i < j \/ (i = j /\ k < m)

\* The samples of a series are logged in time order.
NoStepBack ==
    \A i, j \in DOMAIN wal : wal[i].type = "SamplesV2" /\ wal[j].type = "SamplesV2" =>
        \A k \in DOMAIN wal[i].items, m \in DOMAIN wal[j].items :
            LET x == wal[i].items[k]
                y == wal[j].items[m]
            IN x.ref = y.ref /\ Before(i, k, j, m) => x.t <= y.t

\* A running head knows the Series record of every series it has, logs the
\* pending ones first, holds what it has logged, and buffers what comes after.
PendingInOrder ==
    phase \in Running =>
        /\ \A l \in Labels : by_labels[l] # 0 =>
              \/ IntroducedBefore(Len(wal) + 1, by_labels[l])
              \/ \E k \in DOMAIN pending_series : pending_series[k].ref = by_labels[l]
        /\ phase = "logSamples" => pending_series = <<>>
        /\ \A k \in DOMAIN pending_samples : Replayed(pending_samples[k])
        /\ \A k, m \in DOMAIN pending_samples :
              pending_samples[k].ref = pending_samples[m].ref /\ k < m =>
                  pending_samples[k].t <= pending_samples[m].t
        /\ \A i \in DOMAIN wal : wal[i].type = "SamplesV2" =>
              \A k \in DOMAIN wal[i].items :
                 /\ Replayed(wal[i].items[k])
                 /\ \A m \in DOMAIN pending_samples :
                       pending_samples[m].ref = wal[i].items[k].ref =>
                           wal[i].items[k].t <= pending_samples[m].t

\* A replay holds no sample that it has not read.
ReplayFromLog ==
    phase = "replay" =>
        \A r \in DOMAIN by_ref : \A k \in DOMAIN by_ref[r].samples :
            \E i \in DOMAIN wal : wal[i].type = "SamplesV2" /\
               \E m \in DOMAIN wal[i].items :
                  /\ Before(i, m, cursor.slot, cursor.item)
                  /\ wal[i].items[m].ref = r
                  /\ wal[i].items[m].t = by_ref[r].samples[k].t

\* Memory, buffers and log agree on one order of the samples of a series, as
\* long as no I/O call has failed and the page reader accepts what was written:
\* the inductive invariant behind ReplayNeverRefuses.
LogInOrder ==
    /\ SeriesSorted
    /\ faults = 0 /\ ~powerLost /\ NoneRefused =>
          /\ WriterInStep
          /\ SeriesFirst
          /\ NoStepBack
          /\ PendingInOrder
          /\ ReplayFromLog
          /\ ReplayNeverRefuses

\* The samples of series ref among the first n of items, in order.
SamplesOf(ref, items, n) ==
    LET own[i \in 0..Len(items)] ==
          IF i = 0 THEN <<>>
          ELSE IF items[i].ref = ref THEN Append(own[i - 1], [t |-> items[i].t, v |-> items[i].v])
          ELSE own[i - 1]
    IN own[n]

\* The samples of series ref in the first n slots of the files w, in the order
\* a replay reads them.
LoggedOf(ref, w, n) ==
    LET logged[i \in 0..Len(w)] ==
          IF i = 0 THEN <<>>
          ELSE IF w[i].type = "SamplesV2"
          THEN logged[i - 1] \o SamplesOf(ref, w[i].items, Len(w[i].items))
          ELSE logged[i - 1]
    IN logged[n]

\* An open head on a disk that never failed, all of whose records the page
\* reader accepts, is exactly what its log and its pending buffer say: replaying
\* the log and logging the buffer would rebuild every series, sample by sample,
\* with nothing twice and nothing reordered.
ReplayExact ==
    phase = "open" /\ faults = 0 /\ NoneRefused =>
        \A r \in 1..Len(by_ref) :
            by_ref[r].samples = LoggedOf(r, wal, Len(wal))
                                  \o SamplesOf(r, pending_samples, Len(pending_samples))

-----------------------------------------------------------------------------
(* What the comments and the specification document say of the code.       *)

\* segment_reader.hpp, head.hpp and SPEC 4.6: a last segment that a crashed
\* writer left truncated mid-record is not an error.
TornTailDropped ==
    phase = "failed" /\ faults = 0 =>
        ~(Cur.type \in {"Torn", "Bad"} /\ Cur.seg = nseg /\ EndsSegment(cursor.slot))

\* segment_reader.cpp: a torn record in a non-final segment means that the
\* log is genuinely corrupted; a crash and a reopen do not corrupt it.
CrashLeavesLogReadable == why # "CorruptMidStream"

\* head.hpp on commit(): at most one SamplesV2 record is emitted, with all
\* buffered samples.  A commit() that failed and is called again does not leave
\* a log whose samples go back in time.
RetryIsHarmless == crashes = 0 => why # "OutOfOrder"

\* head.hpp: the records are durable once commit() returns success.
AckedSurvives == phase = "open" => \A s \in acked : InStore(s)

\* head.hpp: an acknowledged sample never lacks its Series record.
SeriesOutliveSamples == faults = 0 => why # "UnknownRef"

-----------------------------------------------------------------------------
(* Liveness.                                                               *)

Busy == {"replay", "sync", "cut"} \cup Logging

\* open(), commit() and close() return: replay comes to the end of the log,
\* and a rollover is followed by the write, not by another rollover.
CallsReturn == phase \in Busy ~> phase \notin Busy
=============================================================================
