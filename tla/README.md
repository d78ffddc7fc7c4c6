# merlion-tsdb-cpp in TLA+

merlion-tsdb-cpp is an embedded, single-threaded time series store in the
manner of Prometheus' TSDB. Samples are appended to an in-memory *head* that is
backed by a write-ahead log; the head is flushed into immutable *blocks*; blocks
are compacted into larger ones; a *querier* merges blocks and head. These
modules model what the code under `src/` does, TLC checks them on small
instances, and TLAPS proves the central properties of head, log, pages and
blocks for every instance.

Nothing in the library runs concurrently. What makes it hard is the
environment: an I/O call may fail half way, the process may die between any two
system calls, power may fail and take everything that was not fsynced, and the
caller may call again after an error. Each of these is an action here.

## 1. Inventory

| Component | State | Operations | Talks to |
|---|---|---|---|
| `Head` (`head/head.cpp`) | store, `pending_series_`, `pending_samples_`, `closed_` | `open` (with `replay_wal_into`), `append`, `commit`, `close`, `select` | `SeriesStore`, `SegmentWriter`, `SegmentReader` |
| `SeriesStore` (`head/series_store.cpp`) | `by_labels_`, `by_ref_`, `next_ref_` | `get_or_create`, `insert_with_ref`, `get` | `MemSeries` |
| `MemSeries` (`head/mem_series.cpp`) | chunks, last timestamp | `append` (order check, chunk cut) | XOR appender |
| WAL pages (`wal/page.cpp`) | `buf_`; `offset_`, `record_` | `PageWriter::log`, `close_page`; `PageReader::next` | CRC-32C |
| WAL segments (`wal/segment_writer.cpp`, `segment_reader.cpp`) | `fd_`, segment index, `flushed_bytes_`; list of files, current reader | `log`, `sync`, `cut`, destructor; `open`, `next` | pages, file system |
| WAL records (`wal/record.cpp`) | none | encode and decode of Series and SamplesV2 | varints |
| `Block` (`block/block.cpp`) | a directory: `chunks/`, `index`, `meta.json`, `tombstones` | `create_from_series`, `create_from_head`, `compact`, `open`, `select`, `query` | chunk segments, index, meta |
| Chunk segments (`block/chunks.cpp`) | open segment, offset; reader's cache of segments | `write`, `close`; `read` | file system |
| Index (`block/index_writer.cpp`, `index.cpp`) | symbols, series, postings | stages of the writer; `postings`, `all_postings`, `label_values` ... | - |
| meta.json (`block/meta.cpp`) | level, sources, time range, counts | read, write (temporary file and rename) | JSON |
| `Querier` (`querier/querier.cpp`) | borrowed blocks and head | `select` | `Block`, `Head` |
| Labels, matchers (`model/`) | none | canonical order, `get`, `matches` | `std::regex` |
| XOR chunks (`chunkenc/xor.cpp`) | appender: last time, value, delta, window; iterator: the same and a reader | `append`, `next`, `appender` of a chunk with samples | bit streams |
| Bit streams, varints (`encoding/`) | free bits of the last byte; a buffer of up to eight bytes | write and read of bits, bytes, varints | - |
| CRC-32C, ULIDs | none | checksum; clock and random bits | - |

**Hard behaviours.** Crash and power loss around `commit`, rollover and
replay; a retry of a `commit` that failed; an fsync or file creation that fails
after its predecessors took effect; a second crash after a recovery; a log that
is cut anywhere or damaged in one byte; a fragment that just fits, or just does
not fit, its page; a block directory that is half written; a compaction that
ends between two of its files; inputs that overlap, or are the same block;
matchers for absent labels; time ranges at a boundary; the edges of every bit
width in the chunk and record formats; a chunk, record or segment that ends
early; a cache that is filled before it is checked; an error that a destructor
swallows.

**What makes each component correct.**

* *Head and log.* One ref per label set and one label set per ref over all
  incarnations of the process; what `commit` acknowledged is there after the
  next successful `open`; a log that the code wrote is accepted (the findings
  are where it is not); a replay rebuilds exactly what was logged; every call
  returns.
* *Pages.* The reader returns the records that were written, in order,
  unaltered, up to the first damage, and its error tells where the file ends.
* *Blocks.* A block that opens is complete; it answers like the head it came
  from; a compaction keeps every timestamp, and the last input's value; what a
  query has found it finds for ever, if blocks are removed as `block.hpp` asks.
* *Codecs.* What was written is read back, bit for bit, at every edge of every
  format; from what is cut short comes nothing that was not written; a chunk
  keeps its limit.
* *Block files.* The directory is refused or holds all of the input; offsets fit
  the references; no read returns another chunk than the one asked for.

`PROJECT.json` lists the hazards line by line, with the properties that catch
each of them.

## 2. Modules and how they correspond to the code

### Head

`Head.tla` is `Head`, `SeriesStore`, the sample lists of `MemSeries`, and
`SegmentWriter`/`SegmentReader` at the level of whole records.

* *State.* `by_labels`, `by_ref`, `next_ref` are the fields of `SeriesStore`
  (0 is the reserved ref, `NoLabels` an empty slot of `by_ref_`).
  `pending_series`, `pending_samples` are the buffers of `Head`. `fd` says
  whether `fd_` is not -1. `unflushed` holds the records framed in `pw_` behind
  `flushed_bytes_`. `wal` is the content of all segment files in file order, a
  slot being a complete record or what the page reader makes of a partial one:
  `Torn` (ends between two fragments), `Bad` (a fragment cut short, bytes out
  of step with the page grid, or a whole record with two First fragments, finding
  6), `Lost` (no bytes survived). `durable` is set by
  fsync. `phase` is the place between two calls into the log. `mine`, `acked`,
  `rollFailed`, `powerLost`, `faults` and `crashes` are history.
* *Actions.* `append`; `commit` (and `close`, with `closing`) followed by one
  step for each call into `SegmentWriter`: `LogOk`, `LogNowhere` (no file open:
  success without a write), `LogFails`, `CutOk`, `CutNowhere`, `CutSyncFails`,
  `CutOpenFails`, `SyncOk`, `SyncFails`; `Destroy`, `DestroyFails` for the
  destructor; `open`, then one step per replayed item (`ReplaySeries`,
  `ReplaySample`, `ReplayNext`), `ReplayCorrupt`, `OpenFails`, `ReplayDone`;
  `Crash` and `PowerLoss`.
* *Abstractions.* Rollover happens whenever the segment has bytes in it, or does
  not: the size limit is a free choice, which includes every real size. Likewise
  any record but the first of its segment may start where its page has room for a
  header only, and is then refused by the reader though nothing failed
  (`BeforeRefused`). A record that is complete decodes to what was encoded. An
  fsync that succeeds covers all that was written, also after one that failed. An `append` that is refused
  changes nothing and has no action. After a failed write the file offset and
  the page writer's offset may differ (`skewed`), and what follows may be
  unreadable; the model allows both outcomes.

`MCHead.tla` adds the label symmetry.
The proofs are in `HeadProofs.tla` (types, refs), `HeadCommitProofs.tla` (nothing
acknowledged is lost) and `HeadOrderProofs.tla` (the log is accepted, and a replay
rebuilds exactly what it holds).

### RecordLog and WalPage

`RecordLog.tla` is the abstract specification of a segment: append a record,
stop (possibly with the last records cut off), return the complete records in
order; behind a damage anything may be returned, before it nothing is lost.

`WalPage.tla` is `page.cpp`, byte for byte in position though not in content.
`buf` is the file as a sequence of cells; `log`/`Fragment` is one iteration of
the loop of `PageWriter::log`; `close_page` the page padding; `Truncate` cuts
the file at any byte; `Spoil` changes any one byte into any kind of byte;
`AtEnd`, `SkipPadding`, `HeaderFails`, `FragmentFails`, `OutOfPlace` and
`TakeFragment` are the outcomes of one iteration of `PageReader::next`.
`spans` remembers the fragments, for the properties. A checksum is the fragment
it was computed of, i.e. CRC-32C is taken to be free of collisions. Bytes that
are read as a header but were not written as one may produce any of the errors
that such bytes can produce. `framed_size_upper_bound` is the helper of
`segment_writer.cpp`.

`WalPage` implements `RecordLog` under the mapping at `Log == INSTANCE RecordLog`.
`WalPage` also justifies the slot types of `Head`: `Verdict` shows that a cut
file yields exactly `EndOfStream`, `TornRecord` or `UnexpectedEnd`, the cases
that `Head` calls "whole", `Torn` and `Bad`. `WalPageProofs.tla` and
`WalReadProofs.tla` have the proofs about writer and reader, `WalLogProofs.tla`
that of the refinement.

### Blocks

`Blocks.tla` is `block.cpp`, the posting queries of `index.cpp`, what
`meta.cpp` stores, `Head::select` and `Querier::select`.

* *State.* `head` (label set to chunks), `disk` (block directory to its files
  and their content), `op` (the call that is writing a block, its step and
  inputs), `superseded` (inputs of compactions whose block was verified), `given`
  (history: what each block was created from). A sample's value is the number
  of its `append`, so that "later" can be told from values alone.
* *Actions.* `append`; `create_from_head` and `compact` start a block, then
  `WriteChunks` (one series at a time), `WriteIndex`, `WriteMeta`,
  `WriteTombstones` and, for a compaction, `PatchMeta`. `WriteMeta` and
  `PatchMeta` may return success with an incomplete meta.json in place, the latter
  over the good one. `Interrupted` is an error or a crash between any two steps.
  `Verify` and `Delete` are what `block.hpp` leaves to the caller, "cleanup after
  verifying the new block": the caller of `compact` opens the new block before
  its next call, and only if it opens may the inputs go.
* *Reading.* `postings_for_matcher` has the four matcher types with their
  empty-value cases, as set algebra over posting lists; `head_select` is the
  linear scan; `querier_select` skips blocks by the range in meta.json.
* *Abstractions.* A chunk is cut after `ChunkCap` samples instead of a number
  of bytes. A regular expression is the set of values it matches. A file that is
  half written counts as missing, since its checksum or parser refuses it. One
  series per label set and block, which `SeriesStore` and `compact` guarantee. A
  crash is one of the process; power loss is in `BlockFiles`.

`MCBlocks.tla` has the label sets of the run, `BlocksProofs.tla` the proofs: about
files and matchers first, then about samples.

### Varint, BitStream, XorChunk, Record, Codecs

`Varint.tla`, `BitStream.tla`, `XorChunk.tla` and `Record.tla` are
`varint.cpp`, `bstream.cpp`, `xor.cpp` and `record.cpp` as operators on
sequences of bytes: a C++ object that is passed by reference is a record that
goes in and comes out. All of them are parameterised by the width of a byte and
of a word, and `XorChunk` by the widths of its fields, so that TLC can walk
through the edges of a small format instead of sampling a large one: with bytes
of 4 and words of 16 bits, the deltas of deltas of 14, 17 and 20 bits become 6,
8 and 10, the window's counts of 5 and 6 bits become 3 and 4, and the longest
varint has 6 groups where the code has 10. `VarintWidths` and `ChunkWidths` are
the relations between the widths that the code relies on (the last group of the
longest varint holds one bit; all significant bits are encoded as 0 of
`SigBits`). A `double` is its 64 bits; that is all the code makes of it.

`read_bits` can shift by a negative amount (`bstream.cpp:107`) when the rest of
a value is not in the stream. That is undefined in C++, so the model stops with
the outcome `Undefined` and claims nothing of what follows. `ChunksHoldSamples`
shows that a whole chunk never leads there. A chunk that ends early does, and
easily; `TornChunkYieldsPrefix` says what the iterator has returned until then,
exactly the samples all of whose bits are there. In the library the bytes of a
chunk come from memory or from behind a checksum.

Differences of signed numbers that leave their range (`record.cpp`,
`index_writer.cpp:196`) are undefined in C++ as well; there the models take the
wraparound of two's complement, which is what compilers produce for a plain
subtraction.

`Codecs.tla` drives them: `AppendSample` is `MemSeries::append` on real chunk
bytes, with both cuts (bytes, samples), and stages the sample for a SamplesV2
record; `LogSeries` stages a series; `Reappend` replaces the appender in use by
one that `XORChunk::appender` rebuilds from the bytes. `MCCodecs.tla` has the
inputs.

### ChunkSegments, IndexFile, BlockFiles

`ChunkSegments.tla` is `chunks.cpp`: the writer as `[files, seq, offset]` with
each way in which `open`, `cut_new_segment` and `write` can fail, the reader with
`bytes_for` and its cache, `read` and `iterate_segment`. `IndexFile.tla` is
`index_writer.cpp` and the reading side of `index.cpp`: the stages, the order
checks, sizes, alignment, deltas modulo a word and the bucketed symbol table. A
file is a length and a function from offsets to what was written there; sizes
are computed as the code computes them, so that an offset that is off by one
finds nothing. A checksum tells any two contents apart.

`BlockFiles.tla` composes them into one call of `create_from_series`.

* *State.* `input`; `phase`; `cw` with the segment files; `metas`; `iw`; `ids`;
  `meta` (no file, an incomplete one, or the totals); `indexed`; the reader's
  `cache` and the last read `got`; `fault` and `trouble` are history and a bound.
* *Actions.* `OpenChunks`, `WriteChunk` (one per chunk, with the rollover it may
  need), `CloseChunks` (and the symbols), `AddSeries`, `AddPostings`,
  `CloseIndex`, `WriteMeta`, `WriteTombstones`, each with its failures; `Open`
  and `Read`; `Damage` (a header or frame goes bad), `PowerLoss`.
* *Abstractions.* A symbol is a number in the order of the strings with a size;
  a chunk is a number with a length and times. Interior bytes of a frame are not
  parsed: a read at an offset where no frame starts fails, by the checksum.

The two block modules differ in grain: `Blocks` has many blocks and their life,
`BlockFiles` one block and its bytes. Both have the meta.json that is incomplete
though `write_meta` returned success; only `BlockFiles` has the power loss that
makes it so later.

## 3. Runs

All runs say `CHECK_DEADLOCK FALSE`: a library stops when its caller does, and
here also when a bound is reached.

| Run | Checks | Shows |
|---|---|---|
| `head_crash` | `NoSilentLoss`, `ReplayNeverRefuses`, `LogInOrder`, `ReplayExact` | up to three crashes and power losses at any step, no I/O errors: acknowledged samples survive every successful `open`; a log without a partial record and without one of finding 6 is accepted; a replay of it rebuilds the head sample by sample |
| `head_faults` | `TypeOK`, `NoRefConflict`, `StoreMatchesLog`, `NoSilentLoss`, `CommittedHeld`, `CallsReturn` | two failing I/O calls and a crash: refs agree between memory, page writer and files; nothing acknowledged is lost in silence, except after a file that could not be created; every call returns |
| `pages` | `TypeOK`, `Verdict`, `FramedWithinBound`, `FramedSoFar`, `PageLayout`, `ReaderSound`, `ImplementsRecordLog` | all segments of up to three records, cut at every byte or with any byte spoilt, are read as the record log promises |
| `blocks` | `TypeOK`, `OpenableIsComplete`, `FilesInOrder`, `SelectAgrees`, `LastInputWins`, `SourcesHold`, `RangeNeverHides`, `MergesKeepAll`, `QueryNeverShrinks` | flushes, compactions of compactions, interruptions everywhere, meta.json incomplete behind a success, and removal of inputs once the new block was opened |
| `codecs` | `TypeOK`, `ChunksHoldSamples`, `ChunkWithinBytes`, `TornChunkYieldsPrefix`, `SamplesRecordExact`, `SeriesRecordExact` | every sequence of four samples or series over inputs at the edges of the formats: chunks and records are read back exactly, also by an appender rebuilt half way, and cut anywhere a chunk yields the samples it still has whole, a record nothing that was not encoded |
| `block_files` | `NeverRefused`, `OpenableReadsBack`, `MetaMatchesFiles`, `SegmentsWithinSize`, `ReadIsExact` | four inputs, an error at any call, a power loss at any time, then damage and short reads: the block is refused or complete, the index leads to each chunk, and a read is exact or fails |
| `head_torn_tail` | violates `TornTailDropped` | see finding 1 |
| `head_reopen` | violates `CrashLeavesLogReadable` | finding 2 |
| `head_retry` | violates `RetryIsHarmless` | finding 3 |
| `head_roll` | violates `AckedSurvives` | finding 4 |
| `head_orphan` | violates `SeriesOutliveSamples` | finding 5 |
| `pages_round_trip` | violates `RoundTrip` | finding 6 |

**Bounds.** *Head:* two label sets and two timestamps suffice for a wrong
binding and for a sample out of order; a batch of two is needed for a retry to
go back in time; four records and five segments allow two commits, a rollover
in each, and reopens in between; three crashes allow a crash during the
recovery from a crash, then a power loss. *Pages:* with a page of 5 and a header
of 2 bytes, records of 0 to 5 bytes start at every offset of a page, end at
every offset, cross two page boundaries and meet the cases "no room", "room for
the header only", and "exactly full"; the third record makes positions that
depend on two predecessors. *Blocks:* three samples over two series and two
timestamps give equal timestamps in and between inputs and (with `ChunkCap` 2)
series with two chunks; three blocks give a compaction of a compaction, or of
two flushes, one input possibly given twice (`MaxInputs` 2: the proofs are for any
number); at most one directory that does not open is left behind, and it costs an
append (`FewBroken`, to save time: the run passes without it, too, with three times
the states, and no call reads such a directory); the label sets have a shared
label, a missing label and different values, and the matchers are all of those
over two names and two values, alone and an Eq of one label with
a Neq of the other (`Selectors`: the proof is for any sequences of matchers). *Codecs:* the
widths above; four samples are needed for a delta of deltas after a delta of
deltas, and a chunk of at most three samples or 25 bytes is cut both ways within
them; 12 bytes are to that chunk what 19 are to one of 1024 (a prefix of 4 bits, a
whole word, a fresh window). The time differences are chosen so that the deltas
of deltas fall on both sides of each edge of each width. *Block files:* a segment
of 40 bytes holds two small chunks, one large one, or is exceeded by one that is
longer; two of the label values straddle a bucket of the symbol table (stride 2);
times at both ends of a word and chunks that overlap or go back make every
difference wrap; two troubles are a read that fails and a header that is bad.

**Fairness.** `CallsReturn` is checked under `FairSpec`, weak fairness of
`WalStep` and of `Replay`: a process that is inside `commit`, `close` or `open`
goes on executing. Nothing is assumed of the caller, of failures or of crashes.
A rollover needs no fairness of its own: after `CutOk` the segment is empty, so
that the write follows.

## 4. Findings

1. *A cut inside a fragment is not tolerated.* `segment_reader.cpp:128` maps
   `UnexpectedEnd` to `InvalidFraming`, so that the most common torn tail makes
   `open` fail; the header and SPEC say that it is dropped.
2. *A tolerated tail is fatal at the second open.* The tail stays in its file,
   which is no longer the last one (`segment_reader.cpp:125`).
3. *A retried commit writes its records twice* (`segment_writer.cpp:169`),
   and the log can then be refused as out of order.
4. *A rollover that cannot create its file* leaves `fd_` at -1
   (`segment_writer.cpp:203`), and later commits succeed without writing.
5. *A replayed Series record is never made durable again* (`head.cpp:148`), so
   that a power loss can orphan samples committed after it.
6. *A record that starts with room for exactly one header in its page* gets two
   First fragments (`page.cpp:46`) and makes the rest of its segment unreadable.

Further disagreements have no run of their own:

* *A series without labels* is in no posting list (`index.cpp:390`): the head
  returns it, a block does not, and `compact` drops it. Likewise a label whose
  value is empty equals "" for the head, while a block looks only at series
  that lack the label. With `LabelSets` set to `{<<>>, "job" :> ""}` run `blocks`
  violates `SelectAgrees` after one append and one flush.
* *meta.json is not written atomically* (`meta.cpp:149`), although `meta.hpp:67` and
  SPEC section 6.2 say so: the content is still in the stream's buffer when the
  stream is checked, the destructor's flush may fail unseen, and the content is
  never fsynced, while the rename is. `WriteMeta` and `PowerLoss` of `BlockFiles`
  reach a `TornMeta` with `create_from_series` having returned success. Such a
  block cannot be opened (`OpenableReadsBack`). For `compact` this means that its
  success is not enough to remove the inputs: `QueryNeverShrinks` holds for a
  caller that opens the new block first, and its mutant `VerifyNothing`, the
  caller that does not, loses samples. A caller that does open it is safe from a
  crash of the process but not from a power loss, after which the content of
  meta.json can be missing with the inputs gone.
* *Overlapping inputs of a compaction.* `block.hpp:141` says that "both chunks are
  kept and the output may contain duplicate samples on query". The code, SPEC
  section 7.1 and `compact_test.cpp` say that the last input's sample is kept
  alone; `LastInputWins` states that, and the comment is what is wrong.
* *A chunk cut short.* `xor.hpp:102` says that after `next` returned false
  `error` distinguishes exhaustion from corruption. At the undefined shift of
  `bstream.cpp:107` the compiled code can go on, return a sample that nobody
  appended and report no error. `TornChunkYieldsPrefix` speaks of the samples
  before that only.
* *An fsync that fails.* SPEC section 5.3 clears the pending buffers after the
  fsync; `head.cpp:184` and `head.cpp:189` clear them before. A repeated `commit`
  has nothing to write, calls fsync again and returns success. If the kernel
  has dropped the pages that it could not write, as some do, what was acknowledged
  is not on disk. `SyncOk` takes the second fsync at its word, so `NoSilentLoss`
  does not show this.

The passing properties are stated around these: `NoSilentLoss` excepts a
failed file creation (4); `ReplayNeverRefuses` a log with a partial record,
failed calls, a power loss or a record with two First fragments (1, 2, 3, 5, 6);
`LogInOrder` and `ReplayExact` a log with a record that the page reader refuses
(`NoneRefused`: 1, 6); `Verdict` and `RecordLog` count an empty first fragment as
damage (6); and run `blocks` uses labelled series.
`FramedWithinBound` allows one byte more than `framed_size_upper_bound`, which
is what the code needs: a segment can exceed its limit by that byte.

## 5. Proofs

TLAPS checks the theorems below for every value of the constants: any number of
records, segments, blocks, failures and crashes, any page size. Each safety
property rests on an inductive invariant that a run checks as well.

| Module | Theorem | States |
|---|---|---|
| `HeadProofs` | `TypeCorrect`, `StoreLogAgreement`, `RefsNeverConflict` | `TypeOK`, `StoreMatchesLog`, `NoRefConflict` |
| `HeadCommitProofs` | `CommitsAreHeld`, `AckedNeverLost` | `CommittedHeld`, `NoSilentLoss` |
| `HeadOrderProofs` | `LogStaysInOrder`, `OwnLogAccepted`, `ReplayRebuilds` | `LogInOrder`, `ReplayNeverRefuses`, `ReplayExact` |
| `WalPageProofs` | `FramedAsCounted`, `FramedSizeBounded` | `FramedSoFar`, `FramedWithinBound` |
| `WalReadProofs` | `BytesStayInPlace`, `ReadingEndsRight` | `PageLayout`, `Verdict` |
| `WalLogProofs` | `ReaderStaysSound`, `PagesImplementLog` | `ReaderSound`, `ImplementsRecordLog` |
| `BlocksProofs` | `FilesComeInOrder`, `OpenedIsComplete`, `BlockAnswersAsHead` | `FilesInOrder`, `OpenableIsComplete`, `SelectAgrees` |
| `BlocksProofs` | `NothingIsLost`, `BlocksAreWellTyped`, `QueriesNeverShrink` | `MergesKeepAll`, `TypeOK`, `QueryNeverShrinks` |
| `BlocksProofs` | `SourcesCanBeReliedOn`, `RangesNeverHide`, `LastOfInputsWins` | `SourcesHold`, `RangeNeverHides`, `LastInputWins` |

The assumptions are those of the modules: `HeadConstants` (timestamps and bounds
are natural numbers, `NoLabels` is not a label set), `PageConstants` (a header
has more than one byte and is shorter than a page) and the constants of
`Blocks` (bounds are natural numbers, a chunk holds at least one sample). Four
theorems have the hypothesis `LabelledSeries` on top, see `BlockAnswersAsHead`.

**Refs.** `NoRefConflict`, "`open` never refuses a Series record", is not
inductive: a replay meets a conflict only if the log holds one, and the log
holds one only if a head bound a ref that an earlier head had bound differently.
`StoreMatchesLog` is the strengthening: the store's two maps are inverse to each
other and `next_ref` is above every ref (`StoreOK`); all Series records on file
agree (`LogConsistent`); a running head knows every Series record on file,
framed, or pending (`MemoryCovers`), which is what keeps a new ref apart from
them and makes a retry write the same binding again; a replay in progress has
bound what it has read and nothing else (`ReplayCovers`); nothing is on its way
without a running head (`NothingPending`). The proof has one lemma per group of
actions. The lemmas on `Written`, `Cuttings`, `Flushed` and `Synced` reduce all
ways in which a write can end to one fact: the files keep their old slots and
gain only records that were framed (`WriteKeepsLog`). `MemoryCovers` is needed
even across a power loss: slots vanish, and a smaller log is still consistent.

**Nothing acknowledged is lost.** `NoSilentLoss` speaks of an open head only.
What carries it across a crash is `AckedOnFile`: an acknowledged sample is in
an fsynced record, under a ref that no other series has or can get
(`OwnedBy`, which is where `StoreMatchesLog` is needed). What brings it there is
`MineOnItsWay`, a chain from `append` to the fsync in which no sample falls
between the pending buffer, the page writer and the file, with
`NothingLeftBehind` at the fsync itself; what brings it back is `ReplayHolds`: a
replay that got past a slot has stored its samples and has skipped nothing. Two
ways out had to be stated, and both are what the code does: a file that could
not be created (finding 4), and a record that a skewed write made unreadable and
an fsync made durable, after which no `open` succeeds (`Poisoned`; a record of
finding 6 is one as well).

**The log is accepted.** `ReplayNeverRefuses` needs the order of the whole log:
Series records before their samples (`SeriesFirst`) and no step back in time
per ref (`NoStepBack`), for the files together with what is pending behind them
(`PendingInOrder`). That the pending samples come after the logged ones holds
because a running head has in memory whatever is in the log, in order
(`SeriesSorted`), and `append` refuses a step back; for a replay the same is
`ReplayFromLog`. All of it is conditional on `faults = 0`, no power loss and
`NoneRefused`, since findings 3, 5 and 6 break it otherwise: behind a record that
the reader refuses a segment is not replayed, so that memory and log part.

**A replay rebuilds the head.** `ReplayExact` compares an open head with the whole
log, sample by sample: `LoggedOf` and `SamplesOf` read a log and a buffer from front
to back, as recursive functions. Its inductive form is `SamplesInStep`. In a running
head every series has what the log and then the buffer hold for it (`Rebuilds`), for
refs that are not in use yet as well: nothing is logged for those, which is why a
new series can begin empty (`EmptySlots`). A replay at item d of slot c has put into
the store what precedes that item and nothing else (`HasRead`). Without failed calls
a write ends in one of two ways for the samples, nothing written or the whole buffer
as one slot behind the log (`WriterInStep`, `FaultlessWalStep`), and moving
the buffer there changes no reading. A replay that ends in front of the end of the
log, as it does at a cut tail, has left nothing behind but slots without samples.
That the two functions compute what their equations say, and depend only on the part
they have read, is `Recursion` and `SameRecursion` of `Induction`. The conditions
are needed: finding 3 logs a sample twice, and a record of finding 6 is in memory
and on file and will never be read.

**Pages.** `FramedWithinBound` bounds a sum over a loop. `FramedSoFar` is the
loop invariant: after f fragments the record has taken f headers, its bytes and
at most one padding; a fragment that is not the last ends its page, so only the
first can be shorter than a page allows. That first fragment may be empty
(finding 6), and it is this case, excluding a padding, which leaves exactly one
byte of excess. `Verdict` needs `PageLayout`: spans lie in one page each and what
is between two of them is the rest of a page (`SpansInPages`); the bytes there
are the fragment's and zeros, in a file that was written, padded or cut
(`BytesInPlace`); the type of a fragment says where in its record it is
(`TypeAt`, `WriterInPlace`); the reader stands behind a fragment it took or behind
the padding that follows, and assembles a record exactly when that fragment was
not a last one (`ReaderInPlace`). From this the error paths that must not be
taken on a cut file (`InvalidRecType`, `CrcMismatch`, `UnexpectedFirst`...) are
contradictions, and the others are the three verdicts.

**The record log.** `PagesImplementLog` maps every step of `WalPage` to a step of
`RecordLog` or a stutter: the last fragment of a record to `Log`; a cut or a
spoilt byte to `Stop`, with the records that are still whole; the last fragment
that `next` takes to `Return`, or to `Garble` behind the damage; each way in which
`next` fails or ends to `Finish`; everything else leaves the log as it is. On the
writer's side this rests on two more parts of `PageLayout`: the fragments of a
record follow each other without a gap and the records are numbered by their last
fragments (`SpansOfRecords`), and the bytes in front of a bad one are still those of
their fragments (`Intact`, `FragmentAt`). On the reader's side it needs
`ReaderSound`, because `returned` alone does not say what the next record will be:
either the reader is in front of the damage, has returned as many records as it
has passed last fragments, and `record` is the part of the open record that it has
passed (`SoundUpTo`); or there is damage, and it has returned at least as many
records as are sound. Leaving the first case for the second is the heart of the
proof (`PastOrReading`, `FailsBehind`): a reader that meets damage, or an empty
first fragment (finding 6), has passed every sound record.

**Blocks.** `OpenableIsComplete` follows from `FilesInOrder`: an index is written
only after all chunks of its series, so that whatever interrupts a call leaves a
directory without an index or with everything it refers to.
`BlockAnswersAsHead` is `ASSUME LabelledSeries PROVE Spec => []SelectAgrees`:
every series of the constant `LabelSets` has a label and no label is empty. The
hypothesis is the case that the code gets right; without it `SelectAgrees` is
false (section 4), and run `blocks` satisfies it. The proof has one lemma per
matcher type, that its postings are the series that match.

**Compaction.** What `LastInputWins`, `SourcesHold`, `RangeNeverHides` and
`QueryNeverShrinks` say of a state is not inductive; `MergesKeepAll` is the
strengthening, with `FilesInOrder` beside it. `SeriesInOrder`: the chunks of the
head and of everything a block was given are in time order, and samples with one
timestamp in the order of their `append`, so that "the last" and "the latest" are
the same. `DirsInOrder`: a block that opens has a time range that no chunk exceeds
and covers, i.e. has the timestamps of, each of its sources. `MergeInStep`: the
inputs of a compaction in progress are still there, and what it writes is their
merge. `Replaced`: a block that may be removed is covered by one that may not and
that no running call is writing (`InUse`), for such a call can leave it without its
meta.json. This is what `Delete` needs, and why `Verify`, which adds to the blocks
that may be removed, must find a cover for those that were covered by the inputs it
has just superseded (`CoversTransitive`): the new block, which opens, is not in use
any more, and has the merge of them (`VerifyKeeps`).

Most of the proof is about the data: what `FlattenSeq`, `Picked` and `Rechunked`
contain. The induction theorems of the library are not usable here, so module
`Induction` has one of its own, over a set: `SetInduction` says that a set
with 0 and with every successor has all of Nat, by the least number outside of it
(`NatLessThanWellFounded`, `WFMin`). Each lemma about a loop of `compact` then
gives the set of the steps at which its loop invariant holds. The chain is:
the samples of the inputs in a row have a last one for each timestamp, and it is
that of the last input that has any (`FlattenLast`); a stable sort keeps it
(`StableSortedSorts`); collapsing leaves exactly it (`CollapsedKeepsLast`);
appending to a new `MemSeries` gives chunks with the same samples, in order and
within the cap (`RechunkedKeeps`); together `KeptIs` and `MergedIs`. A last sample
of an input is also its latest (`LastIsLargest`), which gives `LastOfInputsWins`.
`RangesNeverHide` adds that a chunk with a sample in the range meets the range
(`ChunkMeets`) and so does the block (`MetaMeets`). `QueriesNeverShrink` reduces what
a query finds to the timestamps of what the blocks were given (`FoundIs`), and shows
for each action that every timestamp found before is found after it
(`NoStampIsLost`). The step that can make a block unreadable is the patch of
meta.json; what its block has is then still in the inputs (`PatchLosesNothing`). It needs no hypothesis on labels: a query does not find a series
without labels in the first place. The other three do, because `compact` drops such
a series (section 4). The parts of the invariant are restated as operators of the
variables they depend on (`HeadRight`, `DirsRight`, `CallRight`...), so that one lemma
serves before and after a step.

**Only model-checked.**

* `CallsReturn` is liveness, out of the prover's reach, as is `ENABLED`.
* `TypeOK` of `WalPage` bounds what a reader returns from a spoilt file.
* The codecs and the block files: recursive operators, which cannot be in reach
  of a theorem.

## 6. Not modelled

* CRC-32C is a collision-free function; JSON, `std::regex`, ULIDs (clock and
  random bits: every block gets a new number) are external.
* `XORChunk::compact` and `from_bytes` followed by an append: the writer forgets the
  free bits of the last byte, and what is appended then cannot be read. Nothing in
  the library does it.
* Index format V1 (never written here), `all_symbols`, strings with a zero byte in
  a posting key (`index.cpp:502`), more than 999999 segments in a block.
* The sort in `Querier::select`, which promises no order between chunks that begin
  at the same time; `Labels::canonicalize` and hashing.
* What signed overflow does other than wrap around, and what the compiled code does
  behind the undefined shift of `read_bits`.
* An fsync that succeeds without having written what an earlier, failed one left.
* Power loss over more than one block: a compaction whose meta.json vanishes after
  its inputs were removed (section 4).
* Durability of directory entries: fsync of a new file is taken to make its
  entry durable, as journalling file systems do.
* Move operations, `release_fd`, `MemSeries::reset`: no caller in the library
  uses them in a way that changes the state modelled here.

## 7. Plan

Modelled first: the head and its log (what is lost when something fails), then
pages, blocks, codecs, and the files of a block. What comes next, in order:

1. `WalPage` composed with segments, so that the slots of `Head` become a
   refinement instead of an argument.
2. Power loss in `Blocks`, with an fsync of meta.json as the repair to check.
3. `Labels::canonicalize` and the order of `Querier::select`.
