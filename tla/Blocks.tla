------------------------------- MODULE Blocks -------------------------------
(***************************************************************************)
(* The persistent blocks: Block::create_from_head writes the samples of    *)
(* the head into a new block directory, Block::compact merges blocks into  *)
(* one, each file by file and each open to an error or a crash between two *)
(* of them; Block::select, Head::select and Querier::select read.  The     *)
(* crash is one of the process: what a power loss does to files that are   *)
(* not fsynced (the content of meta.json never is) is in BlockFiles.       *)
(*                                                                         *)
(* A label set is a function from names to values.  A chunk is the         *)
(* sequence of its samples; an append may start a new chunk once the last  *)
(* one holds ChunkCap samples.  A series of an index is known by its       *)
(* labels, so that posting lists are sets of label sets: neither a head    *)
(* nor a compaction gives a block two series with the same labels.         *)
(***************************************************************************)
EXTENDS Integers, Sequences, SequencesExt

CONSTANTS
    LabelSets,    \* the label sets that are appended to
    Names,        \* label names that matchers ask for
    LabelValues,  \* label values that matchers ask for
    Selectors,    \* the sequences of matchers that queries ask with
    MaxTime,      \* bound: timestamps are 1..MaxTime
    ChunkCap,     \* samples in a chunk when the next append cuts a new one
    MaxAppends,   \* bound: samples appended
    MaxBlocks,    \* bound: blocks created
    MaxInputs     \* bound: input blocks of a compaction

ASSUME BlocksConstants ==
    /\ MaxTime \in Nat /\ MaxAppends \in Nat /\ MaxBlocks \in Nat /\ MaxInputs \in Nat
    /\ ChunkCap \in Nat \ {0}

VARIABLES
    head,        \* label set -> its chunks in the head
    appended,    \* how many samples were appended; a sample's value is its number
    created,     \* how many ULIDs were generated; a block directory is its number
    disk,        \* block directory -> its files
    op,          \* the call that is creating a block
    superseded,  \* inputs of compactions whose new block was verified
    given        \* history: ULID -> the series its block was created from

vars == <<head, appended, created, disk, op, superseded, given>>

Times == 1..MaxTime

-----------------------------------------------------------------------------
(* Chunks.                                                                 *)

Samples(chunks) == FlattenSeq(chunks)

\* The elements of s at the positions in I, in order.
Picked(s, I) ==
    LET picked[i \in 0..Len(s)] ==
          IF i = 0 THEN <<>>
          ELSE IF i \in I THEN Append(picked[i - 1], s[i]) ELSE picked[i - 1]
    IN picked[Len(s)]

\* MemSeries::append.
AppendTo(chunks, sample) ==
    IF chunks = <<>> \/ Len(Last(chunks)) >= ChunkCap
    THEN Append(chunks, <<sample>>)
    ELSE [chunks EXCEPT ![Len(chunks)] = Append(@, sample)]

InOrder(chunks, t) == chunks # <<>> => Last(Last(chunks)).t <= t

min_time(chunk) == chunk[1].t
max_time(chunk) == chunk[Len(chunk)].t

\* Mutant: the end of the range is left out.
OverlapsOpen(lo, hi, mint, maxt) == ~(lo >= maxt \/ hi < mint)

\* The time range lo..hi meets the time range mint..maxt.
Overlaps(lo, hi, mint, maxt) == ~(lo > maxt \/ hi < mint)

InRange(chunks, mint, maxt) ==
    Picked(chunks, {i \in DOMAIN chunks :
                       Overlaps(min_time(chunks[i]), max_time(chunks[i]), mint, maxt)})

-----------------------------------------------------------------------------
(* Matchers: a regular expression is the set of the values it matches.     *)

Matchers ==
    [type : {"Eq", "Neq"}, name : Names, value : {{v} : v \in LabelValues \cup {""}}]
        \cup [type : {"Re", "Nre"}, name : Names, value : SUBSET (LabelValues \cup {""})]

ASSUME SelectorsAreMatchers == Selectors \subseteq Seq(Matchers)

matches(m, v) == IF m.type \in {"Eq", "Re"} THEN v \in m.value ELSE v \notin m.value

get(labels, n) == IF n \in DOMAIN labels THEN labels[n] ELSE ""

labels_match_all(labels, ms) == \A i \in DOMAIN ms : matches(ms[i], get(labels, ms[i].name))

-----------------------------------------------------------------------------
(* Reading.                                                                *)

NoMeta == [level |-> 0, sources |-> {}, min_time |-> 0, max_time |-> 0]

\* A directory in which only chunks/ is made.  A file that is written in part is
\* refused (by the checksum of the table of contents, by the JSON parser) and
\* counts as missing.
NewDir == [files |-> {"chunks"}, chunks |-> {}, index |-> {}, meta |-> NoMeta]

\* Block::open: meta.json, index and chunks/ are there.
Openable(b) == {"meta.json", "index", "chunks"} \subseteq b.files

Labels(b) == {s.labels : s \in b.index}

postings(b, n, v) == {l \in Labels(b) : n \in DOMAIN l /\ l[n] = v}

postings_for_name(b, n) == {l \in Labels(b) : n \in DOMAIN l}

\* Every posting list: a series without labels is in none.
all_postings(b) == {l \in Labels(b) : DOMAIN l # {}}

label_values(b, n) == {l[n] : l \in postings_for_name(b, n)}

\* The series that the regular expression of m matches.
regex_postings(b, m) ==
    (UNION {postings(b, m.name, v) : v \in label_values(b, m.name) \cap m.value})
        \cup (IF "" \in m.value THEN all_postings(b) \ postings_for_name(b, m.name) ELSE {})

\* Mutant: a series without the label does not differ from the value.
PostingsAmongNamed(b, m) ==
    IF m.type = "Neq" /\ m.value # {""}
    THEN postings_for_name(b, m.name) \ regex_postings(b, m)
    ELSE IF m.type \in {"Eq", "Re"} THEN regex_postings(b, m)
    ELSE all_postings(b) \ regex_postings(b, m)

postings_for_matcher(b, m) ==
    LET v == CHOOSE x \in m.value : TRUE
    IN CASE m.type = "Eq" ->
              IF v = "" THEN all_postings(b) \ postings_for_name(b, m.name)
              ELSE postings(b, m.name, v)
         [] m.type = "Neq" ->
              IF v = "" THEN postings_for_name(b, m.name)
              ELSE all_postings(b) \ postings(b, m.name, v)
         [] m.type = "Re"  -> regex_postings(b, m)
         [] m.type = "Nre" -> all_postings(b) \ regex_postings(b, m)

\* The series that are left with some chunk in the time range.
WithChunks(series, mint, maxt) ==
    {r \in {[labels |-> s.labels, chunks |-> InRange(s.chunks, mint, maxt)] : s \in series} :
        r.chunks # <<>>}

\* Block::select.
block_select(b, ms, mint, maxt) ==
    WithChunks({s \in b.index : \A i \in DOMAIN ms : s.labels \in postings_for_matcher(b, ms[i])},
               mint, maxt)

HeadSeries == {[labels |-> l, chunks |-> head[l]] : l \in {x \in LabelSets : head[x] # <<>>}}

\* Head::select.
head_select(ms, mint, maxt) ==
    WithChunks({s \in HeadSeries : labels_match_all(s.labels, ms)}, mint, maxt)

Opened == {d \in DOMAIN disk : Openable(disk[d])}

\* Querier::select over every block that can be opened and the head, before the
\* chunks of a series are sorted: what each source contributes.
querier_select(ms, mint, maxt) ==
    (UNION {block_select(disk[d], ms, mint, maxt) :
                d \in {x \in Opened : Overlaps(disk[x].meta.min_time, disk[x].meta.max_time,
                                               mint, maxt)}})
        \cup head_select(ms, mint, maxt)

-----------------------------------------------------------------------------
(* Writing.  A call that creates a block goes through the steps "chunks",  *)
(* "index", "meta" and "tombstones"; a compaction ends with "patch", and   *)
(* its caller verifies the new block.                                      *)

Idle == [step |-> "idle"]

Start(series, from, level, sources) ==
    /\ op = Idle
    /\ created < MaxBlocks
    /\ created' = created + 1
    /\ disk' = [d \in DOMAIN disk \cup {created + 1} |->
                  IF d \in DOMAIN disk THEN disk[d] ELSE NewDir]
    /\ op' = [step |-> "chunks", dir |-> created + 1, todo |-> series, series |-> series,
              from |-> from, level |-> level, sources |-> sources]
    /\ given' = Append(given, series)
    /\ UNCHANGED <<head, appended, superseded>>

\* Block::create_from_head.
create_from_head == Start(HeadSeries, <<>>, 1, {created + 1})

\* Mutant: of each series only the first chunk is read.
CollectedFirstChunks(from, l) ==
    FlattenSeq([i \in DOMAIN from |->
        LET found == {s \in disk[from[i]].index : s.labels = l}
        IN IF found = {} THEN <<>> ELSE (CHOOSE s \in found : TRUE).chunks[1]])

\* The samples of the series l of the inputs, block by block.
Collected(from, l) ==
    FlattenSeq([i \in DOMAIN from |->
        LET found == {s \in disk[from[i]].index : s.labels = l}
        IN IF found = {} THEN <<>> ELSE Samples((CHOOSE s \in found : TRUE).chunks)])

StableSorted(samples) ==
    FlattenSeq([t \in Times |-> Picked(samples, {i \in DOMAIN samples : samples[i].t = t})])

\* Mutant: the first of the samples with one timestamp is kept.
CollapsedToFirst(samples) ==
    Picked(samples, {i \in DOMAIN samples : i > 1 => samples[i - 1].t # samples[i].t})

\* Of the samples with one timestamp the last is kept.
Collapsed(samples) ==
    Picked(samples, {i \in DOMAIN samples : i < Len(samples) => samples[i + 1].t # samples[i].t})

\* The samples appended to a new MemSeries one by one.
Rechunked(samples) ==
    LET chunks[i \in 0..Len(samples)] ==
          IF i = 0 THEN <<>> ELSE AppendTo(chunks[i - 1], samples[i])
    IN chunks[Len(samples)]

\* Mutant: the series are those of the first input.
MergedIntoFirst(from) ==
    {[labels |-> l, chunks |-> Rechunked(Collapsed(StableSorted(Collected(from, l))))] :
        l \in all_postings(disk[from[1]])}

\* The series of the new block: those with a posting in some input, their
\* samples merged and put into chunks again.
Merged(from) ==
    {[labels |-> l, chunks |-> Rechunked(Collapsed(StableSorted(Collected(from, l))))] :
        l \in UNION {all_postings(disk[from[i]]) : i \in DOMAIN from}}

\* Block::compact: inputs, merge, and the start of create_from_series.
compact(from) ==
    /\ \A i \in DOMAIN from : from[i] \in Opened
    /\ Start(Merged(from), from,
             1 + Max({disk[from[i]].meta.level : i \in DOMAIN from}),
             UNION {disk[from[i]].meta.sources : i \in DOMAIN from})

At(step) == op.step = step

\* ChunkWriter::write of the chunks of one series.
WriteChunks ==
    /\ At("chunks")
    /\ \E s \in op.todo :
         /\ disk' = [disk EXCEPT ![op.dir].chunks = @ \cup ToSet(s.chunks)]
         /\ op' = [op EXCEPT !.todo = @ \ {s}]
    /\ UNCHANGED <<head, appended, created, superseded, given>>

\* Mutant: chunks that are not written yet are passed over.
WriteIndexEarly ==
    /\ At("chunks")
    /\ disk' = [disk EXCEPT ![op.dir].files = @ \cup {"index"}, ![op.dir].index = op.series]
    /\ op' = [op EXCEPT !.step = "meta"]
    /\ UNCHANGED <<head, appended, created, superseded, given>>

\* ChunkWriter::close, then the index: its postings are those of its series.
WriteIndex ==
    /\ At("chunks") /\ op.todo = {}
    /\ disk' = [disk EXCEPT ![op.dir].files = @ \cup {"index"}, ![op.dir].index = op.series]
    /\ op' = [op EXCEPT !.step = "meta"]
    /\ UNCHANGED <<head, appended, created, superseded, given>>

AllChunks == UNION {ToSet(s.chunks) : s \in op.series}

\* Mutant: the level of a block that is not patched yet is left out.
NewMetaWithoutLevel == NoMeta

NewMeta ==
    [level |-> 1, sources |-> {op.dir},
     min_time |-> IF AllChunks = {} THEN 0 ELSE Min({min_time(c) : c \in AllChunks}),
     max_time |-> IF AllChunks = {} THEN 0 ELSE Max({max_time(c) : c \in AllChunks})]

\* write_meta returns success, too, when the buffer that ~ofstream writes does
\* not reach the file: the meta.json is incomplete and does not parse.
WriteMeta ==
    /\ At("meta")
    /\ \/ disk' = [disk EXCEPT ![op.dir].files = @ \cup {"meta.json"}, ![op.dir].meta = NewMeta]
       \/ UNCHANGED disk
    /\ op' = [op EXCEPT !.step = "tombstones"]
    /\ UNCHANGED <<head, appended, created, superseded, given>>

\* The last file: create_from_head returns, compact goes on.
WriteTombstones ==
    /\ At("tombstones")
    /\ disk' = [disk EXCEPT ![op.dir].files = @ \cup {"tombstones"}]
    /\ op' = IF op.from = <<>> THEN Idle ELSE [op EXCEPT !.step = "patch"]
    /\ UNCHANGED <<head, appended, created, superseded, given>>

\* read_meta, then write_meta: the new file replaces the one that was read even
\* when it is incomplete.  compact returns success.
PatchMeta ==
    /\ At("patch")
    /\ "meta.json" \in disk[op.dir].files
    /\ \/ disk' = [disk EXCEPT ![op.dir].meta.level = op.level,
                               ![op.dir].meta.sources = op.sources]
       \/ disk' = [disk EXCEPT ![op.dir].files = @ \ {"meta.json"},
                               ![op.dir].meta = NoMeta]
    /\ op' = [op EXCEPT !.step = "verify"]
    /\ UNCHANGED <<head, appended, created, superseded, given>>

\* The step returns an error, or the process dies: what is written stays.  So
\* ends a verification that does not open the block.
Interrupted ==
    /\ op # Idle
    /\ op' = Idle
    /\ UNCHANGED <<head, appended, created, disk, superseded, given>>

-----------------------------------------------------------------------------
(* The caller.                                                             *)

\* Head::append, as far as the series of the head go.
append(l, t) ==
    /\ op = Idle
    /\ appended < MaxAppends
    /\ InOrder(head[l], t)
    /\ appended' = appended + 1
    /\ head' = [head EXCEPT ![l] = AppendTo(@, [t |-> t, v |-> appended + 1])]
    /\ UNCHANGED <<created, disk, op, superseded, given>>

\* Mutant: that compact returned success is enough.
VerifyNothing ==
    /\ At("verify")
    /\ op' = Idle
    /\ superseded' = superseded \cup ToSet(op.from)
    /\ UNCHANGED <<head, appended, created, disk, given>>

\* "The caller is responsible for cleanup after verifying the new block": before
\* anything else it opens the block ...
Verify ==
    /\ At("verify")
    /\ Openable(disk[op.dir])
    /\ op' = Idle
    /\ superseded' = superseded \cup ToSet(op.from)
    /\ UNCHANGED <<head, appended, created, disk, given>>

\* ... and some time later it removes the inputs.
Delete(d) ==
    /\ op = Idle
    /\ disk' = [x \in DOMAIN disk \ {d} |-> disk[x]]
    /\ superseded' = superseded \ {d}
    /\ UNCHANGED <<head, appended, created, op, given>>

Init ==
    /\ head = [l \in LabelSets |-> <<>>]
    /\ appended = 0 /\ created = 0
    /\ disk = <<>>
    /\ op = Idle
    /\ superseded = {}
    /\ given = <<>>

Next ==
    \/ \E l \in LabelSets, t \in Times : append(l, t)
    \/ create_from_head
    \/ \E n \in 1..MaxInputs : \E from \in [1..n -> Opened] : compact(from)
    \/ WriteChunks
    \/ WriteIndex
    \/ WriteMeta
    \/ WriteTombstones
    \/ PatchMeta
    \/ Verify
    \/ Interrupted
    \/ \E d \in superseded : Delete(d)

Spec == Init /\ [][Next]_vars

-----------------------------------------------------------------------------
(* Properties.                                                             *)

Sample == [t : Times, v : 1..MaxAppends]

IsChunk(c) ==
    /\ c \in Seq(Sample) /\ Len(c) \in 1..ChunkCap
    /\ \A i, j \in DOMAIN c : i <= j => c[i].t <= c[j].t

IsChunks(chunks) ==
    /\ chunks \in Seq(Seq(Sample))
    /\ \A i \in DOMAIN chunks : IsChunk(chunks[i])
    /\ \A i \in 2..Len(chunks) : max_time(chunks[i - 1]) <= min_time(chunks[i])

\* Chunks are in time order and within their cap, one series per label set, and
\* a block that can be opened has a level.
TypeOK ==
    /\ \A l \in LabelSets : IsChunks(head[l])
    /\ appended \in 0..MaxAppends /\ created \in 0..MaxBlocks
    /\ DOMAIN disk \subseteq 1..created
    /\ superseded \subseteq 1..created
    /\ \A d \in DOMAIN disk :
         /\ disk[d].files \subseteq {"chunks", "index", "meta.json", "tombstones"}
         /\ \A s \in disk[d].index : s.labels \in LabelSets /\ s.chunks # <<>> /\ IsChunks(s.chunks)
         /\ \A s1, s2 \in disk[d].index : s1.labels = s2.labels => s1 = s2
         /\ disk[d].meta.sources \subseteq 1..created
         /\ Openable(disk[d]) => disk[d].meta.level >= 1

\* A block that can be opened has everything it was created from: every series
\* it was given is in its index, and every chunk its index refers to is in
\* chunks/, wherever an error or a crash ended the call.
OpenableIsComplete ==
    \A d \in Opened :
        /\ disk[d].index = given[d]
        /\ \A s \in disk[d].index : ToSet(s.chunks) \subseteq disk[d].chunks

Steps == {"chunks", "meta", "tombstones", "patch", "verify"}

IsMeta(m) ==
    m = [level |-> m.level, sources |-> m.sources, min_time |-> m.min_time, max_time |-> m.max_time]

IsDir(b) ==
    /\ b = [files |-> b.files, chunks |-> b.chunks, index |-> b.index, meta |-> b.meta]
    /\ IsMeta(b.meta)

\* The directories are those of ULIDs that were generated, and each of these
\* has its series.
Directories ==
    /\ created \in Nat
    /\ given \in Seq(ToSet(given)) /\ Len(given) = created
    /\ disk = [d \in DOMAIN disk |-> disk[d]] /\ DOMAIN disk \subseteq 1..created
    /\ \A d \in DOMAIN disk : IsDir(disk[d])

\* The chunks of series are in chunks/.
ChunksWritten(b, series) == \A s \in series : ToSet(s.chunks) \subseteq b.chunks

\* An index is written only when the chunks it refers to are.
IndexAfterChunks ==
    \A d \in DOMAIN disk : "index" \in disk[d].files =>
        disk[d].index = given[d] /\ ChunksWritten(disk[d], given[d])

\* The call that is creating a block works on the newest directory: the chunks
\* of the series it is done with are in chunks/, its index comes before its
\* meta.json, and the head it copies does not change under it.
CallInStep ==
    op # Idle =>
        /\ op = [step |-> op.step, dir |-> op.dir, todo |-> op.todo, series |-> op.series,
                 from |-> op.from, level |-> op.level, sources |-> op.sources]
        /\ op.step \in Steps
        /\ op.dir = created /\ op.dir \in DOMAIN disk
        /\ op.series = given[op.dir] /\ op.todo \subseteq op.series
        /\ ChunksWritten(disk[op.dir], op.series \ op.todo)
        /\ IF op.step = "chunks" THEN disk[op.dir].files = {"chunks"}
           ELSE "index" \in disk[op.dir].files
        /\ op.from = <<>> => op.series = HeadSeries

\* What a call has done at each of its steps, and what it leaves behind when it
\* ends there: the strengthening that makes OpenableIsComplete inductive.
FilesInOrder == Directories /\ IndexAfterChunks /\ CallInStep

\* Every series has a label, and no label has an empty value.
LabelledSeries == \A l \in LabelSets : DOMAIN l # {} /\ \A n \in DOMAIN l : l[n] # ""

\* The block just written from the head answers every query as the head does
\* ("same semantics as Block::select", head.cpp): the postings of the index and
\* the linear scan of Head::select agree on every matcher and time range.
SelectAgrees ==
    (op # Idle /\ At("tombstones") /\ op.from = <<>> /\ Openable(disk[op.dir])) =>
        \A ms \in Selectors : \A mint, maxt \in Times :
            block_select(disk[op.dir], ms, mint, maxt) = head_select(ms, mint, maxt)

SamplesOf(series) ==
    UNION {{[labels |-> s.labels, t |-> x.t, v |-> x.v] : x \in ToSet(Samples(s.chunks))} :
               s \in series}

Stamps(series) == {[labels |-> x.labels, t |-> x.t] : x \in SamplesOf(series)}

\* The values that a block has for one timestamp of a series.
ValuesAt(b, stamp) ==
    {x.v : x \in {y \in SamplesOf(b.index) : y.labels = stamp.labels /\ y.t = stamp.t}}

\* Last input wins (SPEC 7.1, compact_test): the new block has one value for each
\* timestamp of a series that some input has, and it is the latest of the last
\* such input.  (Values are numbered in the order they are appended.)  The
\* comment at block.hpp:141 says the opposite of the same call: "both chunks are
\* kept and the output may contain duplicate samples".
LastInputWins ==
    (op # Idle /\ At("meta") /\ op.from # <<>>) =>
        LET out == disk[op.dir]
            in(i) == disk[op.from[i]]
        IN /\ Stamps(out.index) = UNION {Stamps(in(i).index) : i \in DOMAIN op.from}
           /\ \A x \in Stamps(out.index) :
                LET last == Max({i \in DOMAIN op.from : x \in Stamps(in(i).index)})
                IN ValuesAt(out, x) = {Max(ValuesAt(in(last), x))}

\* What meta.json says of the origin of a block can be relied on: the block has
\* every timestamp of every series of every block it names as a source, after
\* any number of compactions.
SourcesHold ==
    \A d \in Opened : \A u \in disk[d].meta.sources :
        Stamps(given[u]) \subseteq Stamps(disk[d].index)

Everything == <<[type |-> "Nre", name |-> CHOOSE n \in Names : TRUE, value |-> {}]>>

\* Neither the time range in meta.json nor that of a chunk hides a sample from
\* a query whose range it lies in.
RangeNeverHides ==
    op = Idle =>
        \A mint, maxt \in Times :
            LET found == SamplesOf(querier_select(Everything, mint, maxt))
            IN \A d \in Opened : \A x \in SamplesOf(disk[d].index) :
                 mint <= x.t /\ x.t <= maxt => x \in found

Found ==
    Stamps(UNION {block_select(disk[d], Everything, 1, MaxTime) : d \in Opened})

\* Samples of a series with the same timestamp are in the order in which they
\* were appended.
Numbered(chunks) ==
    LET s == Samples(chunks)
    IN \A i, j \in DOMAIN s : i < j /\ s[i].t = s[j].t => s[i].v < s[j].v

IsSeries(s) ==
    /\ s = [labels |-> s.labels, chunks |-> s.chunks]
    /\ s.labels \in LabelSets /\ s.chunks # <<>>
    /\ IsChunks(s.chunks) /\ Numbered(s.chunks)

\* The head, and what every block was created from.
SeriesInOrder ==
    /\ head = [l \in LabelSets |-> head[l]]
    /\ \A l \in LabelSets :
         /\ IsChunks(head[l]) /\ Numbered(head[l])
         /\ \A x \in ToSet(Samples(head[l])) : x.v <= appended
    /\ \A d \in 1..created :
         /\ \A s \in given[d] : IsSeries(s)
         /\ \A s1, s2 \in given[d] : s1.labels = s2.labels => s1 = s2

\* The timestamps that a series of posting lists has: those that a compaction
\* hands on.
NamedStamps(series) == Stamps({s \in series : DOMAIN s.labels # {}})

Covers(series, sources) ==
    \A u \in sources : NamedStamps(given[u]) \subseteq NamedStamps(series)

\* The time range and the sources of a meta.json.
MetaRight(d) ==
    LET meta == disk[d].meta
    IN /\ meta.level >= 1 /\ meta.min_time \in Nat /\ meta.max_time \in Nat
       /\ \A s \in given[d] : \A i \in DOMAIN s.chunks :
            /\ meta.min_time <= min_time(s.chunks[i])
            /\ max_time(s.chunks[i]) <= meta.max_time
       /\ Covers(given[d], meta.sources)

DirsInOrder ==
    /\ created <= MaxBlocks /\ appended \in 0..MaxAppends
    /\ \A d \in DOMAIN disk :
         /\ disk[d].files \subseteq {"chunks", "index", "meta.json", "tombstones"}
         /\ "chunks" \in disk[d].files
         /\ "index" \in disk[d].files \/ disk[d].index = {}
         /\ disk[d].meta.level \in Nat /\ disk[d].meta.sources \subseteq 1..created
         /\ Openable(disk[d]) => MetaRight(d)

\* The block of a call that goes on is not removed; a compaction still has its
\* inputs in front of it, and what it writes is their merge.
MergeInStep ==
    op # Idle =>
        /\ op.dir \notin superseded
        /\ op.step \in {"patch", "verify"} => op.from # <<>>
        /\ op.from # <<>> =>
             /\ op.from \in Seq(Opened \ {op.dir})
             /\ op.series = Merged(op.from)
             /\ op.level \in Nat \ {0}
             /\ op.sources \subseteq 1..created /\ Covers(op.series, op.sources)

\* The directory that the running call may still damage.
InUse == IF op = Idle THEN {} ELSE {op.dir}

\* A block that may be removed is covered by one that may not, and that no call
\* is working on.
Replaced ==
    /\ superseded \subseteq Opened
    /\ \A d \in superseded : \E e \in Opened \ (superseded \cup InUse) : Covers(given[e], {d})

\* No step of a flush, a compaction or a removal loses a timestamp, not even one
\* that returns success and leaves an incomplete meta.json behind: the
\* strengthening that makes SourcesHold, RangeNeverHides, LastInputWins and
\* QueryNeverShrinks inductive.
MergesKeepAll == SeriesInOrder /\ DirsInOrder /\ MergeInStep /\ Replaced

\* What a query over the blocks has found it finds for ever: not an error, not
\* a crash, not the replacement of a good meta.json by an incomplete one, and
\* not the removal of the inputs of a compaction whose block was verified, as
\* block.hpp asks, takes a timestamp of a series away.
QueryNeverShrinks == [][Found \subseteq Found']_vars
=============================================================================
