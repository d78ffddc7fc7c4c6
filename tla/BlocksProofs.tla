---------------------------- MODULE BlocksProofs ----------------------------
(***************************************************************************)
(* Proofs about Blocks: a block that can be opened is complete, the block  *)
(* written from the head answers every query as the head does, no flush,   *)
(* compaction or removal loses a timestamp, and the last input wins.       *)
(***************************************************************************)
EXTENDS Blocks, Induction, SequenceTheorems

-----------------------------------------------------------------------------
(* A block that can be opened is complete.                                 *)

(* At the start there is no directory and no call. *)
LEMMA InitFiles ==
    ASSUME Init
    PROVE  FilesInOrder
  <1>1. created = 0 /\ given = <<>> /\ op = Idle /\ disk = <<>>
    BY DEF Init
  <1>2. ToSet(given) = {} /\ given \in Seq(ToSet(given)) /\ Len(given) = 0
    BY <1>1 DEF ToSet
  <1>3. DOMAIN disk = {} /\ disk = [d \in DOMAIN disk |-> disk[d]]
    BY <1>1
  <1> QED
    BY <1>1, <1>2, <1>3 DEF FilesInOrder, Directories, IndexAfterChunks, CallInStep

(* The history of a new block. *)
LEMMA GivenGrows ==
    ASSUME Directories, NEW series
    PROVE  LET g == Append(given, series)
           IN /\ g \in Seq(ToSet(g)) /\ Len(g) = created + 1
              /\ \A d \in 1..created : g[d] = given[d]
              /\ g[created + 1] = series
  <1> DEFINE S == ToSet(given) \cup {series}
             g == Append(given, series)
  <1>1. given \in Seq(S) /\ series \in S /\ Len(given) = created /\ created \in Nat
    BY DEF Directories
  <1> HIDE DEF S
  <1>2. /\ g \in Seq(S) /\ Len(g) = created + 1
        /\ \A d \in 1..created : g[d] = given[d]
        /\ g[created + 1] = series
    BY <1>1, AppendProperties
  <1>3. g \in Seq(ToSet(g))
    <2> HIDE DEF g
    <2> QED
      BY <1>2, LenProperties DEF ToSet
  <1> QED
    BY <1>2, <1>3

(* The start of a call makes a directory that no index is in. *)
LEMMA StartFiles ==
    ASSUME FilesInOrder, NEW series, NEW from, NEW level, NEW sources,
           Start(series, from, level, sources), from = <<>> => series = HeadSeries
    PROVE  FilesInOrder'
  <1> DEFINE c == created + 1
             b == NewDir
  <1>1. /\ created \in Nat /\ created' = c /\ c \in Nat
        /\ DOMAIN disk \subseteq 1..created
        /\ op' = [step |-> "chunks", dir |-> c, todo |-> series, series |-> series,
                  from |-> from, level |-> level, sources |-> sources]
        /\ given' = Append(given, series)
        /\ UNCHANGED <<head, appended, superseded>>
    BY DEF Start, FilesInOrder, Directories
  <1>2. disk' = [x \in DOMAIN disk \cup {c} |-> IF x \in DOMAIN disk THEN disk[x] ELSE b]
    BY DEF Start
  <1>3. /\ b = [files |-> {"chunks"}, chunks |-> {}, index |-> {}, meta |-> NoMeta]
        /\ IsDir(b)
    <2>1. IsMeta(NoMeta)
      BY DEF NoMeta, IsMeta
    <2>2. b = [files |-> {"chunks"}, chunks |-> {}, index |-> {}, meta |-> NoMeta]
      BY DEF NewDir
    <2> HIDE DEF b
    <2> QED
      BY <2>1, <2>2 DEF IsDir
  <1> HIDE DEF b
  <1>4. c \notin DOMAIN disk
    BY <1>1
  <1>5. /\ DOMAIN disk' = DOMAIN disk \cup {c}
        /\ \A d \in DOMAIN disk : disk'[d] = disk[d]
        /\ disk'[c] = b
        /\ disk' = [d \in DOMAIN disk' |-> disk'[d]]
    BY <1>2, <1>4
  <1>6. /\ given' \in Seq(ToSet(given')) /\ Len(given') = c
        /\ \A d \in 1..created : given'[d] = given[d]
        /\ given'[c] = series
    BY <1>1, GivenGrows DEF FilesInOrder
  <1>7. Directories'
    <2>1. \A d \in DOMAIN disk' : IsDir(disk'[d])
      BY <1>3, <1>5 DEF FilesInOrder, Directories
    <2>2. DOMAIN disk' \subseteq 1..c
      BY <1>1, <1>5
    <2> QED
      BY <1>1, <1>5, <1>6, <2>1, <2>2 DEF Directories
  <1>8. IndexAfterChunks'
    <2> SUFFICES ASSUME NEW d \in DOMAIN disk', "index" \in disk'[d].files
                 PROVE  disk'[d].index = given'[d] /\ ChunksWritten(disk'[d], given'[d])
      BY DEF IndexAfterChunks, ChunksWritten
    <2>1. d \in DOMAIN disk
      BY <1>3, <1>5
    <2>2. disk'[d] = disk[d] /\ given'[d] = given[d]
      BY <1>1, <1>5, <1>6, <2>1
    <2> QED
      BY <2>1, <2>2 DEF FilesInOrder, IndexAfterChunks
  <1>9. CallInStep'
    <2>1. HeadSeries' = HeadSeries
      BY <1>1 DEF HeadSeries
    <2>2. /\ op'.step = "chunks" /\ op'.dir = c /\ op'.todo = series /\ op'.series = series
          /\ op'.from = from
      BY <1>1
    <2>3. ChunksWritten(disk'[op'.dir], op'.series \ op'.todo)
      BY <2>2 DEF ChunksWritten
    <2> QED
      BY <1>1, <1>3, <1>5, <1>6, <2>1, <2>2, <2>3 DEF CallInStep, ChunksWritten, Steps
  <1> QED
    BY <1>7, <1>8, <1>9 DEF FilesInOrder

(* What EXCEPT makes of the record of a directory. *)
LEMMA ExceptChunks ==
    ASSUME NEW b, IsDir(b), NEW x
    PROVE  [b EXCEPT !.chunks = x]
             = [files |-> b.files, chunks |-> x, index |-> b.index, meta |-> b.meta]
  BY DEF IsDir

LEMMA ExceptFiles ==
    ASSUME NEW b, IsDir(b), NEW x
    PROVE  [b EXCEPT !.files = x]
             = [files |-> x, chunks |-> b.chunks, index |-> b.index, meta |-> b.meta]
  BY DEF IsDir

LEMMA ExceptIndex ==
    ASSUME NEW b, IsDir(b), NEW x, NEW y
    PROVE  [b EXCEPT !.files = x, !.index = y]
             = [files |-> x, chunks |-> b.chunks, index |-> y, meta |-> b.meta]
  <1>1. PICK e : e = [files |-> x, chunks |-> b.chunks, index |-> b.index, meta |-> b.meta]
    OBVIOUS
  <1>2. [b EXCEPT !.files = x] = e
    BY <1>1, ExceptFiles
  <1>3. [e EXCEPT !.index = y]
          = [files |-> x, chunks |-> b.chunks, index |-> y, meta |-> b.meta]
    BY <1>1
  <1> QED
    BY <1>2, <1>3, Zenon

LEMMA ExceptMeta ==
    ASSUME NEW b, IsDir(b), NEW x, NEW y
    PROVE  [b EXCEPT !.files = x, !.meta = y]
             = [files |-> x, chunks |-> b.chunks, index |-> b.index, meta |-> y]
  <1>1. PICK e : e = [files |-> x, chunks |-> b.chunks, index |-> b.index, meta |-> b.meta]
    OBVIOUS
  <1>2. [b EXCEPT !.files = x] = e
    BY <1>1, ExceptFiles
  <1>3. [e EXCEPT !.meta = y]
          = [files |-> x, chunks |-> b.chunks, index |-> b.index, meta |-> y]
    BY <1>1
  <1> QED
    BY <1>2, <1>3, Zenon

LEMMA ExceptOrigin ==
    ASSUME NEW b, IsDir(b), NEW x, NEW y
    PROVE  [b EXCEPT !.meta.level = x, !.meta.sources = y]
             = [files |-> b.files, chunks |-> b.chunks, index |-> b.index,
                meta |-> [level |-> x, sources |-> y, min_time |-> b.meta.min_time,
                          max_time |-> b.meta.max_time]]
  <1>1. PICK f, c, i, m : /\ f = b.files /\ c = b.chunks /\ i = b.index /\ m = b.meta
                          /\ b = [files |-> f, chunks |-> c, index |-> i, meta |-> m]
    BY Zenon DEF IsDir
  <1>2. PICK l, o, p, q : /\ p = m.min_time /\ q = m.max_time
                          /\ m = [level |-> l, sources |-> o, min_time |-> p, max_time |-> q]
    BY <1>1, Zenon DEF IsDir, IsMeta
  <1>3. PICK n : n = [level |-> x, sources |-> o, min_time |-> p, max_time |-> q]
    OBVIOUS
  <1>4. PICK e : e = [files |-> f, chunks |-> c, index |-> i, meta |-> n]
    OBVIOUS
  <1>5. PICK k : k = [level |-> x, sources |-> y, min_time |-> p, max_time |-> q]
    OBVIOUS
  <1>6. [m EXCEPT !.level = x] = n
    BY <1>2, <1>3
  <1>7. b.meta = m /\ e.meta = n
    BY <1>1, <1>4
  <1>8. [b EXCEPT !.meta = n] = e
    BY <1>1, <1>4
  <1>9. [b EXCEPT !.meta.level = x] = e
    BY <1>6, <1>7, <1>8, Zenon
  <1>10. [n EXCEPT !.sources = y] = k
    BY <1>3, <1>5
  <1>11. [e EXCEPT !.meta = k] = [files |-> f, chunks |-> c, index |-> i, meta |-> k]
    BY <1>4
  <1>12. [e EXCEPT !.meta.sources = y] = [files |-> f, chunks |-> c, index |-> i, meta |-> k]
    BY <1>7, <1>10, <1>11, Zenon
  <1>13. [b EXCEPT !.meta.level = x, !.meta.sources = y]
           = [files |-> f, chunks |-> c, index |-> i, meta |-> k]
    BY <1>9, <1>12, Zenon
  <1> QED
    BY <1>1, <1>2, <1>5, <1>13, Zenon

(* A step of a call that writes in its own directory. *)
LEMMA WrittenDir ==
    ASSUME FilesInOrder, NEW b, op # Idle,
           disk' = [disk EXCEPT ![op.dir] = b], IsDir(b), created' = created, given' = given,
           "index" \in b.files => b.index = op.series /\ ChunksWritten(b, op.series)
    PROVE  /\ Directories' /\ IndexAfterChunks'
           /\ DOMAIN disk' = DOMAIN disk /\ disk'[op.dir] = b
  <1>1. /\ op.dir \in DOMAIN disk /\ op.series = given[op.dir]
        /\ disk = [d \in DOMAIN disk |-> disk[d]]
    BY DEF FilesInOrder, CallInStep, Directories
  <1>2. /\ DOMAIN disk' = DOMAIN disk /\ disk'[op.dir] = b
        /\ \A d \in DOMAIN disk : d # op.dir => disk'[d] = disk[d]
        /\ disk' = [d \in DOMAIN disk' |-> disk'[d]]
    BY <1>1
  <1>3. Directories'
    BY <1>1, <1>2 DEF FilesInOrder, Directories
  <1>4. IndexAfterChunks'
    BY <1>1, <1>2 DEF FilesInOrder, IndexAfterChunks, ChunksWritten
  <1> QED
    BY <1>2, <1>3, <1>4

(* The record of a call, and what it writes to. *)
LEMMA CallShape ==
    ASSUME FilesInOrder, op # Idle
    PROVE  /\ op = [step |-> op.step, dir |-> op.dir, todo |-> op.todo, series |-> op.series,
                    from |-> op.from, level |-> op.level, sources |-> op.sources]
           /\ op.dir \in DOMAIN disk /\ IsDir(disk[op.dir])
           /\ disk = [d \in DOMAIN disk |-> disk[d]]
  BY DEF FilesInOrder, CallInStep, Directories

(* A call that is at some step is not idle. *)
LEMMA AtIsBusy ==
    ASSUME NEW step, At(step), step \in Steps
    PROVE  op # Idle
  BY DEF At, Steps, Idle

LEMMA WriteChunksFiles ==
    ASSUME FilesInOrder, WriteChunks
    PROVE  FilesInOrder'
  <1>1. op # Idle
    BY AtIsBusy DEF WriteChunks, Steps
  <1>2. PICK s \in op.todo :
          /\ disk' = [disk EXCEPT ![op.dir].chunks = @ \cup ToSet(s.chunks)]
          /\ op' = [op EXCEPT !.todo = @ \ {s}]
    BY DEF WriteChunks
  <1> DEFINE b == [disk[op.dir] EXCEPT !.chunks = @ \cup ToSet(s.chunks)]
  <1>3. /\ op.step = "chunks" /\ UNCHANGED <<head, appended, created, superseded, given>>
        /\ disk' = [disk EXCEPT ![op.dir] = b]
    BY <1>2 DEF WriteChunks, At
  <1>4. /\ IsDir(b) /\ b.files = disk[op.dir].files
        /\ b.chunks = disk[op.dir].chunks \cup ToSet(s.chunks)
    <2>1. b = [files |-> disk[op.dir].files, chunks |-> disk[op.dir].chunks \cup ToSet(s.chunks),
               index |-> disk[op.dir].index, meta |-> disk[op.dir].meta]
      BY <1>1, CallShape, ExceptChunks, Zenon
    <2>2. IsMeta(disk[op.dir].meta)
      BY <1>1, CallShape DEF IsDir
    <2> HIDE DEF b
    <2> QED
      BY <2>1, <2>2 DEF IsDir
  <1>5. /\ "index" \notin b.files /\ b.files = {"chunks"}
        /\ op.dir = created /\ op.series = given[op.dir] /\ op.todo \subseteq op.series
        /\ op.from = <<>> => op.series = HeadSeries
        /\ \A x \in op.series \ op.todo : ToSet(x.chunks) \subseteq disk[op.dir].chunks
    BY <1>1, <1>3, <1>4 DEF FilesInOrder, CallInStep, ChunksWritten
  <1> HIDE DEF b
  <1>6. /\ Directories' /\ IndexAfterChunks'
        /\ DOMAIN disk' = DOMAIN disk /\ disk'[op.dir] = b
    BY <1>1, <1>3, <1>4, <1>5, WrittenDir
  <1>7. /\ op' = [step |-> "chunks", dir |-> op.dir, todo |-> op.todo \ {s}, series |-> op.series,
                  from |-> op.from, level |-> op.level, sources |-> op.sources]
        /\ op'.step = "chunks" /\ op'.dir = op.dir /\ op'.todo = op.todo \ {s}
        /\ op'.series = op.series /\ op'.from = op.from
        /\ op'.level = op.level /\ op'.sources = op.sources
    BY <1>1, <1>2, <1>3, CallShape
  <1>8. \A x \in op.series \ (op.todo \ {s}) : ToSet(x.chunks) \subseteq b.chunks
    BY <1>4, <1>5
  <1>9. HeadSeries' = HeadSeries
    BY <1>3 DEF HeadSeries
  <1>10. CallInStep'
    BY <1>1, <1>3, <1>5, <1>6, <1>7, <1>8, <1>9, CallShape DEF CallInStep, ChunksWritten, Steps
  <1> QED
    BY <1>6, <1>10 DEF FilesInOrder

LEMMA WriteIndexFiles ==
    ASSUME FilesInOrder, WriteIndex
    PROVE  FilesInOrder'
  <1>1. op # Idle
    BY AtIsBusy DEF WriteIndex, Steps
  <1> DEFINE b == [disk[op.dir] EXCEPT !.files = @ \cup {"index"}, !.index = op.series]
  <1>2. /\ op.step = "chunks" /\ op.todo = {}
        /\ UNCHANGED <<head, appended, created, superseded, given>>
        /\ op' = [op EXCEPT !.step = "meta"]
    BY DEF WriteIndex, At
  <1>3. disk' = [disk EXCEPT ![op.dir] = b]
    BY <1>1, CallShape DEF WriteIndex, IsDir
  <1>4. /\ IsDir(b) /\ b.files = disk[op.dir].files \cup {"index"}
        /\ b.chunks = disk[op.dir].chunks /\ b.index = op.series
    <2>1. b = [files |-> disk[op.dir].files \cup {"index"}, chunks |-> disk[op.dir].chunks,
               index |-> op.series, meta |-> disk[op.dir].meta]
      BY <1>1, CallShape, ExceptIndex, Zenon
    <2>2. IsMeta(disk[op.dir].meta)
      BY <1>1, CallShape DEF IsDir
    <2> HIDE DEF b
    <2> QED
      BY <2>1, <2>2 DEF IsDir
  <1>5. /\ op.dir = created /\ op.series = given[op.dir]
        /\ op.from = <<>> => op.series = HeadSeries
        /\ ChunksWritten(b, op.series)
    BY <1>1, <1>2, <1>4 DEF FilesInOrder, CallInStep, ChunksWritten
  <1> HIDE DEF b
  <1>6. /\ Directories' /\ IndexAfterChunks'
        /\ DOMAIN disk' = DOMAIN disk /\ disk'[op.dir] = b
    BY <1>1, <1>2, <1>3, <1>4, <1>5, WrittenDir
  <1>7. /\ op' = [step |-> "meta", dir |-> op.dir, todo |-> {}, series |-> op.series,
                  from |-> op.from, level |-> op.level, sources |-> op.sources]
        /\ op'.step = "meta" /\ op'.dir = op.dir /\ op'.todo = {}
        /\ op'.series = op.series /\ op'.from = op.from
        /\ op'.level = op.level /\ op'.sources = op.sources
    BY <1>1, <1>2, CallShape
  <1>8. HeadSeries' = HeadSeries
    BY <1>2 DEF HeadSeries
  <1>9. CallInStep'
    BY <1>1, <1>2, <1>4, <1>5, <1>6, <1>7, <1>8, CallShape DEF CallInStep, ChunksWritten, Steps
  <1> QED
    BY <1>6, <1>9 DEF FilesInOrder

(* A step after the index that leaves chunks and index alone. *)
LEMMA LaterFiles ==
    ASSUME FilesInOrder, NEW b, op # Idle, op.step \in Steps \ {"chunks"},
           disk' = [disk EXCEPT ![op.dir] = b], IsDir(b),
           disk[op.dir].files \ {"meta.json"} \subseteq b.files,
           b.chunks = disk[op.dir].chunks, b.index = disk[op.dir].index,
           UNCHANGED <<head, appended, created, given>>,
           op' = Idle \/ \E step \in Steps \ {"chunks"} : op' = [op EXCEPT !.step = step]
    PROVE  FilesInOrder'
  <1>1. /\ op.dir \in DOMAIN disk /\ "index" \in disk[op.dir].files
        /\ op.dir = created /\ op.series = given[op.dir] /\ op.todo \subseteq op.series
        /\ op.from = <<>> => op.series = HeadSeries
    BY DEF FilesInOrder, CallInStep
  <1>2. disk[op.dir].index = op.series /\ ChunksWritten(disk[op.dir], op.series)
    BY <1>1 DEF FilesInOrder, IndexAfterChunks
  <1>3. "index" \in b.files /\ b.index = op.series /\ ChunksWritten(b, op.series)
    BY <1>1, <1>2 DEF ChunksWritten
  <1>4. /\ Directories' /\ IndexAfterChunks'
        /\ DOMAIN disk' = DOMAIN disk /\ disk'[op.dir] = b
    BY <1>3, WrittenDir
  <1>5. HeadSeries' = HeadSeries
    BY DEF HeadSeries
  <1>6. ASSUME NEW step \in Steps \ {"chunks"}, op' = [op EXCEPT !.step = step]
        PROVE  CallInStep'
    <2>1. /\ op' = [step |-> step, dir |-> op.dir, todo |-> op.todo, series |-> op.series,
                    from |-> op.from, level |-> op.level, sources |-> op.sources]
          /\ op'.step = step /\ op'.dir = op.dir /\ op'.todo = op.todo
          /\ op'.series = op.series /\ op'.from = op.from
          /\ op'.level = op.level /\ op'.sources = op.sources
      BY <1>6, CallShape
    <2>2. ChunksWritten(b, op.series \ op.todo)
      BY <1>3 DEF ChunksWritten
    <2> QED
      BY <1>1, <1>3, <1>4, <1>5, <2>1, <2>2 DEF CallInStep, ChunksWritten
  <1>7. op' = Idle => CallInStep'
    BY DEF CallInStep
  <1> QED
    BY <1>4, <1>6, <1>7 DEF FilesInOrder

(* The directory b takes the place of the one the call works on. *)
Takes(b) ==
    /\ disk' = [disk EXCEPT ![op.dir] = b]
    /\ IsDir(b) /\ b.chunks = disk[op.dir].chunks /\ b.index = disk[op.dir].index

(* The two outcomes of write_meta for a new block: a whole meta.json, or one   *)
(* that does not parse.                                                        *)
LEMMA WriteMetaDir ==
    ASSUME FilesInOrder, WriteMeta
    PROVE  \E b : /\ Takes(b)
                  /\ \/ b.files = disk[op.dir].files \cup {"meta.json"} /\ b.meta = NewMeta
                     \/ b.files = disk[op.dir].files /\ b.meta = disk[op.dir].meta
  <1>1. op # Idle
    BY AtIsBusy DEF WriteMeta, Steps
  <1>2. CASE disk' = [disk EXCEPT ![op.dir].files = @ \cup {"meta.json"}, ![op.dir].meta = NewMeta]
    <2>1. PICK b : b = [disk[op.dir] EXCEPT !.files = @ \cup {"meta.json"}, !.meta = NewMeta]
      OBVIOUS
    <2>2. disk' = [disk EXCEPT ![op.dir] = b]
      BY <1>1, <1>2, <2>1, CallShape DEF IsDir
    <2>3. b = [files |-> disk[op.dir].files \cup {"meta.json"}, chunks |-> disk[op.dir].chunks,
               index |-> disk[op.dir].index, meta |-> NewMeta]
      BY <1>1, <2>1, CallShape, ExceptMeta, Zenon
    <2>4. IsMeta(NewMeta)
      BY DEF NewMeta, IsMeta
    <2>5. /\ b.files = disk[op.dir].files \cup {"meta.json"} /\ b.meta = NewMeta
          /\ IsDir(b) /\ b.chunks = disk[op.dir].chunks /\ b.index = disk[op.dir].index
      BY <2>3, <2>4 DEF IsDir
    <2> QED
      BY <2>2, <2>5, Zenon DEF Takes
  <1>3. CASE disk' = disk
    <2>1. PICK b : b = disk[op.dir]
      OBVIOUS
    <2>2. disk' = [disk EXCEPT ![op.dir] = b] /\ IsDir(b)
      BY <1>1, <1>3, <2>1, CallShape
    <2> QED
      BY <2>1, <2>2, Zenon DEF Takes
  <1> QED
    BY <1>2, <1>3 DEF WriteMeta

(* The two outcomes of the patch: the origin of the block is in its meta.json, *)
(* or the meta.json that was there is replaced by one that does not parse.     *)
LEMMA PatchMetaDir ==
    ASSUME FilesInOrder, PatchMeta
    PROVE  \E b : /\ Takes(b)
                  /\ \/ /\ b.files = disk[op.dir].files
                        /\ b.meta.level = op.level /\ b.meta.sources = op.sources
                        /\ b.meta.min_time = disk[op.dir].meta.min_time
                        /\ b.meta.max_time = disk[op.dir].meta.max_time
                     \/ b.files = disk[op.dir].files \ {"meta.json"} /\ b.meta = NoMeta
  <1>1. op # Idle
    BY AtIsBusy DEF PatchMeta, Steps
  <1>2. CASE disk' = [disk EXCEPT ![op.dir].meta.level = op.level,
                                  ![op.dir].meta.sources = op.sources]
    <2>1. PICK b : b = [disk[op.dir] EXCEPT !.meta.level = op.level, !.meta.sources = op.sources]
      OBVIOUS
    <2>2. PICK m : m = [level |-> op.level, sources |-> op.sources,
                        min_time |-> disk[op.dir].meta.min_time,
                        max_time |-> disk[op.dir].meta.max_time]
      OBVIOUS
    <2>3. disk' = [disk EXCEPT ![op.dir] = b]
      BY <1>1, <1>2, <2>1, CallShape DEF IsDir
    <2>4. [disk[op.dir] EXCEPT !.meta.level = op.level, !.meta.sources = op.sources]
            = [files |-> disk[op.dir].files, chunks |-> disk[op.dir].chunks,
               index |-> disk[op.dir].index,
               meta |-> [level |-> op.level, sources |-> op.sources,
                         min_time |-> disk[op.dir].meta.min_time,
                         max_time |-> disk[op.dir].meta.max_time]]
      BY <1>1, CallShape, ExceptOrigin, Zenon
    <2>5. b = [files |-> disk[op.dir].files, chunks |-> disk[op.dir].chunks,
               index |-> disk[op.dir].index, meta |-> m]
      BY <2>1, <2>2, <2>4, Zenon
    <2>6. /\ IsMeta(m) /\ m.level = op.level /\ m.sources = op.sources
          /\ m.min_time = disk[op.dir].meta.min_time /\ m.max_time = disk[op.dir].meta.max_time
      BY <2>2 DEF IsMeta
    <2>7. /\ b.files = disk[op.dir].files /\ b.meta = m
          /\ IsDir(b) /\ b.chunks = disk[op.dir].chunks /\ b.index = disk[op.dir].index
      BY <2>5, <2>6 DEF IsDir
    <2> QED
      BY <2>3, <2>6, <2>7, Zenon DEF Takes
  <1>3. CASE disk' = [disk EXCEPT ![op.dir].files = @ \ {"meta.json"}, ![op.dir].meta = NoMeta]
    <2>1. PICK b : b = [disk[op.dir] EXCEPT !.files = @ \ {"meta.json"}, !.meta = NoMeta]
      OBVIOUS
    <2>2. disk' = [disk EXCEPT ![op.dir] = b]
      BY <1>1, <1>3, <2>1, CallShape DEF IsDir
    <2>3. b = [files |-> disk[op.dir].files \ {"meta.json"}, chunks |-> disk[op.dir].chunks,
               index |-> disk[op.dir].index, meta |-> NoMeta]
      BY <1>1, <2>1, CallShape, ExceptMeta, Zenon
    <2>4. IsMeta(NoMeta)
      BY DEF NoMeta, IsMeta
    <2>5. /\ b.files = disk[op.dir].files \ {"meta.json"} /\ b.meta = NoMeta
          /\ IsDir(b) /\ b.chunks = disk[op.dir].chunks /\ b.index = disk[op.dir].index
      BY <2>3, <2>4 DEF IsDir
    <2> QED
      BY <2>2, <2>5, Zenon DEF Takes
  <1> QED
    BY <1>2, <1>3 DEF PatchMeta

LEMMA WriteMetaFiles ==
    ASSUME FilesInOrder, WriteMeta
    PROVE  FilesInOrder'
  <1>1. op # Idle
    BY AtIsBusy DEF WriteMeta, Steps
  <1>2. /\ op.step = "meta" /\ UNCHANGED <<head, appended, created, given>>
        /\ op' = [op EXCEPT !.step = "tombstones"]
    BY DEF WriteMeta, At
  <1>3. PICK b : Takes(b) /\ disk[op.dir].files \subseteq b.files
    BY WriteMetaDir
  <1> QED
    BY <1>1, <1>2, <1>3, LaterFiles DEF Steps, Takes

LEMMA WriteTombstonesFiles ==
    ASSUME FilesInOrder, WriteTombstones
    PROVE  FilesInOrder'
  <1>1. op # Idle
    BY AtIsBusy DEF WriteTombstones, Steps
  <1> DEFINE b == [disk[op.dir] EXCEPT !.files = @ \cup {"tombstones"}]
  <1>2. /\ op.step = "tombstones" /\ UNCHANGED <<head, appended, created, given>>
        /\ op' = Idle \/ op' = [op EXCEPT !.step = "patch"]
    BY DEF WriteTombstones, At
  <1>3. disk' = [disk EXCEPT ![op.dir] = b]
    BY DEF WriteTombstones
  <1>4. /\ IsDir(b) /\ b.files = disk[op.dir].files \cup {"tombstones"}
        /\ b.chunks = disk[op.dir].chunks /\ b.index = disk[op.dir].index
    <2>1. b = [files |-> disk[op.dir].files \cup {"tombstones"}, chunks |-> disk[op.dir].chunks,
               index |-> disk[op.dir].index, meta |-> disk[op.dir].meta]
      BY <1>1, CallShape, ExceptFiles, Zenon
    <2>2. IsMeta(disk[op.dir].meta)
      BY <1>1, CallShape DEF IsDir
    <2> HIDE DEF b
    <2> QED
      BY <2>1, <2>2 DEF IsDir
  <1> HIDE DEF b
  <1> QED
    BY <1>1, <1>2, <1>3, <1>4, LaterFiles DEF Steps

LEMMA PatchMetaFiles ==
    ASSUME FilesInOrder, PatchMeta
    PROVE  FilesInOrder'
  <1>1. op # Idle
    BY AtIsBusy DEF PatchMeta, Steps
  <1>2. /\ op.step = "patch" /\ UNCHANGED <<head, appended, created, given>>
        /\ op' = [op EXCEPT !.step = "verify"]
    BY DEF PatchMeta, At
  <1>3. PICK b : Takes(b) /\ disk[op.dir].files \ {"meta.json"} \subseteq b.files
    BY PatchMetaDir
  <1> QED
    BY <1>1, <1>2, <1>3, LaterFiles DEF Steps, Takes

LEMMA DeleteFiles ==
    ASSUME FilesInOrder, NEW d, Delete(d)
    PROVE  FilesInOrder'
  <1>1. /\ op = Idle /\ UNCHANGED <<head, appended, created, op, given>>
        /\ disk' = [x \in DOMAIN disk \ {d} |-> disk[x]]
    BY DEF Delete
  <1>2. /\ DOMAIN disk' \subseteq DOMAIN disk
        /\ \A x \in DOMAIN disk' : disk'[x] = disk[x]
        /\ disk' = [x \in DOMAIN disk' |-> disk'[x]]
    BY <1>1
  <1>3. Directories'
    BY <1>1, <1>2 DEF FilesInOrder, Directories
  <1>4. IndexAfterChunks'
    BY <1>1, <1>2 DEF FilesInOrder, IndexAfterChunks, ChunksWritten
  <1> QED
    BY <1>1, <1>3, <1>4 DEF FilesInOrder, CallInStep

(* Steps that leave the files and the call alone, or end the call. *)
LEMMA OtherFiles ==
    ASSUME FilesInOrder, UNCHANGED <<created, disk, given>>,
           op' = Idle \/ UNCHANGED <<op, head>>
    PROVE  FilesInOrder'
  <1>1. Directories'
    BY DEF FilesInOrder, Directories
  <1>2. IndexAfterChunks'
    BY DEF FilesInOrder, IndexAfterChunks, ChunksWritten
  <1>3. CASE op' = Idle
    BY <1>1, <1>2, <1>3 DEF FilesInOrder, CallInStep
  <1>4. CASE UNCHANGED <<op, head>>
    <2>1. HeadSeries' = HeadSeries
      BY <1>4 DEF HeadSeries
    <2> QED
      BY <1>1, <1>2, <1>4, <2>1 DEF FilesInOrder, CallInStep, ChunksWritten
  <1> QED
    BY <1>3, <1>4

LEMMA FilesStayInOrder ==
    ASSUME FilesInOrder, [Next]_vars
    PROVE  FilesInOrder'
  <1>1. CASE \E l \in LabelSets, t \in Times : append(l, t)
    <2>1. UNCHANGED <<created, disk, given>> /\ op' = Idle
      BY <1>1 DEF append
    <2> QED
      BY <2>1, OtherFiles
  <1>2. CASE create_from_head
    BY <1>2, StartFiles DEF create_from_head
  <1>3. CASE \E n \in 1..MaxInputs : \E from \in [1..n -> Opened] : compact(from)
    <2>0. PICK n \in 1..MaxInputs : \E from \in [1..n -> Opened] : compact(from)
      BY <1>3
    <2>1. PICK from \in [1..n -> Opened] : compact(from)
      BY <2>0
    <2>2. from # <<>>
      BY <2>1
    <2> DEFINE series  == Merged(from)
               level   == 1 + Max({disk[from[i]].meta.level : i \in DOMAIN from})
               sources == UNION {disk[from[i]].meta.sources : i \in DOMAIN from}
    <2>3. Start(series, from, level, sources)
      BY <2>1 DEF compact
    <2> HIDE DEF series, level, sources
    <2> QED
      BY <2>2, <2>3, StartFiles
  <1>4. CASE WriteChunks
    BY <1>4, WriteChunksFiles
  <1>5. CASE WriteIndex
    BY <1>5, WriteIndexFiles
  <1>6. CASE WriteMeta
    BY <1>6, WriteMetaFiles
  <1>7. CASE WriteTombstones
    BY <1>7, WriteTombstonesFiles
  <1>8. CASE PatchMeta
    BY <1>8, PatchMetaFiles
  <1>9. CASE Interrupted
    BY <1>9, OtherFiles DEF Interrupted
  <1>10. CASE \E d \in superseded : Delete(d)
    BY <1>10, DeleteFiles
  <1>11. CASE UNCHANGED vars
    BY <1>11, OtherFiles DEF vars
  <1>12. CASE Verify
    BY <1>12, OtherFiles DEF Verify
  <1> QED
    BY <1>1, <1>2, <1>3, <1>4, <1>5, <1>6, <1>7, <1>8, <1>9, <1>10, <1>11, <1>12 DEF Next

(* What a call has done at each of its steps is on disk, and what it left     *)
(* behind when it ended early is a directory without index, or one whose      *)
(* index came after its chunks: the order of the writes of                    *)
(* Block::create_from_series and of Block::compact.                           *)
THEOREM FilesComeInOrder == Spec => []FilesInOrder
  <1>1. Init => FilesInOrder
    BY InitFiles
  <1>2. FilesInOrder /\ [Next]_vars => FilesInOrder'
    BY FilesStayInOrder
  <1> QED
    BY <1>1, <1>2, PTL DEF Spec

(* A block that Block::open accepts has every series it was created from and  *)
(* every chunk its index refers to, wherever an error or a crash ended the    *)
(* call that wrote it.                                                        *)
THEOREM OpenedIsComplete == Spec => []OpenableIsComplete
  <1>1. FilesInOrder => OpenableIsComplete
    BY DEF FilesInOrder, IndexAfterChunks, ChunksWritten, OpenableIsComplete, Opened, Openable
  <1> QED
    BY <1>1, FilesComeInOrder, PTL

-----------------------------------------------------------------------------
(* Head and block agree on every query.                                    *)

(* The posting lists of an index give the series that a matcher matches one   *)
(* by one.                                                                    *)
LEMMA PostingsMatch ==
    ASSUME NEW b, NEW m \in Matchers, NEW l \in Labels(b),
           \A x \in Labels(b) : DOMAIN x # {} /\ \A n \in DOMAIN x : x[n] # ""
    PROVE  l \in postings_for_matcher(b, m) <=> matches(m, get(l, m.name))
  <1>1. l \in all_postings(b)
    BY DEF all_postings
  <1>2. l \in postings_for_name(b, m.name) <=> m.name \in DOMAIN l
    BY DEF postings_for_name
  <1>3. \A v : l \in postings(b, m.name, v) <=> m.name \in DOMAIN l /\ l[m.name] = v
    BY DEF postings
  <1>4. m.name \in DOMAIN l => l[m.name] # ""
    OBVIOUS
  <1>5. CASE m \in [type : {"Eq", "Neq"}, name : Names, value : {{v} : v \in LabelValues \cup {""}}]
    <2>1. PICK v \in LabelValues \cup {""} : m.value = {v}
      BY <1>5
    <2>2. (CHOOSE x \in m.value : TRUE) = v
      BY <2>1
    <2>3. CASE m.type = "Eq"
      BY <1>1, <1>2, <1>3, <1>4, <2>1, <2>2, <2>3 DEF postings_for_matcher, matches, get
    <2>4. CASE m.type = "Neq"
      BY <1>1, <1>2, <1>3, <1>4, <2>1, <2>2, <2>4 DEF postings_for_matcher, matches, get
    <2> QED
      BY <1>5, <2>3, <2>4
  <1>6. CASE m \in [type : {"Re", "Nre"}, name : Names, value : SUBSET (LabelValues \cup {""})]
    <2>1. l \in regex_postings(b, m) <=> get(l, m.name) \in m.value
      <3>1. CASE m.name \in DOMAIN l
        <4>1. l[m.name] \in label_values(b, m.name)
          BY <1>2, <3>1 DEF label_values
        <4>2. l \in regex_postings(b, m)
                <=> \E v \in label_values(b, m.name) \cap m.value : l \in postings(b, m.name, v)
          BY <1>2, <3>1 DEF regex_postings
        <4>3. l \in regex_postings(b, m) <=> l[m.name] \in m.value
          BY <1>3, <3>1, <4>1, <4>2
        <4> QED
          BY <3>1, <4>3 DEF get
      <3>2. CASE m.name \notin DOMAIN l
        BY <1>1, <1>2, <1>3, <3>2 DEF regex_postings, get
      <3> QED
        BY <3>1, <3>2
    <2>2. CASE m.type = "Re"
      BY <2>1, <2>2 DEF postings_for_matcher, matches
    <2>3. CASE m.type = "Nre"
      BY <1>1, <2>1, <2>3 DEF postings_for_matcher, matches
    <2> QED
      BY <1>6, <2>2, <2>3
  <1> QED
    BY <1>5, <1>6 DEF Matchers

(* A block whose index is that of the head answers as the head does. *)
LEMMA SameSeriesSameAnswer ==
    ASSUME LabelledSeries, NEW b, b.index = HeadSeries, NEW ms \in Selectors, NEW mint, NEW maxt
    PROVE  block_select(b, ms, mint, maxt) = head_select(ms, mint, maxt)
  <1>1. \A i \in DOMAIN ms : ms[i] \in Matchers
    BY SelectorsAreMatchers
  <1>2. \A s \in HeadSeries : s.labels \in Labels(b)
    BY DEF Labels
  <1>3. \A l \in Labels(b) : l \in LabelSets
    BY DEF Labels, HeadSeries
  <1>4. \A l \in Labels(b) : DOMAIN l # {} /\ \A n \in DOMAIN l : l[n] # ""
    BY <1>3 DEF LabelledSeries
  <1>5. \A s \in HeadSeries :
          (\A i \in DOMAIN ms : s.labels \in postings_for_matcher(b, ms[i]))
            <=> labels_match_all(s.labels, ms)
    BY <1>1, <1>2, <1>4, PostingsMatch DEF labels_match_all
  <1>6. {s \in b.index : \A i \in DOMAIN ms : s.labels \in postings_for_matcher(b, ms[i])}
          = {s \in HeadSeries : labels_match_all(s.labels, ms)}
    BY <1>5
  <1> QED
    BY <1>6 DEF block_select, head_select

(* Once the index of the block that Block::create_from_head writes is there,  *)
(* Block::select over its posting lists and the scan of Head::select return   *)
(* the same for every matcher and time range, whatever the labels are, as     *)
(* long as every series has one and none is empty.                            *)
THEOREM BlockAnswersAsHead ==
    ASSUME LabelledSeries
    PROVE  Spec => []SelectAgrees
  <1>1. FilesInOrder => SelectAgrees
    <2> SUFFICES ASSUME FilesInOrder, op # Idle, At("tombstones"), op.from = <<>>
                 PROVE  disk[op.dir].index = HeadSeries
      BY SameSeriesSameAnswer DEF SelectAgrees
    <2>1. /\ op.dir \in DOMAIN disk /\ "index" \in disk[op.dir].files
          /\ op.series = given[op.dir] /\ op.series = HeadSeries
      BY DEF FilesInOrder, CallInStep, At
    <2> QED
      BY <2>1 DEF FilesInOrder, IndexAfterChunks
  <1> QED
    BY <1>1, FilesComeInOrder, PTL

-----------------------------------------------------------------------------
(* Sequences one behind the other.                                         *)

(* What FlattenSeq computes, step by step. *)
LEMMA FlattenSteps ==
    ASSUME NEW S, NEW ss \in Seq(Seq(S))
    PROVE  \E n \in Nat : n = Len(ss) /\ \E g \in [0..n -> Seq(S)] :
             g[0] = <<>> /\ (\A i \in 1..n : g[i] = g[i - 1] \o ss[i]) /\ FlattenSeq(ss) = g[n]
  <1>0. PICK n \in Nat : n = Len(ss)
    BY LenProperties
  <1> DEFINE G == Seq(S)
             st == [i \in 1..n |-> [x \in G |-> x \o ss[i]]]
  <1>1. \A i \in 1..n : ss[i] \in G
    BY <1>0, ElementOfSeq
  <1>2. \A x, y \in G : x \o y \in G
    BY ConcatProperties
  <1>25. <<>> \in G
    OBVIOUS
  <1>3. PICK e \in G : e = <<>>
    BY <1>25, Zenon
  <1>4. st \in Stepping(G, n)
    <2> USE DEF Stepping
    <2> SUFFICES ASSUME NEW i \in 1..n, NEW x \in G
                 PROVE  x \o ss[i] \in G
      OBVIOUS
    <2> QED
      BY <1>1, <1>2, Zenon
  <1>5. \A i \in 1..n : \A x \in G : st[i][x] = x \o ss[i]
    BY Zenon
  <1> HIDE DEF G, st
  <1>6. PICK g \in [0..n -> G] : g[0] = e /\ \A i \in 1..n : g[i] = st[i][g[i - 1]]
    <2>1. \E g : StepsFrom(g, G, e, n, st)
      BY <1>4, Recursion, Zenon
    <2> QED
      BY <2>1, Zenon DEF StepsFrom
  <1>7. \A i \in 1..n : g[i] = g[i - 1] \o ss[i]
    <2> SUFFICES ASSUME NEW i \in 1..n
                 PROVE  g[i] = g[i - 1] \o ss[i]
      OBVIOUS
    <2>1. g[i - 1] \in G
      OBVIOUS
    <2> QED
      BY <1>5, <1>6, <2>1, Zenon
  <1>8. CASE n = 0
    <2>1. ss = <<>> /\ FlattenSeq(ss) = ss
      BY <1>0, <1>8, EmptySeq DEF FlattenSeq
    <2> QED
      BY <1>0, <1>3, <1>6, <1>7, <1>8, <2>1, Zenon DEF G
  <1>9. CASE n # 0
    <2> DEFINE Is(f) == f = [i \in 1..n |-> IF i = 1 THEN ss[i] ELSE f[i - 1] \o ss[i]]
               F == CHOOSE f : Is(f)
               h == [i \in 1..n |-> g[i]]
    <2>0. 1 \in 1..n /\ 1 - 1 = 0 /\ n \in 1..n
      BY <1>9
    <2>1. g[1] = ss[1]
      <3>1. g[1] = <<>> \o ss[1] /\ ss[1] \in G
        BY <1>1, <1>3, <1>6, <1>7, <2>0, Zenon
      <3> QED
        BY <3>1, ConcatEmptySeq DEF G
    <2>2. Is(h)
      <3>1. ASSUME NEW i \in 1..n
            PROVE  g[i] = IF i = 1 THEN ss[i] ELSE h[i - 1] \o ss[i]
        <4>1. CASE i = 1
          BY <2>1, <4>1, Zenon
        <4>2. CASE i # 1
          <5>1. i - 1 \in 1..n
            BY <4>2
          <5>2. h[i - 1] = g[i - 1]
            BY <5>1, Zenon
          <5> QED
            BY <1>7, <4>2, <5>2, Zenon
        <4> QED
          BY <4>1, <4>2
      <3> QED
        BY <3>1, Zenon
    <2>3. FlattenSeq(ss) = F[n]
      BY <1>0, <1>9 DEF FlattenSeq
    <2> HIDE DEF h, Is
    <2>4. Is(F)
      BY <2>2, Zenon
    <2> HIDE DEF F
    <2>5. \A i \in 1..n : F[i] = IF i = 1 THEN ss[i] ELSE F[i - 1] \o ss[i]
      BY <2>4, Zenon DEF Is
    <2> DEFINE T == {i \in 0..n : i # 0 => F[i] = g[i]}
    <2>6. 0 \in T
      OBVIOUS
    <2>7. ASSUME NEW i \in 1..n, i - 1 \in T
          PROVE  i \in T
      <3>1. CASE i = 1
        <4>1. F[i] = g[i]
          BY <2>1, <2>5, <3>1, Zenon
        <4> QED
          BY <4>1
      <3>2. CASE i # 1
        <4>1. F[i - 1] = g[i - 1]
          BY <2>7, <3>2
        <4>2. F[i] = g[i]
          BY <1>7, <2>5, <3>2, <4>1, Zenon
        <4> QED
          BY <4>2
      <3> QED
        BY <3>1, <3>2
    <2> HIDE DEF T
    <2>8. 0..n \subseteq T
      BY <2>6, <2>7, UpTo
    <2>9. F[n] = g[n]
      <3>1. n \in T
        BY <2>8
      <3> QED
        BY <1>9, <3>1 DEF T
    <2> QED
      BY <1>0, <1>3, <1>6, <1>7, <2>3, <2>9, Zenon DEF G
  <1> QED
    BY <1>8, <1>9

LEMMA FlattenEmpty == FlattenSeq(<<>>) = <<>>
  BY DEF FlattenSeq

LEMMA FlattenType ==
    ASSUME NEW S, NEW ss \in Seq(Seq(S))
    PROVE  FlattenSeq(ss) \in Seq(S)
  <1>1. PICK n \in Nat : n = Len(ss) /\ \E g \in [0..n -> Seq(S)] :
          g[0] = <<>> /\ (\A i \in 1..n : g[i] = g[i - 1] \o ss[i]) /\ FlattenSeq(ss) = g[n]
    BY FlattenSteps
  <1>2. PICK g \in [0..n -> Seq(S)] : FlattenSeq(ss) = g[n]
    BY <1>1, Zenon
  <1>3. g[n] \in Seq(S)
    OBVIOUS
  <1> QED
    BY <1>2, <1>3, Zenon

LEMMA FlattenAppend ==
    ASSUME NEW S, NEW ss \in Seq(Seq(S)), NEW s \in Seq(S)
    PROVE  FlattenSeq(Append(ss, s)) = FlattenSeq(ss) \o s
  <1> DEFINE tt == Append(ss, s)
  <1>1. PICK n \in Nat : n = Len(ss)
    BY LenProperties
  <1>2. /\ tt \in Seq(Seq(S)) /\ Len(tt) = n + 1 /\ tt[n + 1] = s
        /\ \A i \in 1..n : tt[i] = ss[i]
    BY <1>1, AppendProperties
  <1> HIDE DEF tt
  <1>3. PICK f \in [0..n -> Seq(S)] :
          f[0] = <<>> /\ (\A i \in 1..n : f[i] = f[i - 1] \o ss[i]) /\ FlattenSeq(ss) = f[n]
    <2>1. PICK m \in Nat : m = Len(ss) /\ \E g \in [0..m -> Seq(S)] :
            g[0] = <<>> /\ (\A i \in 1..m : g[i] = g[i - 1] \o ss[i]) /\ FlattenSeq(ss) = g[m]
      BY FlattenSteps
    <2>2. m = n
      BY <1>1, <2>1, Zenon
    <2> QED
      BY <2>1, <2>2, Zenon
  <1>4. PICK m \in Nat : m = n + 1
    OBVIOUS
  <1>5. PICK g \in [0..m -> Seq(S)] :
          g[0] = <<>> /\ (\A i \in 1..m : g[i] = g[i - 1] \o tt[i]) /\ FlattenSeq(tt) = g[m]
    <2>1. PICK k \in Nat : k = Len(tt) /\ \E g \in [0..k -> Seq(S)] :
            g[0] = <<>> /\ (\A i \in 1..k : g[i] = g[i - 1] \o tt[i]) /\ FlattenSeq(tt) = g[k]
      BY <1>2, FlattenSteps, ZenonT(30)
    <2>2. k = m
      BY <1>2, <1>4, <2>1, Zenon
    <2> QED
      BY <2>1, <2>2, Zenon
  <1>6. SameSteps(f, g, n)
    <2>1. f[0] = g[0]
      BY <1>3, <1>5, Zenon
    <2>2. ASSUME NEW i \in 1..n, f[i - 1] = g[i - 1]
          PROVE  f[i] = g[i]
      <3>1. i \in 1..m
        BY <1>4
      <3> QED
        BY <1>2, <1>3, <1>5, <2>2, <3>1, Zenon
    <2> QED
      BY <2>1, <2>2, Zenon DEF SameSteps
  <1>8. f[n] = g[n]
    BY <1>6, SameRecursion, Zenon
  <1>9. g[m] = g[n] \o s
    <2>1. m \in 1..m /\ m - 1 = n
      BY <1>4
    <2> QED
      BY <1>2, <1>4, <1>5, <2>1, Zenon
  <1> QED
    BY <1>3, <1>5, <1>8, <1>9, Zenon DEF tt


(* Induction over sequences, again over a set. *)
LEMMA SeqInduction ==
    ASSUME NEW S, NEW P, <<>> \in P,
           \A s \in Seq(S) : \A x \in S : s \in P => Append(s, x) \in P
    PROVE  Seq(S) \subseteq P
  <1> DEFINE T == {n \in Nat : \A s \in Seq(S) : Len(s) = n => s \in P}
  <1>1. 0 \in T
    BY EmptySeq
  <1>2. ASSUME NEW n \in Nat, n \in T
        PROVE  n + 1 \in T
    <2> SUFFICES ASSUME NEW s \in Seq(S), Len(s) = n + 1
                 PROVE  s \in P
      OBVIOUS
    <2>1. s # <<>>
      BY EmptySeq
    <2>2. PICK q \in Seq(S), x \in S : s = Append(q, x)
      BY <2>1, SequenceEmptyOrAppend
    <2>3. Len(s) = Len(q) + 1 /\ Len(q) \in Nat
      BY <2>2, AppendProperties
    <2>4. Len(q) = n
      BY <2>3
    <2> QED
      BY <1>2, <2>2, <2>4
  <1> HIDE DEF T
  <1>3. Nat \subseteq T
    BY <1>1, <1>2, SetInduction
  <1>4. \A s \in Seq(S) : Len(s) \in Nat
    BY LenProperties
  <1> QED
    BY <1>3, <1>4 DEF T

(* The places of a sequence that is two others one behind the other. *)
Joined(w, a, b, m, n) ==
    /\ m \in Nat /\ n \in Nat
    /\ DOMAIN a = 1..m /\ DOMAIN b = 1..n /\ DOMAIN w = 1..m + n
    /\ \A i \in 1..m : w[i] = a[i]
    /\ \A i \in 1..n : w[m + i] = b[i]

LEMMA ConcatJoined ==
    ASSUME NEW S, NEW a \in Seq(S), NEW b \in Seq(S), NEW w, w = a \o b
    PROVE  w \in Seq(S) /\ Joined(w, a, b, Len(a), Len(b))
  <1>1. /\ w \in Seq(S) /\ Len(w) = Len(a) + Len(b)
        /\ \A i \in 1..Len(w) : w[i] = IF i <= Len(a) THEN a[i] ELSE b[i - Len(a)]
    BY ConcatProperties
  <1>2. /\ Len(a) \in Nat /\ Len(b) \in Nat
        /\ DOMAIN a = 1..Len(a) /\ DOMAIN b = 1..Len(b) /\ DOMAIN w = 1..Len(w)
    BY <1>1, LenProperties
  <1>3. PICK m \in Nat : m = Len(a)
    BY <1>2, Zenon
  <1>4. PICK n \in Nat : n = Len(b)
    BY <1>2, Zenon
  <1>5. \A i \in 1..m : w[i] = a[i]
    <2> SUFFICES ASSUME NEW i \in 1..m
                 PROVE  w[i] = a[i]
      OBVIOUS
    <2>1. i \in 1..m + n /\ i <= m
      OBVIOUS
    <2> QED
      BY <1>1, <1>3, <1>4, <2>1, Zenon
  <1>6. \A i \in 1..n : w[m + i] = b[i]
    <2> SUFFICES ASSUME NEW i \in 1..n
                 PROVE  w[m + i] = b[i]
      OBVIOUS
    <2>1. m + i \in 1..m + n /\ ~(m + i <= m) /\ (m + i) - m = i
      OBVIOUS
    <2> QED
      BY <1>1, <1>3, <1>4, <2>1, Zenon
  <1> QED
    BY <1>1, <1>2, <1>3, <1>4, <1>5, <1>6, Zenon DEF Joined

(* A sequence with one more element. *)
LEMMA AppendJoined ==
    ASSUME NEW S, NEW a \in Seq(S), NEW x \in S, NEW w, w = Append(a, x)
    PROVE  w \in Seq(S) /\ Joined(w, a, <<x>>, Len(a), 1)
  <1>1. /\ w \in Seq(S) /\ Len(w) = Len(a) + 1 /\ w[Len(a) + 1] = x
        /\ \A i \in 1..Len(a) : w[i] = a[i]
    BY AppendProperties
  <1>2. /\ Len(a) \in Nat /\ DOMAIN a = 1..Len(a) /\ DOMAIN w = 1..Len(w)
    BY <1>1, LenProperties
  <1>3. DOMAIN <<x>> = 1..1 /\ <<x>>[1] = x
    OBVIOUS
  <1>4. \A i \in 1..1 : w[Len(a) + i] = <<x>>[i]
    <2>1. \A i \in 1..1 : i = 1
      OBVIOUS
    <2> QED
      BY <1>1, <1>3, <2>1, Zenon
  <1>5. 1 \in Nat
    OBVIOUS
  <1> QED
    BY <1>1, <1>2, <1>3, <1>4, <1>5, Zenon DEF Joined

LEMMA JoinedSet ==
    ASSUME NEW w, NEW a, NEW b, NEW m, NEW n, Joined(w, a, b, m, n)
    PROVE  ToSet(w) = ToSet(a) \cup ToSet(b)
  <1>1. \A i \in 1..m + n : i \in 1..m \/ \E j \in 1..n : i = m + j
    <2> SUFFICES ASSUME NEW i \in 1..m + n, i \notin 1..m
                 PROVE  i - m \in 1..n /\ i = m + (i - m)
      OBVIOUS
    <2> QED
      BY DEF Joined
  <1>2. \A i \in 1..m : i \in 1..m + n
    BY DEF Joined
  <1>3. \A i \in 1..n : m + i \in 1..m + n
    BY DEF Joined
  <1>4. ASSUME NEW x \in ToSet(w)
        PROVE  x \in ToSet(a) \cup ToSet(b)
    <2>1. PICK i \in 1..m + n : x = w[i]
      BY Zenon DEF Joined, ToSet
    <2>2. CASE i \in 1..m
      BY <2>1, <2>2, Zenon DEF Joined, ToSet
    <2>3. CASE i \notin 1..m
      <3>1. PICK j \in 1..n : i = m + j
        BY <1>1, <2>3, Zenon
      <3> QED
        BY <2>1, <3>1, Zenon DEF Joined, ToSet
    <2> QED
      BY <2>2, <2>3, Zenon
  <1>5. ASSUME NEW x \in ToSet(a)
        PROVE  x \in ToSet(w)
    <2>1. PICK i \in 1..m : x = a[i]
      BY Zenon DEF Joined, ToSet
    <2> QED
      BY <1>2, <2>1, Zenon DEF Joined, ToSet
  <1>6. ASSUME NEW x \in ToSet(b)
        PROVE  x \in ToSet(w)
    <2>1. PICK i \in 1..n : x = b[i]
      BY Zenon DEF Joined, ToSet
    <2> QED
      BY <1>3, <2>1, Zenon DEF Joined, ToSet
  <1> QED
    BY <1>4, <1>5, <1>6, Zenon

(* s has a sample with timestamp t; x is the last one with its timestamp. *)
Has(s, t) == \E i \in DOMAIN s : s[i].t = t

LastOf(s, x) == \E i \in DOMAIN s : s[i] = x /\ \A j \in DOMAIN s : i < j => s[j].t # x.t

LEMMA JoinedHas ==
    ASSUME NEW w, NEW a, NEW b, NEW m, NEW n, Joined(w, a, b, m, n), NEW t
    PROVE  Has(w, t) <=> Has(a, t) \/ Has(b, t)
  <1>1. \A s : Has(s, t) <=> \E x \in ToSet(s) : x.t = t
    BY DEF Has, ToSet
  <1>2. ToSet(w) = ToSet(a) \cup ToSet(b)
    BY JoinedSet
  <1> QED
    BY <1>1, <1>2, Zenon

LEMMA JoinedLast ==
    ASSUME NEW w, NEW a, NEW b, NEW m, NEW n, Joined(w, a, b, m, n), NEW x
    PROVE  LastOf(w, x) <=> LastOf(b, x) \/ (LastOf(a, x) /\ ~Has(b, x.t))
  <1> USE DEF Joined
  <1>1. ASSUME LastOf(b, x)
        PROVE  LastOf(w, x)
    <2>1. PICK i \in 1..n : b[i] = x /\ \A j \in 1..n : i < j => b[j].t # x.t
      BY <1>1 DEF LastOf
    <2>2. ASSUME NEW j \in 1..m + n, m + i < j
          PROVE  w[j].t # x.t
      <3>1. j - m \in 1..n /\ j = m + (j - m) /\ i < j - m
        BY <2>2
      <3> QED
        BY <2>1, <3>1
    <2>3. m + i \in 1..m + n /\ w[m + i] = x
      BY <2>1
    <2> QED
      BY <2>2, <2>3 DEF LastOf
  <1>2. ASSUME LastOf(a, x), ~Has(b, x.t)
        PROVE  LastOf(w, x)
    <2>1. PICK i \in 1..m : a[i] = x /\ \A j \in 1..m : i < j => a[j].t # x.t
      BY <1>2 DEF LastOf
    <2>2. ASSUME NEW j \in 1..m + n, i < j
          PROVE  w[j].t # x.t
      <3>1. CASE j \in 1..m
        BY <2>1, <2>2, <3>1
      <3>2. CASE j \notin 1..m
        <4>1. j - m \in 1..n /\ j = m + (j - m)
          BY <3>2
        <4>2. b[j - m].t # x.t /\ w[j] = b[j - m]
          BY <1>2, <4>1 DEF Has
        <4> QED
          BY <4>2
      <3> QED
        BY <3>1, <3>2
    <2>3. i \in 1..m + n /\ w[i] = x
      BY <2>1
    <2> QED
      BY <2>2, <2>3 DEF LastOf
  <1>3. ASSUME LastOf(w, x)
        PROVE  LastOf(b, x) \/ (LastOf(a, x) /\ ~Has(b, x.t))
    <2>1. PICK i \in 1..m + n : w[i] = x /\ \A j \in 1..m + n : i < j => w[j].t # x.t
      BY <1>3 DEF LastOf
    <2>2. CASE i \in 1..m
      <3>1. ASSUME NEW j \in 1..m, i < j
            PROVE  a[j].t # x.t
        BY <2>1, <3>1
      <3>2. ASSUME NEW j \in 1..n
            PROVE  b[j].t # x.t
        <4>1. m + j \in 1..m + n /\ i < m + j /\ w[m + j] = b[j]
          BY <2>2
        <4> QED
          BY <2>1, <4>1
      <3>3. a[i] = x
        BY <2>1, <2>2
      <3> QED
        BY <2>2, <3>1, <3>2, <3>3 DEF LastOf, Has
    <2>3. CASE i \notin 1..m
      <3>1. i - m \in 1..n /\ i = m + (i - m)
        BY <2>3
      <3>2. b[i - m] = x
        BY <2>1, <3>1
      <3>3. ASSUME NEW j \in 1..n, i - m < j
            PROVE  b[j].t # x.t
        <4>1. m + j \in 1..m + n /\ i < m + j /\ w[m + j] = b[j]
          BY <3>1, <3>3
        <4> QED
          BY <2>1, <4>1
      <3> QED
        BY <3>1, <3>2, <3>3 DEF LastOf
    <2> QED
      BY <2>2, <2>3
  <1> QED
    BY <1>1, <1>2, <1>3

-----------------------------------------------------------------------------
(* Induction over the sequences that FlattenSeq puts one behind the other: *)
(* P[i] holds what is true of the first i of them.                         *)

Stretches(P, S, ss) ==
    /\ <<>> \in P[0]
    /\ \A i \in 1..Len(ss) : \A a, w \in Seq(S) :
         a \in P[i - 1] /\ Joined(w, a, ss[i], Len(a), Len(ss[i])) => w \in P[i]

LEMMA FlattenInduction ==
    ASSUME NEW S, NEW ss \in Seq(Seq(S)), NEW P, Stretches(P, S, ss)
    PROVE  FlattenSeq(ss) \in P[Len(ss)]
  <1>1. PICK n \in Nat : n = Len(ss) /\ \E g \in [0..n -> Seq(S)] :
          g[0] = <<>> /\ (\A i \in 1..n : g[i] = g[i - 1] \o ss[i]) /\ FlattenSeq(ss) = g[n]
    BY FlattenSteps
  <1>2. PICK g \in [0..n -> Seq(S)] :
          g[0] = <<>> /\ (\A i \in 1..n : g[i] = g[i - 1] \o ss[i]) /\ FlattenSeq(ss) = g[n]
    BY <1>1, Zenon
  <1>3. \A i \in 1..n : ss[i] \in Seq(S)
    BY <1>1, ElementOfSeq, Zenon
  <1>4. \A i \in 1..n : Joined(g[i], g[i - 1], ss[i], Len(g[i - 1]), Len(ss[i]))
    <2> SUFFICES ASSUME NEW i \in 1..n
                 PROVE  Joined(g[i], g[i - 1], ss[i], Len(g[i - 1]), Len(ss[i]))
      OBVIOUS
    <2>1. i - 1 \in 0..n
      OBVIOUS
    <2>2. g[i - 1] \in Seq(S) /\ ss[i] \in Seq(S) /\ g[i] = g[i - 1] \o ss[i]
      BY <1>2, <1>3, <2>1, Zenon
    <2> QED
      BY <2>2, ConcatJoined, Zenon
  <1> DEFINE T == {i \in 0..n : g[i] \in P[i]}
  <1>5. 0 \in T
    <2>1. 0 \in 0..n
      OBVIOUS
    <2> QED
      BY <1>2, <2>1, Zenon DEF Stretches
  <1>6. ASSUME NEW i \in 1..n, i - 1 \in T
        PROVE  i \in T
    <2>1. i \in 0..n /\ i - 1 \in 0..n
      OBVIOUS
    <2>2. g[i - 1] \in P[i - 1]
      BY <1>6, Zenon
    <2>3. g[i] \in Seq(S) /\ g[i - 1] \in Seq(S)
      BY <2>1, Zenon
    <2>4. g[i] \in P[i]
      BY <1>1, <1>4, <2>2, <2>3, Zenon DEF Stretches
    <2> QED
      BY <2>1, <2>4, Zenon
  <1> HIDE DEF T
  <1>7. 0..n \subseteq T
    BY <1>5, <1>6, UpTo
  <1>8. n \in T
    BY <1>7
  <1> QED
    BY <1>1, <1>2, <1>8, Zenon DEF T

LEMMA FlattenedSet ==
    ASSUME NEW S, NEW ss \in Seq(Seq(S))
    PROVE  ToSet(FlattenSeq(ss)) = UNION {ToSet(ss[i]) : i \in DOMAIN ss}
  <1>1. PICK n \in Nat : n = Len(ss) /\ DOMAIN ss = 1..n
    BY LenProperties
  <1>2. PICK P : \A i \in 0..n : P[i] = {w \in Seq(S) : ToSet(w) = UNION {ToSet(ss[j]) : j \in 1..i}}
    <2> WITNESS [i \in 0..n |-> {w \in Seq(S) : ToSet(w) = UNION {ToSet(ss[j]) : j \in 1..i}}]
    <2> QED
      BY Zenon
  <1>3. <<>> \in P[0]
    <2>1. 0 \in 0..n /\ 1..0 = {} /\ <<>> \in Seq(S) /\ ToSet(<<>>) = {}
      BY DEF ToSet
    <2>2. UNION {ToSet(ss[j]) : j \in 1..0} = {}
      BY <2>1, Zenon
    <2> QED
      BY <1>2, <2>1, <2>2, Zenon
  <1>4. ASSUME NEW i \in 1..n, NEW a \in Seq(S), NEW w \in Seq(S), a \in P[i - 1],
               Joined(w, a, ss[i], Len(a), Len(ss[i]))
        PROVE  w \in P[i]
    <2>1. i - 1 \in 0..n /\ i \in 0..n /\ 1..i = (1..i - 1) \cup {i}
      OBVIOUS
    <2>2. ToSet(a) = UNION {ToSet(ss[j]) : j \in 1..i - 1}
      BY <1>2, <1>4, <2>1, Zenon
    <2>3. ToSet(w) = ToSet(a) \cup ToSet(ss[i])
      BY <1>4, JoinedSet, SMTT(30)
    <2>4. PICK I : I = 1..i - 1
      OBVIOUS
    <2>5. UNION {ToSet(ss[j]) : j \in I \cup {i}} = (UNION {ToSet(ss[j]) : j \in I}) \cup ToSet(ss[i])
      BY Zenon
    <2>6. ToSet(w) = UNION {ToSet(ss[j]) : j \in 1..i}
      BY <2>1, <2>2, <2>3, <2>4, <2>5, Zenon
    <2> QED
      BY <1>2, <2>1, <2>6, Zenon
  <1>5. Stretches(P, S, ss)
    BY <1>1, <1>3, <1>4, Zenon DEF Stretches
  <1>6. FlattenSeq(ss) \in P[n]
    BY <1>1, <1>5, FlattenInduction, Zenon
  <1>7. n \in 0..n
    OBVIOUS
  <1> QED
    BY <1>1, <1>2, <1>6, <1>7, Zenon

LEMMA FlattenHas ==
    ASSUME NEW S, NEW ss \in Seq(Seq(S)), NEW t
    PROVE  Has(FlattenSeq(ss), t) <=> \E i \in DOMAIN ss : Has(ss[i], t)
  <1>1. \A s : Has(s, t) <=> \E x \in ToSet(s) : x.t = t
    BY DEF Has, ToSet
  <1>2. ToSet(FlattenSeq(ss)) = UNION {ToSet(ss[i]) : i \in DOMAIN ss}
    BY FlattenedSet, Zenon
  <1>3. (\E x \in ToSet(FlattenSeq(ss)) : x.t = t)
          <=> \E i \in DOMAIN ss : \E x \in ToSet(ss[i]) : x.t = t
    BY <1>2, Zenon
  <1> QED
    BY <1>1, <1>3, Zenon

(* x is the last with its timestamp in the last sequence that has one. *)
LastAmong(ss, n, x) ==
    \E i \in 1..n : LastOf(ss[i], x) /\ \A j \in 1..n : i < j => ~Has(ss[j], x.t)

LEMMA FlattenLast ==
    ASSUME NEW S, NEW ss \in Seq(Seq(S)), NEW x
    PROVE  LastOf(FlattenSeq(ss), x) <=> LastAmong(ss, Len(ss), x)
  <1>1. PICK n \in Nat : n = Len(ss)
    BY LenProperties
  <1>2. PICK P : \A i \in 0..n : P[i] = {w \in Seq(S) : LastOf(w, x) <=> LastAmong(ss, i, x)}
    <2> WITNESS [i \in 0..n |-> {w \in Seq(S) : LastOf(w, x) <=> LastAmong(ss, i, x)}]
    <2> QED
      BY Zenon
  <1>3. <<>> \in P[0]
    <2>1. 0 \in 0..n /\ 1..0 = {} /\ <<>> \in Seq(S) /\ DOMAIN <<>> = {}
      OBVIOUS
    <2>2. ~LastOf(<<>>, x) /\ ~LastAmong(ss, 0, x)
      BY <2>1, Zenon DEF LastOf, LastAmong
    <2> QED
      BY <1>2, <2>1, <2>2, Zenon
  <1>4. ASSUME NEW i \in 1..n, NEW a \in Seq(S), NEW w \in Seq(S), a \in P[i - 1],
               Joined(w, a, ss[i], Len(a), Len(ss[i]))
        PROVE  w \in P[i]
    <2>1. i - 1 \in 0..n /\ i \in 0..n /\ i \in 1..i
      OBVIOUS
    <2>2. LastOf(a, x) <=> LastAmong(ss, i - 1, x)
      BY <1>2, <1>4, <2>1, Zenon
    <2>3. LastOf(w, x) <=> LastOf(ss[i], x) \/ (LastOf(a, x) /\ ~Has(ss[i], x.t))
      BY <1>4, JoinedLast, Zenon
    <2>4. LastAmong(ss, i, x) <=> LastOf(ss[i], x) \/ (LastAmong(ss, i - 1, x) /\ ~Has(ss[i], x.t))
      <3>1. \A j \in 1..i - 1 : j \in 1..i /\ j < i
        OBVIOUS
      <3>2. \A j \in 1..i : j = i \/ j \in 1..i - 1
        OBVIOUS
      <3>3. \A j \in 1..i : ~(i < j)
        OBVIOUS
      <3>4. LastOf(ss[i], x) => LastAmong(ss, i, x)
        BY <2>1, <3>3, Zenon DEF LastAmong
      <3>5. LastAmong(ss, i - 1, x) /\ ~Has(ss[i], x.t) => LastAmong(ss, i, x)
        BY <3>1, <3>2, Zenon DEF LastAmong
      <3>6. LastAmong(ss, i, x) => LastOf(ss[i], x) \/ (LastAmong(ss, i - 1, x) /\ ~Has(ss[i], x.t))
        BY <2>1, <3>1, <3>2, Zenon DEF LastAmong
      <3> QED
        BY <3>4, <3>5, <3>6, Zenon
    <2> QED
      BY <1>2, <2>1, <2>2, <2>3, <2>4, Zenon
  <1>5. Stretches(P, S, ss)
    BY <1>1, <1>3, <1>4, Zenon DEF Stretches
  <1>6. FlattenSeq(ss) \in P[n]
    BY <1>1, <1>5, FlattenInduction, Zenon
  <1>7. n \in 0..n
    OBVIOUS
  <1> QED
    BY <1>1, <1>2, <1>6, <1>7, Zenon

-----------------------------------------------------------------------------
(* Picked: r is what s has at the positions in I, in order.                *)

Rising(e, n) == \A i, j \in 1..n : i < j => e[i] < e[j]

(* The k-th element of r is that of s at position e[k]. *)
PicksBy(r, s, I, e, n) ==
    /\ n \in Nat /\ DOMAIN r = 1..n
    /\ e \in [1..n -> I] /\ Rising(e, n)
    /\ \A i \in I : \E k \in 1..n : e[k] = i
    /\ \A k \in 1..n : r[k] = s[e[k]]

Picks(r, s, I) == \E n \in Nat : \E e : PicksBy(r, s, I, e, n)

LEMMA PickNone ==
    ASSUME NEW s
    PROVE  Picks(<<>>, s, {})
  <1> DEFINE e == [k \in 1..0 |-> 0]
  <1>1. 1..0 = {} /\ 0 \in Nat /\ DOMAIN <<>> = 1..0 /\ e \in [1..0 -> {}]
    OBVIOUS
  <1>2. PicksBy(<<>>, s, {}, e, 0)
    BY <1>1, Zenon DEF PicksBy, Rising
  <1> QED
    BY <1>1, <1>2, Zenon DEF Picks

LEMMA PickOneMore ==
    ASSUME NEW S, NEW r \in Seq(S), NEW s, NEW I \in SUBSET Nat, NEW i \in Nat,
           Picks(r, s, I), \A j \in I : j < i, s[i] \in S, NEW w, w = Append(r, s[i])
    PROVE  Picks(w, s, I \cup {i})
  <1>1. PICK n \in Nat : \E e : PicksBy(r, s, I, e, n)
    BY DEF Picks
  <1>2. PICK e : PicksBy(r, s, I, e, n)
    BY <1>1
  <1>3. Len(r) = n
    BY <1>2, LenProperties DEF PicksBy
  <1>4. /\ w \in Seq(S) /\ Len(w) = n + 1 /\ w[n + 1] = s[i]
        /\ \A k \in 1..n : w[k] = r[k]
    BY <1>3, AppendProperties
  <1>5. DOMAIN w = 1..n + 1
    BY <1>4, LenProperties
  <1> DEFINE f == [k \in 1..n + 1 |-> IF k = n + 1 THEN i ELSE e[k]]
  <1>6. e \in [1..n -> I] /\ n + 1 \in 1..n + 1 /\ \A k \in 1..n + 1 : k = n + 1 \/ k \in 1..n
    BY <1>2 DEF PicksBy
  <1>7. f[n + 1] = i /\ \A k \in 1..n : f[k] = e[k] /\ k \in 1..n + 1
    OBVIOUS
  <1>8. f \in [1..n + 1 -> I \cup {i}]
    BY <1>6
  <1> HIDE DEF f
  <1>9. Rising(f, n + 1)
    <2> SUFFICES ASSUME NEW j \in 1..n + 1, NEW k \in 1..n + 1, j < k
                 PROVE  f[j] < f[k]
      BY DEF Rising
    <2>1. j \in 1..n /\ f[j] = e[j] /\ e[j] \in I
      BY <1>6, <1>7
    <2>2. CASE k = n + 1
      BY <1>7, <2>1, <2>2
    <2>3. CASE k \in 1..n
      <3>1. e[j] < e[k]
        BY <1>2, <2>1, <2>3 DEF PicksBy, Rising
      <3> QED
        BY <1>7, <2>1, <2>3, <3>1
    <2> QED
      BY <1>6, <2>2, <2>3
  <1>10. \A x \in I \cup {i} : \E k \in 1..n + 1 : f[k] = x
    <2>1. \A x \in I : \E k \in 1..n : e[k] = x
      BY <1>2 DEF PicksBy
    <2> QED
      BY <1>6, <1>7, <2>1, Zenon
  <1>11. \A k \in 1..n + 1 : w[k] = s[f[k]]
    <2>1. \A k \in 1..n : r[k] = s[e[k]]
      BY <1>2 DEF PicksBy
    <2> QED
      BY <1>4, <1>6, <1>7, <2>1, Zenon
  <1>12. n + 1 \in Nat
    OBVIOUS
  <1>13. PicksBy(w, s, I \cup {i}, f, n + 1)
    BY <1>5, <1>8, <1>9, <1>10, <1>11, <1>12, Zenon DEF PicksBy
  <1> QED
    BY <1>12, <1>13, Zenon DEF Picks

LEMMA PickedPicks ==
    ASSUME NEW S, NEW s \in Seq(S), NEW I \in SUBSET (DOMAIN s)
    PROVE  Picked(s, I) \in Seq(S) /\ Picks(Picked(s, I), s, I)
  <1>1. PICK n \in Nat : n = Len(s) /\ DOMAIN s = 1..n
    BY LenProperties
  <1> DEFINE G == Seq(S)
             st == [i \in 1..n |-> [q \in G |-> IF i \in I THEN Append(q, s[i]) ELSE q]]
             Is(f) == f = [i \in 0..n |-> IF i = 0 THEN <<>>
                             ELSE IF i \in I THEN Append(f[i - 1], s[i]) ELSE f[i - 1]]
             F == CHOOSE f : Is(f)
  <1>2. \A i \in 1..n : s[i] \in S
    BY <1>1, ElementOfSeq
  <1>3. \A q \in G, x \in S : Append(q, x) \in G
    BY AppendProperties
  <1>4. <<>> \in G
    OBVIOUS
  <1>5. st \in Stepping(G, n)
    <2> USE DEF Stepping
    <2> SUFFICES ASSUME NEW i \in 1..n, NEW q \in G
                 PROVE  (IF i \in I THEN Append(q, s[i]) ELSE q) \in G
      OBVIOUS
    <2> QED
      BY <1>2, <1>3, Zenon
  <1>6. \A i \in 1..n : \A q \in G : st[i][q] = IF i \in I THEN Append(q, s[i]) ELSE q
    BY Zenon
  <1>7. Picked(s, I) = F[n]
    BY <1>1 DEF Picked
  <1>8. PICK z \in G : z = <<>>
    BY <1>4, Zenon
  <1> HIDE DEF G, st, Is, F
  <1>9. PICK g \in [0..n -> G] : g[0] = z /\ \A i \in 1..n : g[i] = st[i][g[i - 1]]
    <2>1. \E g : StepsFrom(g, G, z, n, st)
      BY <1>5, Recursion, Zenon
    <2> QED
      BY <2>1, Zenon DEF StepsFrom
  <1>10. Is(g)
    <2>1. ASSUME NEW i \in 0..n
          PROVE  g[i] = IF i = 0 THEN <<>> ELSE IF i \in I THEN Append(g[i - 1], s[i]) ELSE g[i - 1]
      <3>1. CASE i = 0
        BY <1>8, <1>9, <3>1, Zenon
      <3>2. CASE i # 0
        <4>1. i \in 1..n /\ i - 1 \in 0..n
          BY <3>2
        <4>2. g[i - 1] \in G /\ g[i] = st[i][g[i - 1]]
          BY <1>9, <4>1, Zenon
        <4> QED
          BY <1>6, <3>2, <4>1, <4>2, Zenon
      <3> QED
        BY <3>1, <3>2
    <2> QED
      BY <2>1, Zenon DEF Is
  <1>11. Is(F)
    BY <1>10, Zenon DEF F
  <1>12. \A i \in 0..n : F[i] = IF i = 0 THEN <<>>
                                ELSE IF i \in I THEN Append(F[i - 1], s[i]) ELSE F[i - 1]
    BY <1>11, Zenon DEF Is
  <1> DEFINE J(i) == I \cap (1..i)
             T == {i \in 0..n : F[i] \in G /\ Picks(F[i], s, J(i))}
  <1>13. 0 \in T
    <2>1. 0 \in 0..n /\ J(0) = {}
      OBVIOUS
    <2>2. F[0] = <<>>
      BY <1>12, <2>1, Zenon
    <2> QED
      BY <1>4, <2>1, <2>2, PickNone, Zenon
  <1>14. ASSUME NEW i \in 1..n, i - 1 \in T
         PROVE  i \in T
    <2>1. i \in 0..n /\ i # 0 /\ i \in Nat
      OBVIOUS
    <2>2. F[i - 1] \in G /\ Picks(F[i - 1], s, J(i - 1))
      BY <1>14, Zenon
    <2>3. CASE i \in I
      <3>1. J(i) = J(i - 1) \cup {i} /\ J(i - 1) \in SUBSET Nat /\ \A j \in J(i - 1) : j < i
        BY <2>3
      <3>2. PICK K \in SUBSET Nat : K = J(i - 1)
        BY <3>1, Zenon
      <3> HIDE DEF J
      <3>3. F[i] = Append(F[i - 1], s[i])
        BY <1>12, <2>1, <2>3, Zenon
      <3>4. F[i] \in G
        BY <1>2, <1>3, <2>2, <3>3, Zenon
      <3>5. s[i] \in S /\ F[i - 1] \in Seq(S) /\ Picks(F[i - 1], s, K) /\ \A j \in K : j < i
        BY <1>2, <2>2, <3>1, <3>2, Zenon DEF G
      <3>6. Picks(F[i], s, K \cup {i})
        BY <2>1, <3>3, <3>5, PickOneMore, Zenon
      <3>7. Picks(F[i], s, J(i))
        BY <3>1, <3>2, <3>6, Zenon
      <3> QED
        BY <2>1, <3>4, <3>7, Zenon
    <2>4. CASE i \notin I
      <3>1. J(i) = J(i - 1)
        BY <2>4
      <3>2. F[i] = F[i - 1]
        BY <1>12, <2>1, <2>4, Zenon
      <3> HIDE DEF J
      <3> QED
        BY <2>1, <2>2, <3>1, <3>2, Zenon
    <2> QED
      BY <2>3, <2>4
  <1>15. J(n) = I
    BY <1>1
  <1> HIDE DEF T, J
  <1>16. 0..n \subseteq T
    BY <1>13, <1>14, UpTo
  <1>17. n \in T
    BY <1>16
  <1> QED
    BY <1>7, <1>15, <1>17, Zenon DEF T, G

LEMMA PicksSet ==
    ASSUME NEW r, NEW s, NEW I, Picks(r, s, I)
    PROVE  \A x : x \in ToSet(r) <=> \E i \in I : x = s[i]
  <1>0. PICK n \in Nat : \E e : PicksBy(r, s, I, e, n)
    BY DEF Picks
  <1>1. PICK e : PicksBy(r, s, I, e, n)
    BY <1>0
  <1>2. \A k \in 1..n : e[k] \in I /\ r[k] = s[e[k]]
    BY <1>1 DEF PicksBy
  <1>3. DOMAIN r = 1..n /\ \A i \in I : \E k \in 1..n : e[k] = i
    BY <1>1 DEF PicksBy
  <1>4. \A x : x \in ToSet(r) <=> \E k \in 1..n : x = r[k]
    BY <1>3, Zenon DEF ToSet
  <1>5. ASSUME NEW i \in I
        PROVE  s[i] \in ToSet(r)
    <2>1. PICK k \in 1..n : e[k] = i
      BY <1>3
    <2>2. r[k] = s[i] /\ r[k] \in ToSet(r)
      BY <1>2, <1>3, <2>1 DEF ToSet
    <2> QED
      BY <2>2, Zenon
  <1> QED
    BY <1>2, <1>4, <1>5

(* The samples with one timestamp end with the last one that has it. *)
LEMMA PicksLast ==
    ASSUME NEW s, DOMAIN s \subseteq Nat, NEW x, NEW r,
           Picks(r, s, {i \in DOMAIN s : s[i].t = x.t})
    PROVE  LastOf(r, x) <=> LastOf(s, x)
  <1> DEFINE I == {i \in DOMAIN s : s[i].t = x.t}
  <1>0. \A i : i \in I <=> i \in DOMAIN s /\ s[i].t = x.t
    OBVIOUS
  <1>26. PICK n \in Nat : \E e : PicksBy(r, s, I, e, n)
    BY DEF Picks
  <1>1. PICK e : PicksBy(r, s, I, e, n)
    BY <1>26
  <1>25. I \subseteq Nat
    OBVIOUS
  <1> HIDE DEF I
  <1>2. \A k \in 1..n : e[k] \in I /\ e[k] \in Nat /\ r[k] = s[e[k]]
    BY <1>1, <1>25 DEF PicksBy
  <1>3. DOMAIN r = 1..n /\ (\A i \in I : \E k \in 1..n : e[k] = i) /\ Rising(e, n)
    BY <1>1 DEF PicksBy
  <1>4. ASSUME LastOf(r, x)
        PROVE  LastOf(s, x)
    <2>1. PICK k \in 1..n : r[k] = x /\ \A j \in 1..n : k < j => r[j].t # x.t
      BY <1>3, <1>4 DEF LastOf
    <2>2. ASSUME NEW j \in DOMAIN s, e[k] < j, s[j].t = x.t
          PROVE  FALSE
      <3>1. PICK l \in 1..n : e[l] = j
        BY <1>0, <1>3, <2>2
      <3>2. k < l
        <4>1. l < k => e[l] < e[k]
          BY <1>3 DEF Rising
        <4> QED
          BY <1>2, <2>2, <3>1, <4>1
      <3>3. r[l] = s[j]
        BY <1>2, <3>1
      <3> QED
        BY <2>1, <2>2, <3>2, <3>3
    <2>3. e[k] \in DOMAIN s /\ s[e[k]] = x
      BY <1>0, <1>2, <2>1
    <2> QED
      BY <2>2, <2>3 DEF LastOf
  <1>5. ASSUME LastOf(s, x)
        PROVE  LastOf(r, x)
    <2>1. PICK i \in DOMAIN s : s[i] = x /\ \A j \in DOMAIN s : i < j => s[j].t # x.t
      BY <1>5 DEF LastOf
    <2>2. PICK k \in 1..n : e[k] = i
      BY <1>0, <1>3, <2>1
    <2>3. ASSUME NEW j \in 1..n, k < j
          PROVE  r[j].t # x.t
      <3>1. i < e[j] /\ e[j] \in DOMAIN s
        BY <1>0, <1>2, <1>3, <2>2, <2>3 DEF Rising
      <3> QED
        BY <1>2, <2>1, <3>1
    <2> QED
      BY <1>2, <1>3, <2>1, <2>2, <2>3 DEF LastOf
  <1> QED
    BY <1>4, <1>5

-----------------------------------------------------------------------------
(* A merge of samples: sorted, and the last of each timestamp kept.        *)

Sorted(s) == \A i, j \in DOMAIN s : i <= j => s[i].t <= s[j].t

Increasing(s) == \A i, j \in DOMAIN s : i < j => s[i].t < s[j].t

LEMMA SampleTimes ==
    ASSUME NEW s \in Seq(Sample)
    PROVE  /\ DOMAIN s = 1..Len(s) /\ Len(s) \in Nat
           /\ \A i \in DOMAIN s : s[i] \in Sample /\ s[i].t \in Times /\ s[i].t \in Nat
  <1>1. DOMAIN s = 1..Len(s) /\ Len(s) \in Nat
    BY LenProperties
  <1>2. \A i \in DOMAIN s : s[i] \in Sample
    BY <1>1, ElementOfSeq
  <1>3. \A x \in Sample : x.t \in Times /\ x.t \in Nat
    BY BlocksConstants DEF Sample, Times
  <1> QED
    BY <1>1, <1>2, <1>3

LEMMA JoinedSorted ==
    ASSUME NEW w, NEW a, NEW b, NEW m, NEW n, Joined(w, a, b, m, n), Sorted(a), Sorted(b),
           \A i \in DOMAIN a : \A j \in DOMAIN b : a[i].t <= b[j].t
    PROVE  Sorted(w)
  <1> USE DEF Joined
  <1> SUFFICES ASSUME NEW i \in 1..m + n, NEW j \in 1..m + n, i <= j
               PROVE  w[i].t <= w[j].t
    BY DEF Sorted
  <1>1. CASE j \in 1..m
    <2>1. i \in 1..m
      BY <1>1
    <2> QED
      BY <1>1, <2>1 DEF Sorted
  <1>2. CASE j \notin 1..m
    <2>1. PICK k \in 1..n : j = m + k
      <3>1. j - m \in 1..n /\ j = m + (j - m)
        BY <1>2
      <3> QED
        BY <3>1
    <2>2. CASE i \in 1..m
      BY <2>1, <2>2
    <2>3. CASE i \notin 1..m
      <3>1. i - m \in 1..n /\ i = m + (i - m) /\ i - m <= k
        BY <2>1, <2>3
      <3>2. b[i - m].t <= b[k].t
        BY <3>1 DEF Sorted
      <3> QED
        BY <2>1, <3>1, <3>2
    <2> QED
      BY <2>2, <2>3
  <1> QED
    BY <1>1, <1>2

(* The samples with each timestamp in turn. *)
ByTime(s) == [t \in Times |-> Picked(s, {i \in DOMAIN s : s[i].t = t})]

LEMMA ByTimePicks ==
    ASSUME NEW s \in Seq(Sample)
    PROVE  /\ ByTime(s) \in Seq(Seq(Sample)) /\ Len(ByTime(s)) = MaxTime
           /\ \A t \in Times : /\ Picks(ByTime(s)[t], s, {i \in DOMAIN s : s[i].t = t})
                               /\ ByTime(s)[t] \in Seq(Sample)
                               /\ \A x \in ToSet(ByTime(s)[t]) : x.t = t
  <1>1. ASSUME NEW t \in Times
        PROVE  /\ Picks(ByTime(s)[t], s, {i \in DOMAIN s : s[i].t = t})
               /\ ByTime(s)[t] \in Seq(Sample)
               /\ \A x \in ToSet(ByTime(s)[t]) : x.t = t
    <2> DEFINE I == {i \in DOMAIN s : s[i].t = t}
    <2>1. I \in SUBSET (DOMAIN s) /\ \A i \in I : s[i].t = t
      OBVIOUS
    <2>2. ByTime(s)[t] = Picked(s, I)
      BY Zenon DEF ByTime
    <2> HIDE DEF I
    <2>3. Picked(s, I) \in Seq(Sample) /\ Picks(Picked(s, I), s, I)
      BY <2>1, PickedPicks, Zenon
    <2>4. \A x : x \in ToSet(Picked(s, I)) <=> \E i \in I : x = s[i]
      BY <2>3, PicksSet
    <2>5. \A x \in ToSet(Picked(s, I)) : x.t = t
      BY <2>1, <2>4, Zenon
    <2> QED
      BY <2>2, <2>3, <2>5, Zenon DEF I
  <1>2. ByTime(s) \in [Times -> Seq(Sample)]
    <2>1. DOMAIN ByTime(s) = Times /\ ByTime(s) = [t \in Times |-> ByTime(s)[t]]
      BY DEF ByTime
    <2> HIDE DEF ByTime
    <2> QED
      BY <1>1, <2>1
  <1>3. Times = 1..MaxTime /\ MaxTime \in Nat
    BY BlocksConstants DEF Times
  <1>4. ByTime(s) \in Seq(Seq(Sample)) /\ Len(ByTime(s)) = MaxTime
    <2>1. PICK b : b = ByTime(s)
      OBVIOUS
    <2>2. PICK S : S = Seq(Sample)
      OBVIOUS
    <2>3. b \in [1..MaxTime -> S]
      BY <1>2, <1>3, <2>1, <2>2, Zenon
    <2>4. b \in Seq(S) /\ Len(b) = MaxTime
      BY <1>3, <2>3
    <2> QED
      BY <2>1, <2>2, <2>4, Zenon
  <1> QED
    BY <1>1, <1>4, Zenon

LEMMA StableSortedSorts ==
    ASSUME NEW s \in Seq(Sample)
    PROVE  /\ StableSorted(s) \in Seq(Sample) /\ Sorted(StableSorted(s))
           /\ \A x \in Sample : LastOf(StableSorted(s), x) <=> LastOf(s, x)
  <1> DEFINE ss == ByTime(s)
  <1>1. StableSorted(s) = FlattenSeq(ss)
    BY Zenon DEF StableSorted, ByTime
  <1>2. Times = 1..MaxTime /\ MaxTime \in Nat
    BY BlocksConstants DEF Times
  <1>3. /\ ss \in Seq(Seq(Sample)) /\ Len(ss) = MaxTime
        /\ \A t \in Times : /\ Picks(ss[t], s, {i \in DOMAIN s : s[i].t = t})
                            /\ ss[t] \in Seq(Sample)
                            /\ \A x \in ToSet(ss[t]) : x.t = t
    BY ByTimePicks
  <1> HIDE DEF ss
  <1>35. \A t \in Times : \A i \in DOMAIN ss[t] : ss[t][i].t = t
    BY <1>3, Zenon DEF ToSet
  <1>4. FlattenSeq(ss) \in Seq(Sample)
    BY <1>3, FlattenType, Zenon
  <1>5. Sorted(FlattenSeq(ss))
    <2>1. PICK P : \A k \in 0..MaxTime :
            P[k] = {w \in Seq(Sample) : Sorted(w) /\ \A i \in DOMAIN w : w[i].t <= k}
      <3> WITNESS [k \in 0..MaxTime |->
                     {w \in Seq(Sample) : Sorted(w) /\ \A i \in DOMAIN w : w[i].t <= k}]
      <3> QED
        BY Zenon
    <2>2. <<>> \in P[0]
      <3>1. 0 \in 0..MaxTime /\ <<>> \in Seq(Sample) /\ DOMAIN <<>> = {}
        BY <1>2
      <3> QED
        BY <2>1, <3>1, Zenon DEF Sorted
    <2>3. ASSUME NEW k \in 1..MaxTime, NEW a \in Seq(Sample), NEW w \in Seq(Sample), a \in P[k - 1],
                 Joined(w, a, ss[k], Len(a), Len(ss[k]))
          PROVE  w \in P[k]
      <3>1. k - 1 \in 0..MaxTime /\ k \in 0..MaxTime /\ k \in Times /\ k \in Nat /\ k <= k
        BY <1>2
      <3>2. Sorted(a) /\ \A i \in DOMAIN a : a[i].t <= k - 1
        BY <2>1, <2>3, <3>1, Zenon
      <3>3. \A i \in DOMAIN ss[k] : ss[k][i].t = k
        BY <1>35, <3>1, Zenon
      <3>4. \A i \in DOMAIN a : a[i].t <= k
        BY <3>1, <3>2, SampleTimes
      <3>5. Sorted(ss[k])
        BY <3>1, <3>3 DEF Sorted
      <3>6. Sorted(w)
        BY <2>3, <3>2, <3>3, <3>4, <3>5, JoinedSorted, Zenon
      <3>7. \A x \in ToSet(w) : x.t <= k
        <4>1. ToSet(w) = ToSet(a) \cup ToSet(ss[k])
          BY <2>3, JoinedSet, SMTT(30)
        <4>2. \A x \in ToSet(a) : x.t <= k
          BY <3>4, Zenon DEF ToSet
        <4>3. \A x \in ToSet(ss[k]) : x.t <= k
          BY <3>1, <3>3, Zenon DEF ToSet
        <4> QED
          BY <4>1, <4>2, <4>3, Zenon
      <3>8. \A i \in DOMAIN w : w[i].t <= k
        BY <3>7, Zenon DEF ToSet
      <3> QED
        BY <2>1, <3>1, <3>6, <3>8, Zenon
    <2>4. Stretches(P, Sample, ss)
      BY <1>3, <2>2, <2>3, Zenon DEF Stretches
    <2>5. FlattenSeq(ss) \in P[MaxTime]
      BY <1>3, <2>4, FlattenInduction, Zenon
    <2>6. MaxTime \in 0..MaxTime
      BY <1>2
    <2> QED
      BY <2>1, <2>5, <2>6, Zenon
  <1>6. ASSUME NEW x \in Sample
        PROVE  LastOf(FlattenSeq(ss), x) <=> LastOf(s, x)
    <2>1. PICK t \in 1..MaxTime : t = x.t
      BY <1>2 DEF Sample
    <2>2. LastOf(FlattenSeq(ss), x) <=> LastAmong(ss, MaxTime, x)
      BY <1>3, FlattenLast, Zenon
    <2>3. \A k \in 1..MaxTime : Has(ss[k], x.t) => k = t
      BY <1>2, <1>35, <2>1, Zenon DEF Has
    <2>4. \A k \in 1..MaxTime : LastOf(ss[k], x) => k = t
      BY <1>2, <1>35, <2>1, Zenon DEF LastOf
    <2>5. LastAmong(ss, MaxTime, x) <=> LastOf(ss[t], x)
      <3>1. ~(t < t)
        OBVIOUS
      <3> QED
        BY <2>3, <2>4, <3>1, Zenon DEF LastAmong
    <2>6. DOMAIN s \subseteq Nat
      BY SampleTimes
    <2>7. Picks(ss[t], s, {i \in DOMAIN s : s[i].t = x.t})
      BY <1>2, <1>3, <2>1, Zenon
    <2>8. LastOf(ss[t], x) <=> LastOf(s, x)
      BY <2>6, <2>7, PicksLast, Zenon
    <2> QED
      BY <2>2, <2>5, <2>8, Zenon
  <1> QED
    BY <1>1, <1>4, <1>5, <1>6, Zenon

LEMMA CollapsedKeepsLast ==
    ASSUME NEW s \in Seq(Sample), Sorted(s)
    PROVE  /\ Collapsed(s) \in Seq(Sample) /\ Increasing(Collapsed(s))
           /\ \A x : x \in ToSet(Collapsed(s)) <=> LastOf(s, x)
  <1> DEFINE I == {i \in DOMAIN s : i < Len(s) => s[i + 1].t # s[i].t}
  <1>1. I \in SUBSET (DOMAIN s)
    OBVIOUS
  <1>2. Collapsed(s) = Picked(s, I)
    BY Zenon DEF Collapsed
  <1>3. PICK n \in Nat : n = Len(s) /\ DOMAIN s = 1..n
    BY SampleTimes
  <1>4. \A i \in 1..n : s[i].t \in Nat
    BY <1>3, SampleTimes
  <1>5. \A i \in 1..n, j \in 1..n : i <= j => s[i].t <= s[j].t
    BY <1>3 DEF Sorted
  <1>6. \A i \in I : i \in 1..n /\ \A j \in 1..n : i < j => s[i].t < s[j].t
    <2> SUFFICES ASSUME NEW i \in I, NEW j \in 1..n, i < j
                 PROVE  s[i].t < s[j].t
      BY <1>3
    <2>1. i \in 1..n /\ i + 1 \in 1..n /\ i <= i + 1 /\ i + 1 <= j
      BY <1>3
    <2>2. s[i + 1].t # s[i].t
      BY <1>3, <2>1
    <2>3. s[i].t <= s[i + 1].t /\ s[i + 1].t <= s[j].t
      BY <1>5, <2>1
    <2> QED
      BY <1>4, <2>1, <2>2, <2>3
  <1>7. \A i \in 1..n : (\A j \in 1..n : i < j => s[j].t # s[i].t) => i \in I
    BY <1>3
  <1> HIDE DEF I
  <1>8. Picked(s, I) \in Seq(Sample) /\ Picks(Picked(s, I), s, I)
    BY <1>1, PickedPicks, Zenon
  <1>9. PICK r : r = Picked(s, I)
    OBVIOUS
  <1>10. Increasing(r)
    <2>0. PICK m \in Nat : \E e : PicksBy(r, s, I, e, m)
      BY <1>8, <1>9 DEF Picks
    <2>1. PICK e : PicksBy(r, s, I, e, m)
      BY <2>0
    <2>2. DOMAIN r = 1..m /\ \A k \in 1..m : e[k] \in I /\ r[k] = s[e[k]]
      BY <2>1 DEF PicksBy
    <2>3. Rising(e, m)
      BY <2>1 DEF PicksBy
    <2> SUFFICES ASSUME NEW j \in 1..m, NEW k \in 1..m, j < k
                 PROVE  r[j].t < r[k].t
      BY <2>2 DEF Increasing
    <2>4. e[j] < e[k]
      BY <2>3 DEF Rising
    <2> QED
      BY <1>6, <2>2, <2>4
  <1>11. ASSUME NEW x
         PROVE  x \in ToSet(r) <=> LastOf(s, x)
    <2>1. x \in ToSet(r) <=> \E i \in I : x = s[i]
      BY <1>8, <1>9, PicksSet
    <2>2. ASSUME NEW i \in I, x = s[i]
          PROVE  LastOf(s, x)
      <3>1. i \in 1..n /\ \A j \in 1..n : i < j => s[j].t # s[i].t
        BY <1>4, <1>6
      <3> QED
        BY <1>3, <2>2, <3>1, Zenon DEF LastOf
    <2>3. ASSUME LastOf(s, x)
          PROVE  \E i \in I : x = s[i]
      BY <1>3, <1>7, <2>3, Zenon DEF LastOf
    <2> QED
      BY <2>1, <2>2, <2>3, Zenon
  <1> QED
    BY <1>2, <1>8, <1>9, <1>10, <1>11, Zenon

-----------------------------------------------------------------------------
(* Appending to chunks.                                                    *)

(* A sample x goes to a last chunk l with room, or to a new one; f are the    *)
(* chunks before it.                                                          *)
Lands(c, x, f, l) ==
    /\ AppendTo(c, x) = Append(f, Append(l, x))
    /\ \/ l = <<>> /\ f = c
       \/ c = Append(f, l) /\ Len(l) < ChunkCap

LEMMA AppendToShape ==
    ASSUME NEW S, NEW c \in Seq(Seq(S)), NEW x \in S
    PROVE  \E f \in Seq(Seq(S)) : \E l \in Seq(S) : Lands(c, x, f, l)
  <1> DEFINE G == Seq(S)
  <1>1. \A l \in G : Append(l, x) \in G /\ Len(l) \in Nat
    BY AppendProperties, LenProperties
  <1>2. <<>> \in G /\ <<x>> = Append(<<>>, x)
    OBVIOUS
  <1> HIDE DEF G
  <1>3. CASE c = <<>> \/ Len(Last(c)) >= ChunkCap
    <2>1. AppendTo(c, x) = Append(c, <<x>>)
      BY <1>3, Zenon DEF AppendTo
    <2>2. AppendTo(c, x) = Append(c, Append(<<>>, x))
      BY <1>2, <2>1, Zenon
    <2>3. Lands(c, x, c, <<>>)
      BY <2>2, Zenon DEF Lands
    <2> QED
      BY <1>2, <2>3, Zenon DEF G
  <1>4. CASE ~(c = <<>> \/ Len(Last(c)) >= ChunkCap)
    <2>1. PICK f \in Seq(G), l \in G : c = Append(f, l)
      BY <1>4, SequenceEmptyOrAppend DEF G
    <2>2. PICK n \in Nat : n = Len(f)
      BY <2>1, LenProperties
    <2>3. c \in Seq(G) /\ Len(c) = n + 1 /\ c[n + 1] = l /\ \A i \in 1..n : c[i] = f[i]
      BY <2>1, <2>2, AppendProperties
    <2>4. Last(c) = l
      BY <2>3, Zenon DEF Last
    <2>5. Len(l) < ChunkCap
      BY <1>1, <1>4, <2>4, BlocksConstants
    <2>6. PICK k \in G : k = Append(l, x)
      BY <1>1, Zenon
    <2>7. AppendTo(c, x) = [c EXCEPT ![n + 1] = k]
      BY <1>4, <2>3, <2>6, Zenon DEF AppendTo
    <2>8. PICK w \in Seq(G) : w = Append(f, k)
      BY AppendProperties
    <2>9. Len(w) = n + 1 /\ w[n + 1] = k /\ \A i \in 1..n : w[i] = f[i]
      BY <2>2, <2>8, AppendProperties
    <2>10. PICK v \in Seq(G) : /\ v = [c EXCEPT ![n + 1] = k] /\ Len(v) = n + 1
                               /\ \A i \in 1..n + 1 : v[i] = IF i = n + 1 THEN k ELSE c[i]
      <3>1. PICK i \in 1..Len(c) : i = n + 1
        BY <2>3
      <3>2. PICK v : v = [c EXCEPT ![i] = k]
        OBVIOUS
      <3>3. /\ v \in Seq(G) /\ Len(v) = Len(c)
            /\ \A j \in 1..Len(c) : v[j] = IF j = i THEN k ELSE c[j]
        BY <2>3, <3>2, ExceptSeq
      <3>4. /\ v = [c EXCEPT ![n + 1] = k] /\ Len(v) = n + 1
            /\ \A j \in 1..n + 1 : v[j] = IF j = n + 1 THEN k ELSE c[j]
        BY <2>3, <3>1, <3>2, <3>3, Zenon
      <3>5. v \in Seq(G)
        BY <3>3, Zenon
      <3> WITNESS v \in Seq(G)
      <3> QED
        BY <3>4, Zenon
    <2>11. \A i \in 1..n + 1 : v[i] = w[i]
      <3>1. \A i \in 1..n + 1 : i = n + 1 \/ i \in 1..n
        OBVIOUS
      <3> QED
        BY <2>3, <2>9, <2>10, <3>1, Zenon
    <2>12. v = w
      BY <2>9, <2>10, <2>11, SeqEqual
    <2>13. AppendTo(c, x) = Append(f, Append(l, x))
      BY <2>6, <2>7, <2>8, <2>10, <2>12, Zenon
    <2>14. Lands(c, x, f, l)
      BY <2>1, <2>5, <2>13, Zenon DEF Lands
    <2> QED
      BY <2>14, Zenon DEF G
  <1> QED
    BY <1>3, <1>4

LEMMA EmptyHasNoLength == Len(<<>>) = 0
  OBVIOUS

LEMMA AppendToType ==
    ASSUME NEW S, NEW c \in Seq(Seq(S)), NEW x \in S
    PROVE  AppendTo(c, x) \in Seq(Seq(S)) /\ AppendTo(c, x) # <<>>
  <1>0. PICK f \in Seq(Seq(S)) : \E l \in Seq(S) : Lands(c, x, f, l)
    BY AppendToShape, Zenon
  <1>1. PICK l \in Seq(S) : AppendTo(c, x) = Append(f, Append(l, x))
    BY <1>0, Zenon DEF Lands
  <1>2. PICK k \in Seq(S) : k = Append(l, x)
    BY AppendProperties
  <1>3. PICK G : G = Seq(S)
    OBVIOUS
  <1>4. f \in Seq(G) /\ k \in G
    BY <1>2, <1>3, Zenon
  <1>5. Append(f, k) \in Seq(G)
    BY <1>4
  <1>6. Len(Append(f, k)) # 0
    BY <1>4
  <1>7. Append(f, k) # <<>>
    BY <1>6, EmptyHasNoLength, Zenon
  <1> QED
    BY <1>1, <1>2, <1>3, <1>5, <1>7, Zenon

(* Its samples are those there were, and one more at the end. *)
LEMMA AppendToSamples ==
    ASSUME NEW S, NEW c \in Seq(Seq(S)), NEW x \in S
    PROVE  Samples(AppendTo(c, x)) = Append(Samples(c), x)
  <1>0. PICK f \in Seq(Seq(S)) : \E l \in Seq(S) : Lands(c, x, f, l)
    BY AppendToShape, Zenon
  <1>1. PICK l \in Seq(S) :
          AppendTo(c, x) = Append(f, Append(l, x)) /\ ((l = <<>> /\ f = c) \/ c = Append(f, l))
    BY <1>0, Zenon DEF Lands
  <1>2. PICK k \in Seq(S) : k = Append(l, x)
    BY AppendProperties
  <1>3. PICK a \in Seq(S) : a = FlattenSeq(f)
    BY FlattenType
  <1>4. FlattenSeq(c) = a \o l
    <2>1. CASE l = <<>> /\ f = c
      <3>1. a \o l = a
        BY <2>1, ConcatEmptySeq
      <3> QED
        BY <1>3, <2>1, <3>1, Zenon
    <2>2. CASE c = Append(f, l)
      BY <1>3, <2>2, FlattenAppend, Zenon
    <2> QED
      BY <1>1, <2>1, <2>2, Zenon
  <1>5. FlattenSeq(AppendTo(c, x)) = a \o k
    BY <1>1, <1>2, <1>3, FlattenAppend, Zenon
  <1>6. <<x>> \in Seq(S)
    OBVIOUS
  <1>7. k = l \o <<x>>
    BY <1>2, AppendIsConcat
  <1>8. (a \o l) \o <<x>> = a \o (l \o <<x>>)
    BY <1>6, ConcatAssociative, SMTT(30)
  <1>9. a \o l \in Seq(S)
    BY ConcatProperties
  <1>10. Append(a \o l, x) = (a \o l) \o <<x>>
    BY <1>9, AppendIsConcat, Zenon
  <1> QED
    BY <1>4, <1>5, <1>7, <1>8, <1>10, Zenon DEF Samples

(* Chunks, and one more behind them. *)
LEMMA OneMoreChunk ==
    ASSUME NEW f \in Seq(Seq(Sample)), NEW k \in Seq(Sample), NEW w, w = Append(f, k)
    PROVE  IsChunks(w) <=> /\ IsChunks(f) /\ IsChunk(k)
                           /\ f # <<>> => max_time(f[Len(f)]) <= min_time(k)
  <1> DEFINE G == Seq(Sample)
  <1>1. PICK n \in Nat : n = Len(f) /\ DOMAIN f = 1..n /\ (f = <<>> <=> n = 0)
    BY LenProperties, EmptySeq
  <1>2. w \in Seq(G) /\ Len(w) = n + 1 /\ w[n + 1] = k /\ \A i \in 1..n : w[i] = f[i]
    BY <1>1, AppendProperties
  <1>3. DOMAIN w = 1..n + 1
    BY <1>2, LenProperties
  <1>4. (\A i \in 1..n + 1 : IsChunk(w[i])) <=> (\A i \in 1..n : IsChunk(f[i])) /\ IsChunk(k)
    <2>1. n + 1 \in 1..n + 1 /\ (\A i \in 1..n : i \in 1..n + 1)
          /\ \A i \in 1..n + 1 : i = n + 1 \/ i \in 1..n
      OBVIOUS
    <2> QED
      BY <1>2, <2>1, Zenon
  <1>5. ASSUME \A i \in 2..n : max_time(f[i - 1]) <= min_time(f[i]),
               n # 0 => max_time(f[n]) <= min_time(k)
        PROVE  \A i \in 2..n + 1 : max_time(w[i - 1]) <= min_time(w[i])
    <2> SUFFICES ASSUME NEW i \in 2..n + 1
                 PROVE  max_time(w[i - 1]) <= min_time(w[i])
      OBVIOUS
    <2>1. i - 1 \in 1..n
      OBVIOUS
    <2>2. CASE i = n + 1
      <3>1. i - 1 = n /\ n # 0
        BY <2>2
      <3> QED
        BY <1>2, <1>5, <2>1, <2>2, <3>1, Zenon
    <2>3. CASE i # n + 1
      <3>1. i \in 2..n /\ i \in 1..n
        BY <2>3
      <3> QED
        BY <1>2, <1>5, <2>1, <3>1, Zenon
    <2> QED
      BY <2>2, <2>3
  <1>6. ASSUME \A i \in 2..n + 1 : max_time(w[i - 1]) <= min_time(w[i])
        PROVE  /\ \A i \in 2..n : max_time(f[i - 1]) <= min_time(f[i])
               /\ n # 0 => max_time(f[n]) <= min_time(k)
    <2>1. ASSUME NEW i \in 2..n
          PROVE  max_time(f[i - 1]) <= min_time(f[i])
      <3>1. i \in 2..n + 1 /\ i \in 1..n /\ i - 1 \in 1..n
        OBVIOUS
      <3> QED
        BY <1>2, <1>6, <3>1, Zenon
    <2>2. ASSUME n # 0
          PROVE  max_time(f[n]) <= min_time(k)
      <3>1. n + 1 \in 2..n + 1 /\ n \in 1..n /\ (n + 1) - 1 = n
        BY <2>2
      <3> QED
        BY <1>2, <1>6, <3>1, Zenon
    <2> QED
      BY <2>1, <2>2
  <1>7. IsChunks(w) <=> /\ \A i \in 1..n + 1 : IsChunk(w[i])
                        /\ \A i \in 2..n + 1 : max_time(w[i - 1]) <= min_time(w[i])
    BY <1>2, <1>3, Zenon DEF IsChunks
  <1>8. IsChunks(f) <=> /\ \A i \in 1..n : IsChunk(f[i])
                        /\ \A i \in 2..n : max_time(f[i - 1]) <= min_time(f[i])
    BY <1>1, Zenon DEF IsChunks
  <1> QED
    BY <1>1, <1>4, <1>5, <1>6, <1>7, <1>8, Zenon

LEMMA OneMoreInChunk ==
    ASSUME NEW l \in Seq(Sample), NEW x \in Sample, Len(l) < ChunkCap,
           l = <<>> \/ (IsChunk(l) /\ max_time(l) <= x.t)
    PROVE  /\ IsChunk(Append(l, x))
           /\ min_time(Append(l, x)) = IF l = <<>> THEN x.t ELSE min_time(l)
  <1>1. PICK n \in Nat : n = Len(l) /\ DOMAIN l = 1..n /\ (l = <<>> <=> n = 0)
    BY LenProperties, EmptySeq
  <1>2. PICK w \in Seq(Sample) : w = Append(l, x)
    BY AppendProperties
  <1>3. Len(w) = n + 1 /\ w[n + 1] = x /\ \A i \in 1..n : w[i] = l[i]
    BY <1>1, <1>2, AppendProperties
  <1>4. DOMAIN w = 1..n + 1
    BY <1>3, LenProperties
  <1>5. x.t \in Nat /\ \A i \in 1..n : l[i].t \in Nat
    <2>1. x.t \in Nat
      BY BlocksConstants DEF Sample, Times
    <2> QED
      BY <1>1, <2>1, SampleTimes
  <1>6. n + 1 \in 1..ChunkCap
    BY <1>1, BlocksConstants
  <1>7. CASE l = <<>>
    <2>1. n = 0
      BY <1>1, <1>7
    <2>2. \A i \in 1..n + 1, j \in 1..n + 1 : i <= j => w[i].t <= w[j].t
      BY <1>3, <1>5, <2>1
    <2> QED
      BY <1>2, <1>3, <1>4, <1>6, <1>7, <2>1, <2>2 DEF IsChunk, min_time
  <1>8. CASE l # <<>>
    <2>1. n # 0 /\ IsChunk(l) /\ max_time(l) <= x.t
      BY <1>1, <1>8
    <2>2. \A i, j \in 1..n : i <= j => l[i].t <= l[j].t
      BY <1>1, <2>1 DEF IsChunk
    <2>3. l[n].t <= x.t
      BY <1>1, <2>1 DEF max_time
    <2>4. \A i, j \in 1..n + 1 : i <= j => w[i].t <= w[j].t
      <3> SUFFICES ASSUME NEW i \in 1..n + 1, NEW j \in 1..n + 1, i <= j
                   PROVE  w[i].t <= w[j].t
        OBVIOUS
      <3>1. CASE j \in 1..n
        BY <1>3, <2>2, <3>1
      <3>2. CASE i = n + 1
        BY <1>3, <1>5, <3>2
      <3>3. CASE i \in 1..n /\ j = n + 1
        <4>1. l[i].t <= l[n].t /\ l[i].t \in Nat /\ l[n].t \in Nat
          BY <1>5, <2>1, <2>2, <3>3
        <4> QED
          BY <1>3, <1>5, <2>3, <3>3, <4>1
      <3> QED
        BY <3>1, <3>2, <3>3
    <2>5. w[1] = l[1]
      BY <1>3, <2>1
    <2> QED
      BY <1>2, <1>3, <1>4, <1>6, <1>8, <2>4, <2>5 DEF IsChunk, min_time
  <1> QED
    BY <1>7, <1>8

LEMMA AppendToChunks ==
    ASSUME NEW c, IsChunks(c), NEW x \in Sample, InOrder(c, x.t)
    PROVE  IsChunks(AppendTo(c, x))
  <1>1. c \in Seq(Seq(Sample))
    BY DEF IsChunks
  <1>15. PICK f \in Seq(Seq(Sample)) : \E l \in Seq(Sample) : Lands(c, x, f, l)
    BY <1>1, AppendToShape, Zenon
  <1>2. PICK l \in Seq(Sample) :
          /\ AppendTo(c, x) = Append(f, Append(l, x))
          /\ (l = <<>> /\ f = c) \/ (c = Append(f, l) /\ Len(l) < ChunkCap)
    BY <1>15, Zenon DEF Lands
  <1>3. PICK k \in Seq(Sample) : k = Append(l, x)
    BY AppendProperties
  <1>4. c # <<>> => max_time(c[Len(c)]) <= x.t
    BY DEF InOrder, Last, max_time
  <1>5. CASE l = <<>> /\ f = c
    <2>1. Len(l) < ChunkCap
      BY <1>5, BlocksConstants
    <2>2. IsChunk(k) /\ min_time(k) = x.t
      BY <1>3, <1>5, <2>1, OneMoreInChunk
    <2>3. IsChunks(f) /\ (f # <<>> => max_time(f[Len(f)]) <= min_time(k))
      BY <1>4, <1>5, <2>2, Zenon
    <2> QED
      BY <1>2, <1>3, <2>2, <2>3, OneMoreChunk, Zenon
  <1>6. CASE c = Append(f, l) /\ Len(l) < ChunkCap
    <2>1. IsChunks(f) /\ IsChunk(l) /\ (f # <<>> => max_time(f[Len(f)]) <= min_time(l))
      BY <1>6, OneMoreChunk, Zenon
    <2>2. c # <<>> /\ c[Len(c)] = l
      BY <1>6, AppendProperties, SMTT(30)
    <2>3. max_time(l) <= x.t
      BY <1>4, <2>2, Zenon
    <2>4. l # <<>>
      BY <2>1 DEF IsChunk
    <2>5. IsChunk(k) /\ min_time(k) = min_time(l)
      BY <1>3, <1>6, <2>1, <2>3, <2>4, OneMoreInChunk
    <2> QED
      BY <1>2, <1>3, <2>1, <2>5, OneMoreChunk, Zenon
  <1> QED
    BY <1>2, <1>5, <1>6, Zenon

LEMMA LastSample ==
    ASSUME NEW c, IsChunks(c), c # <<>>
    PROVE  Last(Last(c)) \in ToSet(Samples(c))
  <1>1. c \in Seq(Seq(Sample)) /\ \A i \in DOMAIN c : IsChunk(c[i])
    BY DEF IsChunks
  <1>2. Len(c) \in DOMAIN c
    BY <1>1, LenProperties, EmptySeq
  <1>3. PICK l \in Seq(Sample) : l = Last(c) /\ l = c[Len(c)] /\ Len(l) \in 1..ChunkCap
    BY <1>1, <1>2 DEF IsChunk, Last
  <1>4. Len(l) \in DOMAIN l
    BY <1>3, LenProperties, BlocksConstants
  <1>5. Last(l) \in ToSet(c[Len(c)])
    BY <1>3, <1>4, Zenon DEF Last, ToSet
  <1>6. ToSet(FlattenSeq(c)) = UNION {ToSet(c[i]) : i \in DOMAIN c}
    BY <1>1, FlattenedSet, Zenon
  <1> QED
    BY <1>2, <1>3, <1>5, <1>6, Zenon DEF Samples

LEMMA RechunkedSteps ==
    ASSUME NEW S, NEW s \in Seq(S), NEW n \in Nat, n = Len(s)
    PROVE  \E F : /\ F[0] = <<>> /\ (\A i \in 1..n : F[i] = AppendTo(F[i - 1], s[i]))
                  /\ Rechunked(s) = F[n]
  <1> DEFINE G == Seq(Seq(S))
             st == [i \in 1..n |-> [q \in G |-> AppendTo(q, s[i])]]
             Is(f) == f = [i \in 0..n |-> IF i = 0 THEN <<>> ELSE AppendTo(f[i - 1], s[i])]
             F == CHOOSE f : Is(f)
  <1>2. \A i \in 1..n : s[i] \in S
    BY ElementOfSeq
  <1>3. \A q \in G, x \in S : AppendTo(q, x) \in G
    BY AppendToType, Zenon
  <1>4. <<>> \in G
    OBVIOUS
  <1>5. st \in Stepping(G, n)
    <2> USE DEF Stepping
    <2> HIDE DEF G
    <2> SUFFICES ASSUME NEW i \in 1..n, NEW q \in G
                 PROVE  AppendTo(q, s[i]) \in G
      OBVIOUS
    <2> QED
      BY <1>2, <1>3, Zenon
  <1>6. \A i \in 1..n : \A q \in G : st[i][q] = AppendTo(q, s[i])
    BY Zenon
  <1>7. Rechunked(s) = F[n]
    BY DEF Rechunked
  <1>8. PICK z \in G : z = <<>>
    BY <1>4, Zenon
  <1> HIDE DEF G, st, Is, F
  <1>9. PICK g \in [0..n -> G] : g[0] = z /\ \A i \in 1..n : g[i] = st[i][g[i - 1]]
    <2>1. \E g : StepsFrom(g, G, z, n, st)
      BY <1>5, Recursion, Zenon
    <2> QED
      BY <2>1, Zenon DEF StepsFrom
  <1>10. Is(g)
    <2>1. ASSUME NEW i \in 0..n
          PROVE  g[i] = IF i = 0 THEN <<>> ELSE AppendTo(g[i - 1], s[i])
      <3>1. CASE i = 0
        BY <1>8, <1>9, <3>1, Zenon
      <3>2. CASE i # 0
        <4>1. i \in 1..n /\ i - 1 \in 0..n
          BY <3>2
        <4>2. g[i - 1] \in G /\ g[i] = st[i][g[i - 1]]
          BY <1>9, <4>1, Zenon
        <4> QED
          BY <1>6, <3>2, <4>1, <4>2, Zenon
      <3> QED
        BY <3>1, <3>2
    <2> QED
      BY <2>1, Zenon DEF Is
  <1>11. Is(F)
    BY <1>10, Zenon DEF F
  <1>12. \A i \in 0..n : F[i] = IF i = 0 THEN <<>> ELSE AppendTo(F[i - 1], s[i])
    BY <1>11, Zenon DEF Is
  <1>13. 0 \in 0..n /\ \A i \in 1..n : i \in 0..n /\ i # 0
    OBVIOUS
  <1>14. F[0] = <<>> /\ \A i \in 1..n : F[i] = AppendTo(F[i - 1], s[i])
    BY <1>12, <1>13, Zenon
  <1> QED
    BY <1>7, <1>14, Zenon

(* q is the first i elements of s. *)
IsStart(q, i, s) == q \in Seq(Sample) /\ Len(q) = i /\ \A k \in 1..i : q[k] = s[k]

LEMMA StartAppend ==
    ASSUME NEW s \in Seq(Sample), NEW i \in 1..Len(s), NEW q, IsStart(q, i - 1, s)
    PROVE  IsStart(Append(q, s[i]), i, s)
  <1>1. PICK x \in Sample : x = s[i]
    BY ElementOfSeq
  <1>2. /\ Append(q, x) \in Seq(Sample) /\ Len(Append(q, x)) = (i - 1) + 1
        /\ Append(q, x)[(i - 1) + 1] = x /\ \A k \in 1..i - 1 : Append(q, x)[k] = q[k]
    BY AppendProperties DEF IsStart
  <1>3. (i - 1) + 1 = i /\ \A k \in 1..i : k = i \/ k \in 1..i - 1
    BY LenProperties
  <1> QED
    BY <1>1, <1>2, <1>3, Zenon DEF IsStart

(* The chunks of sorted samples are in order and have just these samples. *)
LEMMA RechunkedKeeps ==
    ASSUME NEW s \in Seq(Sample), Sorted(s)
    PROVE  IsChunks(Rechunked(s)) /\ Samples(Rechunked(s)) = s
  <1>1. PICK n \in Nat : n = Len(s) /\ DOMAIN s = 1..n
    BY LenProperties
  <1>2. PICK F : /\ F[0] = <<>> /\ (\A i \in 1..n : F[i] = AppendTo(F[i - 1], s[i]))
                 /\ Rechunked(s) = F[n]
    BY <1>1, RechunkedSteps, Zenon
  <1> DEFINE T == {i \in 0..n : IsChunks(F[i]) /\ IsStart(Samples(F[i]), i, s)}
  <1>3. 0 \in T
    <2>1. IsChunks(<<>>)
      BY DEF IsChunks
    <2>2. IsStart(<<>>, 0, s)
      BY DEF IsStart
    <2>3. Samples(F[0]) = <<>>
      BY <1>2, FlattenEmpty, Zenon DEF Samples
    <2>4. 0 \in 0..n
      OBVIOUS
    <2> QED
      BY <1>2, <2>1, <2>2, <2>3, <2>4, Zenon
  <1>4. ASSUME NEW i \in 1..n, i - 1 \in T
        PROVE  i \in T
    <2>1. PICK c : c = F[i - 1]
      OBVIOUS
    <2>2. IsChunks(c) /\ IsStart(Samples(c), i - 1, s)
      BY <1>4, <2>1, Zenon
    <2>3. PICK x \in Sample : x = s[i]
      BY <1>1, ElementOfSeq
    <2>4. InOrder(c, x.t)
      <3> SUFFICES ASSUME c # <<>>
                   PROVE  Last(Last(c)).t <= x.t
        BY DEF InOrder
      <3>1. PICK y : y = Last(Last(c)) /\ y \in ToSet(Samples(c))
        BY <2>2, LastSample, Zenon
      <3>2. PICK q \in Seq(Sample) : q = Samples(c) /\ Len(q) = i - 1 /\ \A k \in 1..i - 1 : q[k] = s[k]
        BY <2>2, Zenon DEF IsStart
      <3>3. DOMAIN q = 1..i - 1
        BY <3>2, LenProperties
      <3>4. PICK k \in 1..i - 1 : y = q[k]
        BY <3>1, <3>2, <3>3, Zenon DEF ToSet
      <3>5. k \in 1..n /\ k <= i /\ y = s[k]
        BY <3>2, <3>4
      <3>6. s[k].t <= s[i].t
        BY <1>1, <3>5 DEF Sorted
      <3> QED
        BY <2>3, <3>1, <3>5, <3>6, Zenon
    <2>5. F[i] = AppendTo(c, x)
      BY <1>2, <2>1, <2>3, Zenon
    <2>6. IsChunks(F[i])
      BY <2>2, <2>4, <2>5, AppendToChunks, Zenon
    <2>7. c \in Seq(Seq(Sample))
      BY <2>2, Zenon DEF IsChunks
    <2>8. Samples(F[i]) = Append(Samples(c), s[i])
      BY <2>3, <2>5, <2>7, AppendToSamples, Zenon
    <2>9. IsStart(Samples(F[i]), i, s)
      <3>1. i \in 1..Len(s)
        BY <1>1
      <3>2. IsStart(Append(Samples(c), s[i]), i, s)
        BY <2>2, <3>1, StartAppend, Zenon
      <3> QED
        BY <2>8, <3>2, Zenon
    <2>10. i \in 0..n
      OBVIOUS
    <2> QED
      BY <2>6, <2>9, <2>10, Zenon
  <1> HIDE DEF T
  <1>5. 0..n \subseteq T
    BY <1>3, <1>4, UpTo
  <1>6. n \in T
    BY <1>5
  <1>7. IsChunks(F[n]) /\ IsStart(Samples(F[n]), n, s)
    BY <1>6, Zenon DEF T
  <1>8. Samples(F[n]) = s
    <2>1. PICK q \in Seq(Sample) : q = Samples(F[n]) /\ Len(q) = n /\ \A k \in 1..n : q[k] = s[k]
      BY <1>7, Zenon DEF IsStart
    <2>2. q = s
      BY <1>1, <2>1, SeqEqual
    <2> QED
      BY <2>1, <2>2, Zenon
  <1> QED
    BY <1>2, <1>7, <1>8, Zenon

-----------------------------------------------------------------------------
(* Minimum and maximum.                                                    *)

LEMMA Smallest ==
    ASSUME NEW T \in SUBSET Nat, T # {}
    PROVE  Min(T) \in T /\ \A y \in T : Min(T) <= y
  <1> DEFINE R == OpToRel(<, Nat)
  <1>1. IsWellFoundedOn(R, Nat)
    BY NatLessThanWellFounded
  <1>2. \A x, y \in Nat : x < y => <<x, y>> \in R
    BY DEF OpToRel
  <1> HIDE DEF R
  <1>3. PICK x \in T : \A y \in T : ~(<<y, x>> \in R)
    BY <1>1, WFMin
  <1>4. ASSUME NEW y \in T
        PROVE  x <= y
    <2>1. x \in Nat /\ y \in Nat
      OBVIOUS
    <2>2. ~(y < x)
      BY <1>2, <1>3, <2>1, Zenon
    <2> QED
      BY <2>1, <2>2
  <1> QED
    BY <1>3, <1>4 DEF Min

LEMMA Largest ==
    ASSUME NEW T \in SUBSET Nat, T # {}, NEW m \in Nat, \A y \in T : y <= m
    PROVE  Max(T) \in T /\ \A y \in T : y <= Max(T)
  <1> DEFINE U == {b \in Nat : \A y \in T : y <= b}
  <1>1. U \in SUBSET Nat /\ U # {}
    OBVIOUS
  <1>2. PICK b \in U : \A c \in U : b <= c
    <2>1. Min(U) \in U /\ \A y \in U : Min(U) <= y
      BY <1>1, Smallest
    <2> HIDE DEF U
    <2> QED
      BY <2>1
  <1>3. b \in T
    <2> SUFFICES ASSUME b \notin T
                 PROVE  FALSE
      OBVIOUS
    <2>1. PICK y \in T : TRUE
      OBVIOUS
    <2>2. b \in Nat /\ b # 0 /\ b - 1 \in Nat
      BY <2>1
    <2>3. \A z \in T : z <= b - 1
      BY <2>2
    <2> QED
      BY <1>2, <2>2, <2>3
  <1>4. b \in T /\ \A y \in T : b >= y
    BY <1>3
  <1>5. Max(T) \in T /\ \A y \in T : Max(T) >= y
    BY <1>4, Zenon DEF Max
  <1> QED
    BY <1>5

LEMMA LargestIs ==
    ASSUME NEW T \in SUBSET Nat, NEW x \in T, \A y \in T : y <= x
    PROVE  Max(T) = x
  <1>1. Max(T) \in T /\ \A y \in T : y <= Max(T)
    BY Largest
  <1>2. Max(T) \in Nat /\ x \in Nat
    BY <1>1
  <1>3. Max(T) <= x /\ x <= Max(T)
    BY <1>1
  <1> HIDE DEF Max
  <1> QED
    BY <1>2, <1>3

(* The largest value of a function. *)
LEMMA LargestOf ==
    ASSUME NEW n \in Nat \ {0}, NEW f, \A i \in 1..n : f[i] \in Nat
    PROVE  \E m \in Nat : (\E i \in 1..n : m = f[i]) /\ \A i \in 1..n : f[i] <= m
  <1> DEFINE T == {k \in 0..n : k # 0 => \E i \in 1..k : \A j \in 1..k : f[j] <= f[i]}
  <1>1. 0 \in T
    OBVIOUS
  <1>2. ASSUME NEW k \in 1..n, k - 1 \in T
        PROVE  k \in T
    <2>1. CASE k = 1
      <3>1. 1 \in 1..1 /\ \A j \in 1..1 : f[j] <= f[1]
        OBVIOUS
      <3> QED
        BY <2>1, <3>1
    <2>2. CASE k # 1
      <3>1. PICK i \in 1..k - 1 : \A j \in 1..k - 1 : f[j] <= f[i]
        BY <1>2, <2>2
      <3>2. \A j \in 1..k : j = k \/ j \in 1..k - 1
        OBVIOUS
      <3>3. CASE f[k] <= f[i]
        BY <3>1, <3>2, <3>3
      <3>4. CASE ~(f[k] <= f[i])
        <4>1. \A j \in 1..k : f[j] <= f[k]
          BY <3>1, <3>2, <3>4
        <4> QED
          BY <4>1
      <3> QED
        BY <3>3, <3>4
    <2> QED
      BY <2>1, <2>2
  <1> HIDE DEF T
  <1>3. 0..n \subseteq T
    BY <1>1, <1>2, UpTo
  <1>4. PICK i \in 1..n : \A j \in 1..n : f[j] <= f[i]
    BY <1>3 DEF T
  <1> QED
    BY <1>4

-----------------------------------------------------------------------------
(* The samples of the series of a block.                                   *)

(* A timestamp that is there has a last sample. *)
LEMMA HasLast ==
    ASSUME NEW s \in Seq(Sample), NEW t, Has(s, t)
    PROVE  \E x \in Sample : x.t = t /\ LastOf(s, x)
  <1> DEFINE T == {i \in DOMAIN s : s[i].t = t}
  <1>1. PICK n \in Nat : n = Len(s) /\ DOMAIN s = 1..n
    BY LenProperties
  <1>2. T \in SUBSET Nat /\ T # {} /\ \A i \in T : i <= n
    BY <1>1 DEF Has
  <1>3. \A i : i \in T <=> i \in DOMAIN s /\ s[i].t = t
    OBVIOUS
  <1> HIDE DEF T
  <1>4. PICK m \in T : \A i \in T : i <= m
    BY <1>2, Largest
  <1>5. s[m] \in Sample
    BY <1>1, <1>3, <1>4, ElementOfSeq
  <1>6. \A j \in DOMAIN s : m < j => s[j].t # t
    BY <1>1, <1>3, <1>4
  <1>7. LastOf(s, s[m]) /\ s[m].t = t
    BY <1>3, <1>4, <1>6 DEF LastOf
  <1> QED
    BY <1>5, <1>7

(* The last sample of a timestamp has the largest value. *)
InAppendOrder(s) == \A i, j \in DOMAIN s : i < j /\ s[i].t = s[j].t => s[i].v < s[j].v

LEMMA LastIsLargest ==
    ASSUME NEW s \in Seq(Sample), InAppendOrder(s), NEW x, LastOf(s, x)
    PROVE  \A y \in ToSet(s) : y.t = x.t => y.v <= x.v
  <1>1. PICK n \in Nat : n = Len(s) /\ DOMAIN s = 1..n
    BY LenProperties
  <1>2. PICK i \in 1..n : s[i] = x /\ \A j \in 1..n : i < j => s[j].t # x.t
    BY <1>1 DEF LastOf
  <1>3. \A j \in 1..n : s[j].v \in Nat
    <2>1. \A y \in Sample : y.v \in Nat
      BY BlocksConstants DEF Sample
    <2> QED
      BY <1>1, <2>1, SampleTimes
  <1>4. ASSUME NEW j \in 1..n, s[j].t = x.t
        PROVE  s[j].v <= x.v
    <2>1. CASE j = i
      BY <1>2, <1>3, <2>1
    <2>2. CASE j < i
      <3>1. s[j].v < s[i].v
        BY <1>1, <1>2, <1>4, <2>2 DEF InAppendOrder
      <3> QED
        BY <1>2, <1>3, <3>1
    <2> QED
      BY <1>2, <1>4, <2>1, <2>2
  <1> QED
    BY <1>1, <1>4 DEF ToSet

(* The series of an index, each with its own labels. *)
GoodIndex(index) ==
    /\ \A s \in index : IsSeries(s)
    /\ \A s1, s2 \in index : s1.labels = s2.labels => s1 = s2

LEMMA NumberedIs ==
    ASSUME NEW c
    PROVE  Numbered(c) <=> InAppendOrder(Samples(c))
  <1> HIDE DEF Samples
  <1> QED
    BY DEF Numbered, InAppendOrder

LEMMA SeriesSamples ==
    ASSUME NEW s, IsSeries(s)
    PROVE  /\ Samples(s.chunks) \in Seq(Sample) /\ Samples(s.chunks) # <<>>
           /\ InAppendOrder(Samples(s.chunks))
  <1>1. /\ s.chunks \in Seq(Seq(Sample)) /\ s.chunks # <<>> /\ IsChunks(s.chunks)
        /\ Numbered(s.chunks)
    BY DEF IsSeries, IsChunks
  <1>2. Samples(s.chunks) \in Seq(Sample)
    BY <1>1, FlattenType, Zenon DEF Samples
  <1>3. Last(Last(s.chunks)) \in ToSet(Samples(s.chunks))
    BY <1>1, LastSample
  <1>4. Samples(s.chunks) # <<>>
    <2>1. ToSet(<<>>) = {}
      BY DEF ToSet
    <2> QED
      BY <1>3, <2>1, Zenon
  <1>5. InAppendOrder(Samples(s.chunks))
    BY <1>1, NumberedIs, Zenon
  <1> QED
    BY <1>2, <1>4, <1>5

(* What an index has for the labels l. *)
DataOf(index, l) ==
    LET found == {s \in index : s.labels = l}
    IN IF found = {} THEN <<>> ELSE Samples((CHOOSE s \in found : TRUE).chunks)

LEMMA DataOfSeries ==
    ASSUME NEW index, GoodIndex(index), NEW s \in index
    PROVE  DataOf(index, s.labels) = Samples(s.chunks)
  <1> DEFINE found == {r \in index : r.labels = s.labels}
  <1>1. s \in found /\ \A r \in found : r = s
    BY DEF GoodIndex
  <1>2. DataOf(index, s.labels)
          = IF found = {} THEN <<>> ELSE Samples((CHOOSE r \in found : TRUE).chunks)
    BY Zenon DEF DataOf
  <1> HIDE DEF found
  <1>3. found # {}
    BY <1>1
  <1>4. (CHOOSE r \in found : TRUE) \in found
    BY <1>1, Zenon
  <1> QED
    BY <1>1, <1>2, <1>3, <1>4, Zenon

LEMMA DataOfIndex ==
    ASSUME NEW index, GoodIndex(index), NEW l
    PROVE  /\ DataOf(index, l) \in Seq(Sample) /\ InAppendOrder(DataOf(index, l))
           /\ \A x : x \in ToSet(DataOf(index, l))
                       <=> \E s \in index : s.labels = l /\ x \in ToSet(Samples(s.chunks))
  <1>1. CASE \E s \in index : s.labels = l
    <2>1. PICK s \in index : s.labels = l
      BY <1>1
    <2>2. DataOf(index, l) = Samples(s.chunks)
      BY <2>1, DataOfSeries, Zenon
    <2>3. IsSeries(s) /\ \A r \in index : r.labels = l => r = s
      BY <2>1 DEF GoodIndex
    <2>4. DataOf(index, l) \in Seq(Sample) /\ InAppendOrder(DataOf(index, l))
      BY <2>2, <2>3, SeriesSamples, Zenon
    <2> QED
      BY <2>1, <2>2, <2>3, <2>4, Zenon
  <1>2. CASE ~\E s \in index : s.labels = l
    <2>1. DataOf(index, l) = <<>>
      BY <1>2 DEF DataOf
    <2>2. <<>> \in Seq(Sample) /\ ToSet(<<>>) = {} /\ InAppendOrder(<<>>)
      BY DEF ToSet, InAppendOrder
    <2> QED
      BY <1>2, <2>1, <2>2, Zenon
  <1> QED
    BY <1>1, <1>2

-----------------------------------------------------------------------------
(* The merge of the inputs of a compaction.                                *)

InputsGood(from, n) ==
    /\ n \in Nat /\ DOMAIN from = 1..n
    /\ \A i \in 1..n : GoodIndex(disk[from[i]].index)

(* What the inputs have for the labels l, and what is kept of it. *)
Parts(from, l) == [i \in DOMAIN from |-> DataOf(disk[from[i]].index, l)]

Kept(from, l) == Collapsed(StableSorted(Collected(from, l)))

LEMMA PartsType ==
    ASSUME NEW from, NEW n, InputsGood(from, n), NEW l
    PROVE  /\ Parts(from, l) \in Seq(Seq(Sample)) /\ Len(Parts(from, l)) = n
           /\ DOMAIN Parts(from, l) = 1..n
           /\ \A i \in 1..n : Parts(from, l)[i] = DataOf(disk[from[i]].index, l)
           /\ Collected(from, l) = FlattenSeq(Parts(from, l))
  <1>1. n \in Nat /\ DOMAIN from = 1..n
    BY DEF InputsGood
  <1>2. PICK S : S = Seq(Sample)
    OBVIOUS
  <1>3. \A i \in 1..n : DataOf(disk[from[i]].index, l) \in S
    BY <1>2, DataOfIndex, Zenon DEF InputsGood
  <1>4. PICK p : p = Parts(from, l)
    OBVIOUS
  <1>5. /\ DOMAIN p = 1..n /\ p = [i \in 1..n |-> p[i]]
        /\ \A i \in 1..n : p[i] = DataOf(disk[from[i]].index, l)
    BY <1>1, <1>4 DEF Parts
  <1>6. p \in [1..n -> S]
    BY <1>3, <1>5
  <1>7. p \in Seq(S) /\ Len(p) = n
    BY <1>1, <1>6
  <1>8. Collected(from, l) = FlattenSeq(Parts(from, l))
    BY DEF Collected, Parts, DataOf
  <1> QED
    BY <1>2, <1>4, <1>5, <1>7, <1>8, Zenon

LEMMA LastIsThere ==
    ASSUME NEW s, NEW x, LastOf(s, x)
    PROVE  x \in ToSet(s) /\ Has(s, x.t)
  BY DEF LastOf, ToSet, Has

LEMMA ThereHas ==
    ASSUME NEW s, NEW t
    PROVE  Has(s, t) <=> \E x \in ToSet(s) : x.t = t
  BY DEF ToSet, Has

(* Of each timestamp the last sample of the last input that has it is kept. *)
LEMMA KeptIs ==
    ASSUME NEW from, NEW n, InputsGood(from, n), NEW l
    PROVE  /\ Kept(from, l) \in Seq(Sample) /\ Increasing(Kept(from, l))
           /\ \A x \in Sample : x \in ToSet(Kept(from, l)) <=> LastAmong(Parts(from, l), n, x)
  <1>1. PICK p \in Seq(Seq(Sample)) : p = Parts(from, l) /\ Len(p) = n
    BY PartsType, Zenon
  <1>2. PICK c \in Seq(Sample) : c = Collected(from, l) /\ c = FlattenSeq(p)
    BY <1>1, PartsType, FlattenType, Zenon
  <1>3. PICK s \in Seq(Sample) : /\ s = StableSorted(c) /\ Sorted(s)
                                 /\ \A x \in Sample : LastOf(s, x) <=> LastOf(c, x)
    BY StableSortedSorts, Zenon
  <1>4. /\ Collapsed(s) \in Seq(Sample) /\ Increasing(Collapsed(s))
        /\ \A x : x \in ToSet(Collapsed(s)) <=> LastOf(s, x)
    BY <1>3, CollapsedKeepsLast, Zenon
  <1>5. \A x \in Sample : LastOf(c, x) <=> LastAmong(p, n, x)
    BY <1>1, <1>2, FlattenLast, Zenon
  <1>6. Kept(from, l) = Collapsed(s)
    BY <1>2, <1>3, Zenon DEF Kept
  <1> QED
    BY <1>1, <1>3, <1>4, <1>5, <1>6, Zenon

LEMMA ToSetType ==
    ASSUME NEW S, NEW s \in Seq(S), NEW x \in ToSet(s)
    PROVE  x \in S
  BY LenProperties, ElementOfSeq DEF ToSet

LEMMA KeptHas ==
    ASSUME NEW from, NEW n, InputsGood(from, n), NEW l, NEW t
    PROVE  Has(Kept(from, l), t) <=> \E i \in 1..n : Has(DataOf(disk[from[i]].index, l), t)
  <1>0. PICK p : p = Parts(from, l)
    OBVIOUS
  <1>1. /\ p \in Seq(Seq(Sample)) /\ Len(p) = n /\ DOMAIN p = 1..n
        /\ Collected(from, l) = FlattenSeq(p)
        /\ \A i \in 1..n : p[i] = DataOf(disk[from[i]].index, l)
    BY <1>0, PartsType, Zenon
  <1>2. PICK k \in Seq(Sample) :
          k = Kept(from, l) /\ \A x \in Sample : x \in ToSet(k) <=> LastAmong(p, n, x)
    BY <1>0, KeptIs, Zenon
  <1>3. ASSUME Has(k, t)
        PROVE  \E i \in 1..n : Has(p[i], t)
    <2>1. PICK x \in ToSet(k) : x.t = t
      BY <1>3, ThereHas, Zenon
    <2>2. x \in Sample
      BY <2>1, ToSetType, Zenon
    <2>3. PICK i \in 1..n : LastOf(p[i], x)
      BY <1>2, <2>2, Zenon DEF LastAmong
    <2> QED
      BY <2>1, <2>3, LastIsThere, Zenon
  <1>4. ASSUME NEW i \in 1..n, Has(p[i], t)
        PROVE  Has(k, t)
    <2>1. PICK c \in Seq(Sample) : c = FlattenSeq(p)
      BY <1>1, FlattenType, Zenon
    <2>2. Has(c, t)
      BY <1>1, <1>4, <2>1, FlattenHas, Zenon
    <2>3. PICK x \in Sample : x.t = t /\ LastOf(c, x)
      BY <2>2, HasLast, Zenon
    <2>4. LastAmong(p, n, x)
      BY <1>1, <2>1, <2>3, FlattenLast, Zenon
    <2>5. x \in ToSet(k)
      BY <1>2, <2>4, Zenon
    <2> QED
      BY <2>3, <2>5, ThereHas, Zenon
  <1> QED
    BY <1>1, <1>2, <1>3, <1>4, Zenon

LEMMA IncreasingIsSorted ==
    ASSUME NEW s \in Seq(Sample), Increasing(s)
    PROVE  Sorted(s) /\ InAppendOrder(s)
  <1>1. PICK n \in Nat : n = Len(s) /\ DOMAIN s = 1..n
    BY LenProperties
  <1>2. \A i \in 1..n : s[i].t \in Nat
    BY <1>1, SampleTimes
  <1>3. \A i, j \in 1..n : i < j => s[i].t < s[j].t
    BY <1>1 DEF Increasing
  <1>4. \A i, j \in 1..n : i <= j => i < j \/ i = j
    OBVIOUS
  <1>5. Sorted(s)
    <2> SUFFICES ASSUME NEW i \in 1..n, NEW j \in 1..n, i <= j
                 PROVE  s[i].t <= s[j].t
      BY <1>1 DEF Sorted
    <2> QED
      BY <1>2, <1>3, <1>4
  <1>6. InAppendOrder(s)
    <2> SUFFICES ASSUME NEW i \in 1..n, NEW j \in 1..n, i < j, s[i].t = s[j].t
                 PROVE  FALSE
      BY <1>1 DEF InAppendOrder
    <2> QED
      BY <1>2, <1>3
  <1> QED
    BY <1>5, <1>6

(* The labels of some series of some input. *)
Labelled(from, n, l) ==
    DOMAIN l # {} /\ \E i \in 1..n : \E s \in disk[from[i]].index : s.labels = l

LEMMA MergedIs ==
    ASSUME NEW from, NEW n, InputsGood(from, n)
    PROVE  /\ GoodIndex(Merged(from))
           /\ \A s \in Merged(from) :
                Labelled(from, n, s.labels) /\ Samples(s.chunks) = Kept(from, s.labels)
           /\ \A l : Labelled(from, n, l) => \E s \in Merged(from) : s.labels = l
  <1> DEFINE L == UNION {all_postings(disk[from[i]]) : i \in DOMAIN from}
             M(l) == [labels |-> l, chunks |-> Rechunked(Kept(from, l))]
  <1>1. DOMAIN from = 1..n
    BY DEF InputsGood
  <1>2. \A l : l \in L <=> Labelled(from, n, l)
    BY <1>1 DEF all_postings, Labels, Labelled
  <1>3. \A s : s \in Merged(from) <=> \E l \in L : s = M(l)
    BY DEF Merged, Kept
  <1> HIDE DEF L
  <1>4. ASSUME NEW l, Labelled(from, n, l)
        PROVE  IsSeries(M(l)) /\ Samples(M(l).chunks) = Kept(from, l)
    <2>1. PICK k \in Seq(Sample) : k = Kept(from, l) /\ Increasing(k)
      BY KeptIs, Zenon
    <2>2. Sorted(k) /\ InAppendOrder(k)
      BY <2>1, IncreasingIsSorted, Zenon
    <2>3. PICK c : c = Rechunked(k) /\ IsChunks(c) /\ Samples(c) = k
      BY <2>2, RechunkedKeeps, Zenon
    <2>4. M(l) = [labels |-> l, chunks |-> c] /\ M(l).labels = l /\ M(l).chunks = c
      BY <2>1, <2>3
    <2>5. PICK i \in 1..n : \E s \in disk[from[i]].index : s.labels = l
      BY <1>4 DEF Labelled
    <2>6. PICK s \in disk[from[i]].index : s.labels = l
      BY <2>5
    <2>7. GoodIndex(disk[from[i]].index) /\ IsSeries(s)
      BY <2>5, <2>6 DEF InputsGood, GoodIndex
    <2>8. l \in LabelSets
      BY <2>6, <2>7 DEF IsSeries
    <2>9. c # <<>>
      <3>1. PICK q \in Seq(Sample) : q = Samples(s.chunks) /\ q # <<>>
        BY <2>7, SeriesSamples, Zenon
      <3>2. 1 \in DOMAIN q
        BY <3>1, LenProperties, EmptySeq
      <3>3. Has(q, q[1].t)
        BY <3>2 DEF Has
      <3>4. DataOf(disk[from[i]].index, l) = q
        BY <2>6, <2>7, <3>1, DataOfSeries, Zenon
      <3>5. Has(k, q[1].t)
        BY <2>1, <3>3, <3>4, KeptHas, Zenon
      <3>6. k # <<>>
        BY <3>5 DEF Has
      <3> QED
        BY <2>3, <3>6, FlattenEmpty, Zenon DEF Samples
    <2>10. Numbered(c)
      BY <2>2, <2>3, NumberedIs, Zenon
    <2>11. IsSeries(M(l))
      <3> HIDE DEF M
      <3> QED
        BY <2>3, <2>4, <2>8, <2>9, <2>10, Zenon DEF IsSeries
    <2> QED
      BY <2>1, <2>3, <2>4, <2>11, Zenon
  <1>5. \A l : M(l).labels = l
    OBVIOUS
  <1> HIDE DEF M
  <1>6. \A s \in Merged(from) : s = M(s.labels) /\ Labelled(from, n, s.labels)
    <2> SUFFICES ASSUME NEW s \in Merged(from)
                 PROVE  s = M(s.labels) /\ Labelled(from, n, s.labels)
      OBVIOUS
    <2>1. PICK l \in L : s = M(l)
      BY <1>3
    <2> QED
      BY <1>2, <1>5, <2>1
  <1>7. GoodIndex(Merged(from))
    <2>1. \A s \in Merged(from) : IsSeries(s)
      BY <1>4, <1>6, Zenon
    <2>2. \A s1, s2 \in Merged(from) : s1.labels = s2.labels => s1 = s2
      BY <1>6, Zenon
    <2> QED
      BY <2>1, <2>2, Zenon DEF GoodIndex
  <1>8. ASSUME NEW s \in Merged(from)
        PROVE  Labelled(from, n, s.labels) /\ Samples(s.chunks) = Kept(from, s.labels)
    BY <1>4, <1>6, Zenon
  <1>9. ASSUME NEW l, Labelled(from, n, l)
        PROVE  \E s \in Merged(from) : s.labels = l
    <2>1. M(l) \in Merged(from)
      BY <1>2, <1>3, <1>9
    <2> QED
      BY <1>5, <2>1
  <1> QED
    BY <1>7, <1>8, <1>9

(* A series, by its labels, with some sample at time t. *)
Stamp(l, t) == [labels |-> l, t |-> t]

LEMMA StampsAre ==
    ASSUME NEW series
    PROVE  \A x : x \in Stamps(series)
             <=> \E s \in series : \E y \in ToSet(Samples(s.chunks)) : x = Stamp(s.labels, y.t)
  <1>1. \A x : x \in SamplesOf(series)
          <=> \E s \in series : \E y \in ToSet(Samples(s.chunks)) :
                x = [labels |-> s.labels, t |-> y.t, v |-> y.v]
    BY DEF SamplesOf
  <1>2. \A x : x \in Stamps(series) <=> \E y \in SamplesOf(series) : x = Stamp(y.labels, y.t)
    BY DEF Stamps, Stamp
  <1>3. ASSUME NEW x \in Stamps(series)
        PROVE  \E s \in series : \E y \in ToSet(Samples(s.chunks)) : x = Stamp(s.labels, y.t)
    <2>1. PICK z \in SamplesOf(series) : x = Stamp(z.labels, z.t)
      BY <1>2, <1>3, Zenon
    <2>2. PICK s \in series : \E y \in ToSet(Samples(s.chunks)) :
            z = [labels |-> s.labels, t |-> y.t, v |-> y.v]
      BY <1>1, <2>1, Zenon
    <2>3. PICK y \in ToSet(Samples(s.chunks)) : z = [labels |-> s.labels, t |-> y.t, v |-> y.v]
      BY <2>2, Zenon
    <2>4. z.labels = s.labels /\ z.t = y.t
      BY <2>3
    <2> QED
      BY <2>1, <2>4, Zenon
  <1>4. ASSUME NEW s \in series, NEW y \in ToSet(Samples(s.chunks))
        PROVE  Stamp(s.labels, y.t) \in Stamps(series)
    <2>1. PICK z : z = [labels |-> s.labels, t |-> y.t, v |-> y.v]
      OBVIOUS
    <2>2. z \in SamplesOf(series)
      BY <1>1, <2>1, Zenon
    <2>3. z.labels = s.labels /\ z.t = y.t
      BY <2>1
    <2>4. Stamp(s.labels, y.t) = Stamp(z.labels, z.t)
      BY <2>3, Zenon
    <2> QED
      BY <1>2, <2>2, <2>4, Zenon
  <1> QED
    BY <1>3, <1>4

LEMMA StampEqual ==
    ASSUME NEW l, NEW t, NEW k, NEW u
    PROVE  Stamp(l, t) = Stamp(k, u) <=> l = k /\ t = u
  BY DEF Stamp

LEMMA StampsOfIndex ==
    ASSUME NEW index, GoodIndex(index)
    PROVE  /\ \A x \in Stamps(index) : \E l, t : x = Stamp(l, t)
           /\ \A x \in NamedStamps(index) : \E l, t : x = Stamp(l, t)
           /\ \A l, t : Stamp(l, t) \in Stamps(index) <=> Has(DataOf(index, l), t)
           /\ \A l, t : Stamp(l, t) \in NamedStamps(index)
                          <=> DOMAIN l # {} /\ Has(DataOf(index, l), t)
  <1>1. \A l, t : Has(DataOf(index, l), t)
          <=> \E s \in index : s.labels = l /\ \E y \in ToSet(Samples(s.chunks)) : y.t = t
    <2> SUFFICES ASSUME NEW l, NEW t
                 PROVE  Has(DataOf(index, l), t)
          <=> \E s \in index : s.labels = l /\ \E y \in ToSet(Samples(s.chunks)) : y.t = t
      OBVIOUS
    <2>1. \A x : x \in ToSet(DataOf(index, l))
                   <=> \E s \in index : s.labels = l /\ x \in ToSet(Samples(s.chunks))
      BY DataOfIndex, Zenon
    <2>2. Has(DataOf(index, l), t) <=> \E x \in ToSet(DataOf(index, l)) : x.t = t
      BY ThereHas, Zenon
    <2> QED
      BY <2>1, <2>2
  <1> DEFINE named == {s \in index : DOMAIN s.labels # {}}
  <1>2. \A s : s \in named <=> s \in index /\ DOMAIN s.labels # {}
    OBVIOUS
  <1>3. NamedStamps(index) = Stamps(named)
    BY DEF NamedStamps
  <1> HIDE DEF named
  <1>4. \A x : x \in Stamps(named)
          <=> \E s \in named : \E y \in ToSet(Samples(s.chunks)) : x = Stamp(s.labels, y.t)
    BY StampsAre, Zenon
  <1>5. \A x : x \in Stamps(index)
          <=> \E s \in index : \E y \in ToSet(Samples(s.chunks)) : x = Stamp(s.labels, y.t)
    BY StampsAre, Zenon
  <1>6. \A l, t : Stamp(l, t) \in Stamps(index) <=> Has(DataOf(index, l), t)
    BY <1>1, <1>5, StampEqual
  <1>7. \A l, t : Stamp(l, t) \in NamedStamps(index)
                    <=> DOMAIN l # {} /\ Has(DataOf(index, l), t)
    BY <1>1, <1>2, <1>3, <1>4, StampEqual
  <1>8. \A x \in Stamps(index) : \E l, t : x = Stamp(l, t)
    BY <1>5
  <1>9. \A x \in NamedStamps(index) : \E l, t : x = Stamp(l, t)
    BY <1>3, <1>4
  <1> QED
    BY <1>6, <1>7, <1>8, <1>9

(* A merge hands on every timestamp of every series that has a label. *)
LEMMA MergedStamps ==
    ASSUME NEW from, NEW n, InputsGood(from, n)
    PROVE  \A x : x \in NamedStamps(Merged(from))
             <=> \E i \in 1..n : x \in NamedStamps(disk[from[i]].index)
  <1>1. GoodIndex(Merged(from)) /\ \A i \in 1..n : GoodIndex(disk[from[i]].index)
    BY MergedIs, Zenon DEF InputsGood
  <1>2. ASSUME NEW l, NEW t, DOMAIN l # {}
        PROVE  Has(DataOf(Merged(from), l), t) <=> \E i \in 1..n : Has(DataOf(disk[from[i]].index, l), t)
    <2>1. CASE Labelled(from, n, l)
      <3>1. PICK s \in Merged(from) : s.labels = l /\ Samples(s.chunks) = Kept(from, l)
        BY <2>1, MergedIs, Zenon
      <3>2. DataOf(Merged(from), l) = Kept(from, l)
        BY <1>1, <3>1, DataOfSeries, Zenon
      <3> QED
        BY <3>2, KeptHas, Zenon
    <2>2. CASE ~Labelled(from, n, l)
      <3>1. ~\E s \in Merged(from) : s.labels = l
        BY <2>2, MergedIs, Zenon
      <3>2. \A i \in 1..n : ~\E s \in disk[from[i]].index : s.labels = l
        BY <1>2, <2>2 DEF Labelled
      <3>3. \A index : (~\E s \in index : s.labels = l) => ~Has(DataOf(index, l), t)
        <4>1. ~Has(<<>>, t)
          BY DEF Has
        <4>2. \A index : (~\E s \in index : s.labels = l) => DataOf(index, l) = <<>>
          BY DEF DataOf
        <4> QED
          BY <4>1, <4>2, Zenon
      <3> QED
        BY <3>1, <3>2, <3>3, Zenon
    <2> QED
      BY <2>1, <2>2
  <1>3. ASSUME NEW l, NEW t
        PROVE  Stamp(l, t) \in NamedStamps(Merged(from))
                 <=> \E i \in 1..n : Stamp(l, t) \in NamedStamps(disk[from[i]].index)
    <2>1. Stamp(l, t) \in NamedStamps(Merged(from))
            <=> DOMAIN l # {} /\ Has(DataOf(Merged(from), l), t)
      BY <1>1, StampsOfIndex, Zenon
    <2>2. \A i \in 1..n : Stamp(l, t) \in NamedStamps(disk[from[i]].index)
            <=> DOMAIN l # {} /\ Has(DataOf(disk[from[i]].index, l), t)
      BY <1>1, StampsOfIndex, Zenon
    <2>3. CASE DOMAIN l # {}
      BY <1>2, <2>1, <2>2, <2>3, Zenon
    <2>4. CASE DOMAIN l = {}
      BY <2>1, <2>2, <2>4, Zenon
    <2> QED
      BY <2>3, <2>4, Zenon
  <1>4. \A x \in NamedStamps(Merged(from)) : \E l, t : x = Stamp(l, t)
    BY <1>1, StampsOfIndex, Zenon
  <1>5. \A i \in 1..n : \A x \in NamedStamps(disk[from[i]].index) : \E l, t : x = Stamp(l, t)
    BY <1>1, StampsOfIndex, Zenon
  <1>6. ASSUME NEW x \in NamedStamps(Merged(from))
        PROVE  \E i \in 1..n : x \in NamedStamps(disk[from[i]].index)
    <2>1. PICK l, t : x = Stamp(l, t)
      BY <1>4
    <2> QED
      BY <1>3, <1>6, <2>1, Zenon
  <1>7. ASSUME NEW i \in 1..n, NEW x \in NamedStamps(disk[from[i]].index)
        PROVE  x \in NamedStamps(Merged(from))
    <2>1. PICK l, t : x = Stamp(l, t)
      BY <1>5
    <2> QED
      BY <1>3, <1>7, <2>1, Zenon
  <1> QED
    BY <1>6, <1>7

-----------------------------------------------------------------------------
(* The inductive invariant, as a relation between the values of the        *)
(* variables, so that it reads the same before and after a step.           *)

HeadRight(h, a) ==
    /\ h = [l \in LabelSets |-> h[l]]
    /\ \A l \in LabelSets :
         /\ IsChunks(h[l]) /\ Numbered(h[l])
         /\ \A x \in ToSet(Samples(h[l])) : x.v <= a

GivenRight(g, c) == \A d \in 1..c : GoodIndex(g[d])

CoversBy(g, series, sources) ==
    \A u \in sources : NamedStamps(g[u]) \subseteq NamedStamps(series)

MetaFits(meta, g, d) ==
    /\ meta.level >= 1 /\ meta.min_time \in Nat /\ meta.max_time \in Nat
    /\ \A s \in g[d] : \A i \in DOMAIN s.chunks :
         /\ meta.min_time <= min_time(s.chunks[i])
         /\ max_time(s.chunks[i]) <= meta.max_time
    /\ CoversBy(g, g[d], meta.sources)

DirRight(b, g, c, d) ==
    /\ b.files \subseteq {"chunks", "index", "meta.json", "tombstones"}
    /\ "chunks" \in b.files
    /\ "index" \in b.files \/ b.index = {}
    /\ b.meta.level \in Nat /\ b.meta.sources \subseteq 1..c
    /\ Openable(b) => MetaFits(b.meta, g, d)

DirsRight(dk, g, c) == \A d \in DOMAIN dk : DirRight(dk[d], g, c, d)

OpenedIn(dk) == {d \in DOMAIN dk : Openable(dk[d])}

PostingsOf(index) == {l \in {s.labels : s \in index} : DOMAIN l # {}}

MergeOf(dk, from) ==
    {[labels |-> l,
      chunks |-> Rechunked(Collapsed(StableSorted(
                   FlattenSeq([i \in DOMAIN from |-> DataOf(dk[from[i]].index, l)]))))] :
        l \in UNION {PostingsOf(dk[from[i]].index) : i \in DOMAIN from}}

MergeRight(o, dk, g, c) ==
    /\ o.from \in Seq(OpenedIn(dk) \ {o.dir})
    /\ o.series = MergeOf(dk, o.from)
    /\ o.level \in Nat \ {0}
    /\ o.sources \subseteq 1..c /\ CoversBy(g, o.series, o.sources)

CallRight(o, dk, g, c, sup) ==
    o # Idle =>
        /\ o.dir \notin sup
        /\ o.step \in {"patch", "verify"} => o.from # <<>>
        /\ o.from # <<>> => MergeRight(o, dk, g, c)

UseOf(o) == IF o = Idle THEN {} ELSE {o.dir}

ReplacedIn(sup, dk, g, use) ==
    /\ sup \subseteq OpenedIn(dk)
    /\ \A d \in sup : \E e \in OpenedIn(dk) \ (sup \cup use) : CoversBy(g, g[e], {d})

LEMMA SeriesForm ==
    /\ SeriesInOrder <=> HeadRight(head, appended) /\ GivenRight(given, created)
    /\ SeriesInOrder' <=> HeadRight(head', appended') /\ GivenRight(given', created')
  <1>1. SeriesInOrder <=> HeadRight(head, appended) /\ GivenRight(given, created)
    BY Zenon DEF SeriesInOrder, HeadRight, GivenRight, GoodIndex
  <1>2. SeriesInOrder' <=> HeadRight(head', appended') /\ GivenRight(given', created')
    BY Zenon DEF SeriesInOrder, HeadRight, GivenRight, GoodIndex
  <1> QED
    BY <1>1, <1>2

LEMMA DirsForm ==
    /\ DirsInOrder <=> /\ created <= MaxBlocks /\ appended \in 0..MaxAppends
                       /\ DirsRight(disk, given, created)
    /\ DirsInOrder' <=> /\ created' <= MaxBlocks /\ appended' \in 0..MaxAppends
                        /\ DirsRight(disk', given', created')
  <1>1. DirsInOrder <=> /\ created <= MaxBlocks /\ appended \in 0..MaxAppends
                        /\ DirsRight(disk, given, created)
    BY Zenon DEF DirsInOrder, DirsRight, DirRight, MetaRight, MetaFits, Covers, CoversBy
  <1>2. DirsInOrder' <=> /\ created' <= MaxBlocks /\ appended' \in 0..MaxAppends
                         /\ DirsRight(disk', given', created')
    BY Zenon DEF DirsInOrder, DirsRight, DirRight, MetaRight, MetaFits, Covers, CoversBy
  <1> QED
    BY <1>1, <1>2

LEMMA OpenedForm == Opened = OpenedIn(disk) /\ Opened' = OpenedIn(disk')
  BY DEF Opened, OpenedIn

LEMMA MergeForm ==
    /\ Merged(op.from) = MergeOf(disk, op.from)
    /\ Merged(op.from)' = MergeOf(disk', op'.from)
  <1>1. Merged(op.from) = MergeOf(disk, op.from)
    BY DEF Merged, MergeOf, Collected, DataOf, all_postings, Labels, PostingsOf
  <1>2. Merged(op.from)' = MergeOf(disk', op'.from)
    BY DEF Merged, MergeOf, Collected, DataOf, all_postings, Labels, PostingsOf
  <1> QED
    BY <1>1, <1>2

LEMMA CallForm ==
    /\ MergeInStep <=> CallRight(op, disk, given, created, superseded)
    /\ MergeInStep' <=> CallRight(op', disk', given', created', superseded')
  <1>1. MergeInStep <=> CallRight(op, disk, given, created, superseded)
    BY MergeForm, OpenedForm, Zenon DEF MergeInStep, CallRight, MergeRight, Covers, CoversBy
  <1>2. MergeInStep' <=> CallRight(op', disk', given', created', superseded')
    BY MergeForm, OpenedForm, Zenon DEF MergeInStep, CallRight, MergeRight, Covers, CoversBy, Idle
  <1> QED
    BY <1>1, <1>2

LEMMA ReplacedForm ==
    /\ Replaced <=> ReplacedIn(superseded, disk, given, UseOf(op))
    /\ Replaced' <=> ReplacedIn(superseded', disk', given', UseOf(op'))
  <1>1. InUse = UseOf(op) /\ InUse' = UseOf(op')
    BY DEF InUse, UseOf, Idle
  <1>2. Replaced <=> ReplacedIn(superseded, disk, given, UseOf(op))
    BY <1>1, OpenedForm, Zenon DEF Replaced, ReplacedIn, Covers, CoversBy
  <1>3. Replaced' <=> ReplacedIn(superseded', disk', given', UseOf(op'))
    BY <1>1, OpenedForm, Zenon DEF Replaced, ReplacedIn, Covers, CoversBy
  <1> QED
    BY <1>2, <1>3

(* The same inputs give the same merge. *)
LEMMA SameMerge ==
    ASSUME NEW dk, NEW e, NEW from, \A i \in DOMAIN from : dk[from[i]].index = e[from[i]].index
    PROVE  MergeOf(dk, from) = MergeOf(e, from)
  <1>1. UNION {PostingsOf(dk[from[i]].index) : i \in DOMAIN from}
          = UNION {PostingsOf(e[from[i]].index) : i \in DOMAIN from}
    OBVIOUS
  <1>2. \A l : [i \in DOMAIN from |-> DataOf(dk[from[i]].index, l)]
                 = [i \in DOMAIN from |-> DataOf(e[from[i]].index, l)]
    OBVIOUS
  <1>3. PICK L : /\ L = UNION {PostingsOf(dk[from[i]].index) : i \in DOMAIN from}
                 /\ L = UNION {PostingsOf(e[from[i]].index) : i \in DOMAIN from}
    BY <1>1, Zenon
  <1> DEFINE F(l) == FlattenSeq([i \in DOMAIN from |-> DataOf(dk[from[i]].index, l)])
             G(l) == FlattenSeq([i \in DOMAIN from |-> DataOf(e[from[i]].index, l)])
             C(s) == Rechunked(Collapsed(StableSorted(s)))
  <1>4. \A l : F(l) = G(l)
    BY <1>2, Zenon
  <1>5. MergeOf(dk, from) = {[labels |-> l, chunks |-> C(F(l))] : l \in L}
    BY <1>3, Zenon DEF MergeOf
  <1>6. MergeOf(e, from) = {[labels |-> l, chunks |-> C(G(l))] : l \in L}
    BY <1>3, Zenon DEF MergeOf
  <1> HIDE DEF F, G, C
  <1>7. {[labels |-> l, chunks |-> C(F(l))] : l \in L} = {[labels |-> l, chunks |-> C(G(l))] : l \in L}
    BY <1>4
  <1> QED
    BY <1>5, <1>6, <1>7, Zenon

(* A block that can be opened. *)
LEMMA OpenedFacts ==
    ASSUME FilesInOrder, MergesKeepAll, NEW d \in OpenedIn(disk)
    PROVE  /\ d \in DOMAIN disk /\ d \in 1..created
           /\ disk[d].index = given[d] /\ GoodIndex(given[d])
           /\ DirRight(disk[d], given, created, d) /\ MetaFits(disk[d].meta, given, d)
  <1>1. d \in DOMAIN disk /\ Openable(disk[d])
    BY DEF OpenedIn
  <1>2. d \in 1..created /\ disk[d].index = given[d]
    BY <1>1 DEF FilesInOrder, Directories, IndexAfterChunks, Openable
  <1>3. DirRight(disk[d], given, created, d)
    BY <1>1, DirsForm DEF MergesKeepAll, DirsRight
  <1>4. GoodIndex(given[d])
    BY <1>2, SeriesForm DEF MergesKeepAll, GivenRight
  <1>5. MetaFits(disk[d].meta, given, d)
    BY <1>1, <1>3 DEF DirRight
  <1> QED
    BY <1>1, <1>2, <1>3, <1>4, <1>5

LEMMA HeadGood ==
    ASSUME HeadRight(head, appended)
    PROVE  GoodIndex(HeadSeries)
  <1>1. ASSUME NEW s \in HeadSeries
        PROVE  IsSeries(s) /\ s = [labels |-> s.labels, chunks |-> head[s.labels]]
    <2>1. PICK l \in LabelSets : head[l] # <<>> /\ s = [labels |-> l, chunks |-> head[l]]
      BY DEF HeadSeries
    <2>2. s.labels = l /\ s.chunks = head[l]
      BY <2>1
    <2>3. IsChunks(head[l]) /\ Numbered(head[l])
      BY DEF HeadRight
    <2> QED
      BY <2>1, <2>2, <2>3, Zenon DEF IsSeries
  <1>2. \A s1, s2 \in HeadSeries : s1.labels = s2.labels => s1 = s2
    BY <1>1, Zenon
  <1> QED
    BY <1>1, <1>2 DEF GoodIndex

LEMMA EmptyChunks == IsChunks(<<>>) /\ Numbered(<<>>) /\ ToSet(Samples(<<>>)) = {}
  <1>1. Samples(<<>>) = <<>>
    BY FlattenEmpty DEF Samples
  <1>2. IsChunks(<<>>)
    BY DEF IsChunks
  <1>3. InAppendOrder(<<>>) /\ ToSet(<<>>) = {}
    BY DEF InAppendOrder, ToSet
  <1> QED
    BY <1>1, <1>2, <1>3, NumberedIs, Zenon

LEMMA InitKeeps ==
    ASSUME Init
    PROVE  MergesKeepAll
  <1>1. /\ head = [l \in LabelSets |-> <<>>] /\ appended = 0 /\ created = 0 /\ disk = <<>>
        /\ op = Idle /\ superseded = {} /\ given = <<>>
    BY DEF Init
  <1>2. HeadRight(head, appended)
    <2>1. \A l \in LabelSets : head[l] = <<>>
      BY <1>1
    <2>2. head = [l \in LabelSets |-> head[l]]
      BY <1>1
    <2>3. \A l \in LabelSets : IsChunks(head[l]) /\ Numbered(head[l]) /\ ToSet(Samples(head[l])) = {}
      BY <2>1, EmptyChunks, Zenon
    <2> QED
      BY <2>2, <2>3, Zenon DEF HeadRight
  <1>3. 1..0 = {} /\ DOMAIN disk = {} /\ 0 <= MaxBlocks /\ 0 \in 0..MaxAppends
    BY <1>1, BlocksConstants
  <1>4. SeriesInOrder
    BY <1>1, <1>2, <1>3, SeriesForm, Zenon DEF GivenRight
  <1>5. DirsInOrder
    BY <1>1, <1>3, DirsForm, Zenon DEF DirsRight
  <1>6. MergeInStep
    BY <1>1, CallForm, Zenon DEF CallRight
  <1>7. Replaced
    BY <1>1, ReplacedForm DEF ReplacedIn
  <1> QED
    BY <1>4, <1>5, <1>6, <1>7 DEF MergesKeepAll

(* The history only grows. *)
LEMMA SameCovers ==
    ASSUME NEW g, NEW h, NEW c, \A u \in 1..c : h[u] = g[u], NEW series, NEW sources,
           sources \subseteq 1..c, CoversBy(g, series, sources)
    PROVE  CoversBy(h, series, sources)
  BY DEF CoversBy

LEMMA SameMeta ==
    ASSUME NEW g, NEW h, NEW c, \A u \in 1..c : h[u] = g[u], NEW meta, NEW d \in 1..c,
           meta.sources \subseteq 1..c, MetaFits(meta, g, d)
    PROVE  MetaFits(meta, h, d)
  <1>1. CoversBy(h, g[d], meta.sources)
    BY SameCovers DEF MetaFits
  <1>2. h[d] = g[d]
    OBVIOUS
  <1> QED
    BY <1>1, <1>2, Zenon DEF MetaFits

LEMMA SameDir ==
    ASSUME NEW g, NEW h, NEW c \in Nat, NEW k \in Nat, c <= k,
           \A u \in 1..c : h[u] = g[u], NEW b, NEW d \in 1..c, DirRight(b, g, c, d)
    PROVE  DirRight(b, h, k, d)
  <1>1. 1..c \subseteq 1..k
    OBVIOUS
  <1>2. b.meta.sources \subseteq 1..c /\ b.meta.sources \subseteq 1..k
    BY <1>1 DEF DirRight
  <1>3. Openable(b) => MetaFits(b.meta, h, d)
    BY <1>2, SameMeta DEF DirRight
  <1> QED
    BY <1>2, <1>3, Zenon DEF DirRight

LEMMA SameReplaced ==
    ASSUME NEW sup, NEW dk, NEW e, NEW g, NEW h, NEW c, NEW use, NEW w,
           \A u \in 1..c : h[u] = g[u], OpenedIn(dk) \subseteq 1..c,
           sup \subseteq OpenedIn(e), OpenedIn(dk) \ use \subseteq OpenedIn(e) \ w,
           ReplacedIn(sup, dk, g, use)
    PROVE  ReplacedIn(sup, e, h, w)
  <1>1. ASSUME NEW d \in sup
        PROVE  \E x \in OpenedIn(e) \ (sup \cup w) : CoversBy(h, h[x], {d})
    <2>1. PICK x \in OpenedIn(dk) \ (sup \cup use) : CoversBy(g, g[x], {d})
      BY DEF ReplacedIn
    <2>2. x \in 1..c /\ d \in 1..c
      BY <2>1 DEF ReplacedIn
    <2>3. h[x] = g[x] /\ h[d] = g[d]
      BY <2>2
    <2>4. CoversBy(h, h[x], {d})
      BY <2>1, <2>3 DEF CoversBy
    <2> QED
      BY <2>1, <2>4
  <1> QED
    BY <1>1 DEF ReplacedIn

-----------------------------------------------------------------------------
(* The steps of a call.                                                    *)

LEMMA StartKeeps ==
    ASSUME FilesInOrder, MergesKeepAll, NEW series, NEW from, NEW level, NEW sources,
           Start(series, from, level, sources), GoodIndex(series),
           from # <<>> => /\ from \in Seq(OpenedIn(disk)) /\ series = MergeOf(disk, from)
                          /\ level \in Nat \ {0} /\ sources \subseteq 1..created
                          /\ CoversBy(given, series, sources)
    PROVE  MergesKeepAll'
  <1>1. PICK c \in Nat : c = created + 1
    BY DEF FilesInOrder, Directories
  <1>2. /\ created \in Nat /\ created < MaxBlocks /\ created' = c
        /\ DOMAIN disk \subseteq 1..created /\ c \notin DOMAIN disk
        /\ op' = [step |-> "chunks", dir |-> c, todo |-> series, series |-> series,
                  from |-> from, level |-> level, sources |-> sources]
        /\ given' = Append(given, series)
        /\ head' = head /\ appended' = appended /\ superseded' = superseded
    BY <1>1 DEF Start, FilesInOrder, Directories
  <1>3. disk' = [x \in DOMAIN disk \cup {c} |-> IF x \in DOMAIN disk THEN disk[x] ELSE NewDir]
    BY <1>1 DEF Start
  <1>4. /\ DOMAIN disk' = DOMAIN disk \cup {c} /\ disk'[c] = NewDir
        /\ \A d \in DOMAIN disk : disk'[d] = disk[d]
    BY <1>2, <1>3
  <1>5. given'[c] = series /\ \A d \in 1..created : given'[d] = given[d]
    BY <1>1, <1>2, GivenGrows DEF FilesInOrder
  <1>6. created <= c /\ c <= MaxBlocks /\ \A d \in 1..c : d = c \/ d \in 1..created
    BY <1>1, <1>2, BlocksConstants
  <1>7. SeriesInOrder'
    <2>1. HeadRight(head, appended) /\ GivenRight(given, created)
      BY SeriesForm DEF MergesKeepAll
    <2>2. GivenRight(given', c)
      BY <1>5, <1>6, <2>1, Zenon DEF GivenRight
    <2> QED
      BY <1>2, <2>1, <2>2, SeriesForm, Zenon
  <1>8. ~Openable(NewDir) /\ DirRight(NewDir, given', c, c)
    <2>1. /\ NewDir.files = {"chunks"} /\ NewDir.index = {}
          /\ NewDir.meta.level = 0 /\ NewDir.meta.sources = {}
      BY DEF NewDir, NoMeta
    <2>2. ~Openable(NewDir)
      BY <2>1 DEF Openable
    <2> QED
      BY <2>1, <2>2 DEF DirRight
  <1>9. DirsInOrder'
    <2>1. DirsRight(disk, given, created) /\ appended \in 0..MaxAppends
      BY DirsForm DEF MergesKeepAll
    <2>2. ASSUME NEW d \in DOMAIN disk
          PROVE  DirRight(disk'[d], given', c, d)
      <3>1. d \in 1..created /\ DirRight(disk[d], given, created, d) /\ disk'[d] = disk[d]
        BY <1>2, <1>4, <2>1, Zenon DEF DirsRight
      <3>2. DirRight(disk[d], given', c, d)
        BY <1>2, <1>5, <1>6, <3>1, SameDir, Zenon
      <3> QED
        BY <3>1, <3>2, Zenon
    <2>3. DirsRight(disk', given', c)
      BY <1>4, <1>8, <2>2, Zenon DEF DirsRight
    <2> QED
      BY <1>2, <1>6, <2>1, <2>3, DirsForm, Zenon
  <1>10. OpenedIn(disk') = OpenedIn(disk) /\ c \notin OpenedIn(disk) /\ OpenedIn(disk) \subseteq 1..created
    BY <1>2, <1>4, <1>8, Zenon DEF OpenedIn
  <1>11. ReplacedIn(superseded, disk, given, UseOf(op)) /\ superseded \subseteq OpenedIn(disk)
    BY ReplacedForm DEF MergesKeepAll, ReplacedIn
  <1>12. Replaced'
    <2>1. UseOf(op') \subseteq {c}
      BY <1>2 DEF UseOf
    <2>2. OpenedIn(disk) \ UseOf(op) \subseteq OpenedIn(disk') \ UseOf(op')
      BY <1>10, <2>1
    <2>3. ReplacedIn(superseded, disk', given', UseOf(op'))
      BY <1>5, <1>10, <1>11, <2>2, SameReplaced
    <2> QED
      BY <1>2, <2>3, ReplacedForm, Zenon
  <1>13. MergeInStep'
    <2>1. PICK o : o = op'
      OBVIOUS
    <2>2. /\ o.step = "chunks" /\ o.dir = c /\ o.series = series
          /\ o.from = from /\ o.level = level /\ o.sources = sources
      BY <1>2, <2>1
    <2>3. c \notin superseded
      BY <1>10, <1>11 DEF ReplacedIn
    <2>4. ASSUME from # <<>>
          PROVE  MergeRight(o, disk', given', c)
      <3>1. from \in Seq(OpenedIn(disk)) /\ level \in Nat \ {0} /\ sources \subseteq 1..created
        BY <2>4
      <3>2. OpenedIn(disk) = OpenedIn(disk') \ {c}
        BY <1>10
      <3>3. from \in Seq(OpenedIn(disk') \ {c})
        BY <3>1, <3>2, Zenon
      <3>4. \A i \in DOMAIN from : disk'[from[i]].index = disk[from[i]].index
        <4>1. \A i \in DOMAIN from : from[i] \in OpenedIn(disk)
          BY <3>1, LenProperties, ElementOfSeq
        <4> QED
          BY <1>4, <4>1, Zenon DEF OpenedIn
      <3>5. MergeOf(disk', from) = MergeOf(disk, from)
        BY <3>4, SameMerge, Zenon
      <3>6. CoversBy(given', series, sources)
        BY <1>5, <2>4, <3>1, SameCovers
      <3>7. sources \subseteq 1..c
        BY <1>1, <1>2, <3>1
      <3> QED
        BY <2>2, <2>4, <3>1, <3>3, <3>5, <3>6, <3>7, Zenon DEF MergeRight
    <2>5. CallRight(o, disk', given', c, superseded)
      <3>1. o.step \notin {"patch", "verify"}
        BY <2>2
      <3> QED
        BY <2>2, <2>3, <2>4, <3>1, Zenon DEF CallRight
    <2> QED
      BY <1>2, <2>1, <2>5, CallForm, Zenon
  <1> QED
    BY <1>7, <1>9, <1>12, <1>13 DEF MergesKeepAll

LEMMA FlushKeeps ==
    ASSUME FilesInOrder, MergesKeepAll, create_from_head
    PROVE  MergesKeepAll'
  <1>1. GoodIndex(HeadSeries)
    BY SeriesForm, HeadGood DEF MergesKeepAll
  <1>2. PICK series : series = HeadSeries
    OBVIOUS
  <1>3. PICK sources : sources = {created + 1}
    OBVIOUS
  <1>4. Start(series, <<>>, 1, sources)
    BY <1>2, <1>3, Zenon DEF create_from_head
  <1> QED
    BY <1>1, <1>2, <1>4, StartKeeps, Zenon

LEMMA InputsAreGood ==
    ASSUME FilesInOrder, MergesKeepAll, NEW n \in Nat, NEW from, DOMAIN from = 1..n,
           \A i \in 1..n : from[i] \in OpenedIn(disk)
    PROVE  InputsGood(from, n)
  <1>1. ASSUME NEW i \in 1..n
        PROVE  GoodIndex(disk[from[i]].index)
    <2>1. from[i] \in OpenedIn(disk)
      OBVIOUS
    <2> QED
      BY <2>1, OpenedFacts, Zenon
  <1> QED
    BY <1>1 DEF InputsGood

(* The merge has what its inputs have, and what they cover. *)
LEMMA MergedCovers ==
    ASSUME FilesInOrder, MergesKeepAll, NEW n \in Nat, NEW from, DOMAIN from = 1..n,
           \A i \in 1..n : from[i] \in OpenedIn(disk), NEW i \in 1..n
    PROVE  /\ NamedStamps(given[from[i]]) \subseteq NamedStamps(Merged(from))
           /\ CoversBy(given, Merged(from), disk[from[i]].meta.sources)
  <1>1. InputsGood(from, n)
    BY InputsAreGood, Zenon
  <1>2. disk[from[i]].index = given[from[i]] /\ MetaFits(disk[from[i]].meta, given, from[i])
    BY OpenedFacts, Zenon
  <1>3. NamedStamps(given[from[i]]) \subseteq NamedStamps(Merged(from))
    BY <1>1, <1>2, MergedStamps, Zenon
  <1>4. CoversBy(given, given[from[i]], disk[from[i]].meta.sources)
    BY <1>2, Zenon DEF MetaFits
  <1>5. CoversBy(given, Merged(from), disk[from[i]].meta.sources)
    BY <1>3, <1>4, Zenon DEF CoversBy
  <1> QED
    BY <1>3, <1>5

LEMMA CompactKeeps ==
    ASSUME FilesInOrder, MergesKeepAll, NEW n \in Nat \ {0}, NEW from \in [1..n -> Opened],
           compact(from)
    PROVE  MergesKeepAll'
  <1>1. DOMAIN from = 1..n /\ \A i \in 1..n : from[i] \in OpenedIn(disk)
    BY OpenedForm
  <1>2. InputsGood(from, n)
    BY <1>1, InputsAreGood, Zenon
  <1>3. PICK series : series = Merged(from)
    OBVIOUS
  <1>4. PICK level : level = 1 + Max({disk[from[i]].meta.level : i \in DOMAIN from})
    OBVIOUS
  <1>5. PICK sources : sources = UNION {disk[from[i]].meta.sources : i \in DOMAIN from}
    OBVIOUS
  <1>6. Start(series, from, level, sources)
    BY <1>3, <1>4, <1>5, Zenon DEF compact
  <1>7. GoodIndex(series)
    BY <1>2, <1>3, MergedIs, Zenon
  <1>8. series = MergeOf(disk, from)
    BY <1>3 DEF Merged, MergeOf, Collected, DataOf, all_postings, Labels, PostingsOf
  <1>9. \A i \in 1..n : disk[from[i]].meta.level \in Nat /\ disk[from[i]].meta.sources \subseteq 1..created
    BY <1>1, OpenedFacts, Zenon DEF DirRight
  <1>10. level \in Nat \ {0}
    <2> DEFINE f == [i \in 1..n |-> disk[from[i]].meta.level]
               S == {disk[from[i]].meta.level : i \in DOMAIN from}
    <2>1. \A i \in 1..n : f[i] \in Nat /\ f[i] = disk[from[i]].meta.level
      BY <1>9
    <2>2. \A y : y \in S <=> \E i \in 1..n : y = f[i]
      BY <1>1, <2>1
    <2>3. level = 1 + Max(S)
      BY <1>4
    <2> HIDE DEF f, S
    <2>4. PICK m \in Nat : (\E i \in 1..n : m = f[i]) /\ \A i \in 1..n : f[i] <= m
      BY <2>1, LargestOf
    <2>5. S \in SUBSET Nat /\ m \in S /\ \A y \in S : y <= m
      BY <2>1, <2>2, <2>4
    <2>6. Max(S) = m
      BY <2>5, LargestIs
    <2> QED
      BY <2>3, <2>6
  <1>11. sources \subseteq 1..created
    BY <1>1, <1>5, <1>9
  <1>12. CoversBy(given, series, sources)
    <2>1. \A i \in 1..n : CoversBy(given, series, disk[from[i]].meta.sources)
      BY <1>1, <1>3, MergedCovers, Zenon
    <2> QED
      BY <1>1, <1>5, <2>1 DEF CoversBy
  <1>13. from \in Seq(OpenedIn(disk))
    BY OpenedForm
  <1> QED
    BY <1>6, <1>7, <1>8, <1>10, <1>11, <1>12, <1>13, StartKeeps, Zenon

(* A step that writes in the directory of the call. *)
LEMMA OwnDir ==
    ASSUME FilesInOrder, MergesKeepAll, op # Idle, NEW b,
           disk' = [disk EXCEPT ![op.dir] = b],
           DirRight(b, given, created, op.dir), created' = created, given' = given
    PROVE  /\ DirsRight(disk', given', created')
           /\ OpenedIn(disk) \ {op.dir} \subseteq OpenedIn(disk')
           /\ \A d \in DOMAIN disk : d # op.dir => disk'[d] = disk[d]
  <1>1. op.dir \in DOMAIN disk /\ disk = [d \in DOMAIN disk |-> disk[d]]
    BY CallShape
  <1>2. /\ DOMAIN disk' = DOMAIN disk /\ disk'[op.dir] = b
        /\ \A d \in DOMAIN disk : d # op.dir => disk'[d] = disk[d]
    BY <1>1
  <1>3. DirsRight(disk, given, created)
    BY DirsForm DEF MergesKeepAll
  <1>4. DirsRight(disk', given', created')
    BY <1>2, <1>3, Zenon DEF DirsRight
  <1>5. OpenedIn(disk) \ {op.dir} \subseteq OpenedIn(disk')
    BY <1>2 DEF OpenedIn
  <1> QED
    BY <1>2, <1>4, <1>5

(* The call goes on with the same inputs. *)
LEMMA CallGoesOn ==
    ASSUME FilesInOrder, MergesKeepAll, op # Idle,
           OpenedIn(disk) \ {op.dir} \subseteq OpenedIn(disk'),
           \A d \in DOMAIN disk : d # op.dir => disk'[d] = disk[d],
           created' = created, given' = given, superseded' = superseded,
           op'.dir = op.dir, op'.series = op.series, op'.from = op.from,
           op'.level = op.level, op'.sources = op.sources,
           op'.step \in {"patch", "verify"} => op.from # <<>>
    PROVE  MergeInStep'
  <1>1. CallRight(op, disk, given, created, superseded)
    BY CallForm DEF MergesKeepAll
  <1>2. op.dir \notin superseded
    BY <1>1 DEF CallRight
  <1>3. ASSUME op.from # <<>>
        PROVE  MergeRight(op', disk', given', created')
    <2>1. MergeRight(op, disk, given, created)
      BY <1>1, <1>3 DEF CallRight
    <2>2. PICK from : from = op.from
      OBVIOUS
    <2>3. from \in Seq(OpenedIn(disk) \ {op.dir})
      BY <2>1, <2>2 DEF MergeRight
    <2>4. from \in Seq(OpenedIn(disk') \ {op.dir})
      <3>1. OpenedIn(disk) \ {op.dir} \subseteq OpenedIn(disk') \ {op.dir}
        OBVIOUS
      <3> QED
        BY <2>3, <3>1, SeqMonotonic
    <2>5. \A i \in DOMAIN from : disk'[from[i]].index = disk[from[i]].index
      <3>1. \A i \in DOMAIN from : from[i] \in OpenedIn(disk) \ {op.dir}
        BY <2>3, LenProperties, ElementOfSeq
      <3> QED
        BY <3>1 DEF OpenedIn
    <2>6. MergeOf(disk', from) = MergeOf(disk, from)
      BY <2>5, SameMerge, SMTT(30)
    <2> QED
      BY <2>1, <2>2, <2>4, <2>6, Zenon DEF MergeRight
  <1>4. CallRight(op', disk', given', created', superseded')
    BY <1>2, <1>3, Zenon DEF CallRight
  <1> QED
    BY <1>4, CallForm

LEMMA OwnDirKeeps ==
    ASSUME FilesInOrder, MergesKeepAll, op # Idle, NEW b,
           disk' = [disk EXCEPT ![op.dir] = b],
           DirRight(b, given, created, op.dir),
           UNCHANGED <<head, appended, created, superseded, given>>,
           \/ op' = Idle
           \/ /\ op'.dir = op.dir /\ op'.series = op.series /\ op'.from = op.from
              /\ op'.level = op.level /\ op'.sources = op.sources
              /\ op'.step \in {"patch", "verify"} => op.from # <<>>
    PROVE  MergesKeepAll'
  <1>1. /\ DirsRight(disk', given', created')
        /\ OpenedIn(disk) \ {op.dir} \subseteq OpenedIn(disk')
        /\ \A d \in DOMAIN disk : d # op.dir => disk'[d] = disk[d]
    BY OwnDir
  <1>2. SeriesInOrder'
    BY SeriesForm DEF MergesKeepAll
  <1>3. DirsInOrder'
    BY <1>1, DirsForm DEF MergesKeepAll
  <1>4. MergeInStep'
    <2>1. CASE op' = Idle
      BY <2>1, CallForm DEF CallRight
    <2>2. CASE op' # Idle
      BY <1>1, <2>2, CallGoesOn
    <2> QED
      BY <2>1, <2>2
  <1>5. Replaced'
    <2>1. ReplacedIn(superseded, disk, given, UseOf(op)) /\ superseded \subseteq OpenedIn(disk)
      BY ReplacedForm DEF MergesKeepAll, ReplacedIn
    <2>2. OpenedIn(disk) \subseteq 1..created
      BY OpenedFacts
    <2>3. UseOf(op) = {op.dir} /\ UseOf(op') \subseteq {op.dir}
      BY DEF UseOf
    <2>4. op.dir \notin superseded
      BY CallForm DEF MergesKeepAll, CallRight
    <2>5. /\ superseded \subseteq OpenedIn(disk')
          /\ OpenedIn(disk) \ UseOf(op) \subseteq OpenedIn(disk') \ UseOf(op')
      BY <1>1, <2>1, <2>3, <2>4
    <2>6. ReplacedIn(superseded, disk', given, UseOf(op'))
      BY <2>1, <2>2, <2>5, SameReplaced
    <2> QED
      BY <2>6, ReplacedForm
  <1> QED
    BY <1>2, <1>3, <1>4, <1>5 DEF MergesKeepAll

LEMMA OwnDirRight ==
    ASSUME FilesInOrder, MergesKeepAll, op # Idle
    PROVE  /\ DirRight(disk[op.dir], given, created, op.dir)
           /\ op.dir = created /\ op.dir \in 1..created /\ op.series = given[op.dir]
           /\ GoodIndex(op.series)
  <1>1. op.dir \in DOMAIN disk /\ op.dir = created /\ op.series = given[op.dir]
    BY DEF FilesInOrder, CallInStep
  <1>2. DirRight(disk[op.dir], given, created, op.dir)
    BY <1>1, DirsForm DEF MergesKeepAll, DirsRight
  <1>3. op.dir \in 1..created
    BY <1>1 DEF FilesInOrder, Directories
  <1>4. GoodIndex(op.series)
    BY <1>1, <1>3, SeriesForm DEF MergesKeepAll, GivenRight
  <1> QED
    BY <1>1, <1>2, <1>3, <1>4

LEMMA WriteChunksKeeps ==
    ASSUME FilesInOrder, MergesKeepAll, WriteChunks
    PROVE  MergesKeepAll'
  <1>1. op # Idle
    BY AtIsBusy DEF WriteChunks, Steps
  <1>2. PICK s \in op.todo :
          /\ disk' = [disk EXCEPT ![op.dir].chunks = @ \cup ToSet(s.chunks)]
          /\ op' = [op EXCEPT !.todo = @ \ {s}]
    BY DEF WriteChunks
  <1> DEFINE b == [disk[op.dir] EXCEPT !.chunks = @ \cup ToSet(s.chunks)]
  <1>3. /\ op.step = "chunks" /\ UNCHANGED <<head, appended, created, superseded, given>>
        /\ disk' = [disk EXCEPT ![op.dir] = b]
    BY <1>2 DEF WriteChunks, At
  <1>4. b.files = disk[op.dir].files /\ b.index = disk[op.dir].index /\ b.meta = disk[op.dir].meta
    <2>1. b = [files |-> disk[op.dir].files, chunks |-> disk[op.dir].chunks \cup ToSet(s.chunks),
               index |-> disk[op.dir].index, meta |-> disk[op.dir].meta]
      BY <1>1, CallShape, ExceptChunks, Zenon
    <2> HIDE DEF b
    <2> QED
      BY <2>1
  <1> HIDE DEF b
  <1>5. Openable(b) <=> Openable(disk[op.dir])
    BY <1>4, Zenon DEF Openable
  <1>6. DirRight(b, given, created, op.dir)
    <2>1. DirRight(disk[op.dir], given, created, op.dir)
      BY <1>1, OwnDirRight
    <2> QED
      BY <1>4, <1>5, <2>1, Zenon DEF DirRight
  <1>7. /\ op'.step = "chunks" /\ op'.dir = op.dir /\ op'.series = op.series
        /\ op'.from = op.from /\ op'.level = op.level /\ op'.sources = op.sources
    BY <1>1, <1>2, <1>3, CallShape
  <1> QED
    BY <1>1, <1>3, <1>4, <1>6, <1>7, OwnDirKeeps

LEMMA WriteIndexKeeps ==
    ASSUME FilesInOrder, MergesKeepAll, WriteIndex
    PROVE  MergesKeepAll'
  <1>1. op # Idle
    BY AtIsBusy DEF WriteIndex, Steps
  <1> DEFINE b == [disk[op.dir] EXCEPT !.files = @ \cup {"index"}, !.index = op.series]
  <1>2. /\ op.step = "chunks" /\ UNCHANGED <<head, appended, created, superseded, given>>
        /\ op' = [op EXCEPT !.step = "meta"]
    BY DEF WriteIndex, At
  <1>3. disk' = [disk EXCEPT ![op.dir] = b]
    BY <1>1, CallShape DEF WriteIndex, IsDir
  <1>4. b.files = disk[op.dir].files \cup {"index"} /\ b.meta = disk[op.dir].meta
    <2>1. b = [files |-> disk[op.dir].files \cup {"index"}, chunks |-> disk[op.dir].chunks,
               index |-> op.series, meta |-> disk[op.dir].meta]
      BY <1>1, CallShape, ExceptIndex, Zenon
    <2> HIDE DEF b
    <2> QED
      BY <2>1
  <1> HIDE DEF b
  <1>5. b.files = {"chunks", "index"}
    BY <1>1, <1>2, <1>4 DEF FilesInOrder, CallInStep
  <1>6. ~Openable(b)
    BY <1>5 DEF Openable
  <1>7. DirRight(b, given, created, op.dir)
    <2>1. DirRight(disk[op.dir], given, created, op.dir)
      BY <1>1, OwnDirRight
    <2> QED
      BY <1>4, <1>5, <1>6, <2>1 DEF DirRight
  <1>8. /\ op'.step = "meta" /\ op'.dir = op.dir /\ op'.series = op.series
        /\ op'.from = op.from /\ op'.level = op.level /\ op'.sources = op.sources
    BY <1>1, <1>2, CallShape
  <1> QED
    BY <1>1, <1>2, <1>3, <1>4, <1>7, <1>8, OwnDirKeeps

LEMMA WriteTombstonesKeeps ==
    ASSUME FilesInOrder, MergesKeepAll, WriteTombstones
    PROVE  MergesKeepAll'
  <1>1. op # Idle
    BY AtIsBusy DEF WriteTombstones, Steps
  <1> DEFINE b == [disk[op.dir] EXCEPT !.files = @ \cup {"tombstones"}]
  <1>2. /\ op.step = "tombstones" /\ UNCHANGED <<head, appended, created, superseded, given>>
        /\ op' = Idle \/ (op' = [op EXCEPT !.step = "patch"] /\ op.from # <<>>)
    BY DEF WriteTombstones, At
  <1>3. disk' = [disk EXCEPT ![op.dir] = b]
    BY DEF WriteTombstones
  <1>4. /\ b.files = disk[op.dir].files \cup {"tombstones"} /\ b.meta = disk[op.dir].meta
        /\ b.index = disk[op.dir].index
    <2>1. b = [files |-> disk[op.dir].files \cup {"tombstones"}, chunks |-> disk[op.dir].chunks,
               index |-> disk[op.dir].index, meta |-> disk[op.dir].meta]
      BY <1>1, CallShape, ExceptFiles, Zenon
    <2> HIDE DEF b
    <2> QED
      BY <2>1
  <1> HIDE DEF b
  <1>5. Openable(b) <=> Openable(disk[op.dir])
    BY <1>4 DEF Openable
  <1>6. DirRight(b, given, created, op.dir)
    <2>1. DirRight(disk[op.dir], given, created, op.dir)
      BY <1>1, OwnDirRight
    <2> QED
      BY <1>4, <1>5, <2>1 DEF DirRight
  <1>7. \/ op' = Idle
        \/ /\ op.from # <<>>
           /\ op'.dir = op.dir /\ op'.series = op.series
           /\ op'.from = op.from /\ op'.level = op.level /\ op'.sources = op.sources
    BY <1>1, <1>2, CallShape
  <1> QED
    BY <1>1, <1>2, <1>3, <1>4, <1>6, <1>7, OwnDirKeeps

LEMMA ChunkTimes ==
    ASSUME NEW c, IsChunk(c)
    PROVE  /\ min_time(c) \in Nat /\ max_time(c) \in Nat /\ max_time(c) <= MaxTime
           /\ \A x \in ToSet(c) : min_time(c) <= x.t /\ x.t <= max_time(c)
  <1>1. c \in Seq(Sample) /\ Len(c) \in 1..ChunkCap
    BY DEF IsChunk
  <1>2. PICK n \in Nat : n = Len(c) /\ DOMAIN c = 1..n /\ 1 \in 1..n /\ n \in 1..n
    BY <1>1, LenProperties, BlocksConstants
  <1>3. \A i \in 1..n : c[i].t \in Nat /\ c[i].t <= MaxTime
    BY <1>1, <1>2, SampleTimes, BlocksConstants DEF Times
  <1>4. \A i, j \in 1..n : i <= j => c[i].t <= c[j].t
    BY <1>2 DEF IsChunk
  <1>5. min_time(c) = c[1].t /\ max_time(c) = c[n].t
    BY <1>2 DEF min_time, max_time
  <1>6. \A i \in 1..n : c[1].t <= c[i].t /\ c[i].t <= c[n].t
    BY <1>2, <1>4
  <1>7. \A x \in ToSet(c) : c[1].t <= x.t /\ x.t <= c[n].t
    BY <1>2, <1>6, Zenon DEF ToSet
  <1> QED
    BY <1>2, <1>3, <1>5, <1>7

LEMMA SeriesChunks ==
    ASSUME NEW s, IsSeries(s)
    PROVE  \A c \in ToSet(s.chunks) : IsChunk(c)
  BY DEF IsSeries, IsChunks, ToSet

(* The time range of meta.json has every chunk in it. *)
LEMMA NewMetaFits ==
    ASSUME FilesInOrder, MergesKeepAll, op # Idle
    PROVE  MetaFits(NewMeta, given, op.dir)
  <1>1. op.series = given[op.dir] /\ GoodIndex(op.series)
    BY OwnDirRight
  <1>2. \A c \in AllChunks : IsChunk(c)
    <2>1. \A s \in op.series : \A c \in ToSet(s.chunks) : IsChunk(c)
      BY <1>1, SeriesChunks, Zenon DEF GoodIndex
    <2> QED
      BY <2>1 DEF AllChunks
  <1> DEFINE lows  == {min_time(c) : c \in AllChunks}
             highs == {max_time(c) : c \in AllChunks}
  <1>3. lows \in SUBSET Nat /\ highs \in SUBSET Nat /\ \A y \in highs : y <= MaxTime
    BY <1>2, ChunkTimes
  <1>4. \A c \in AllChunks : min_time(c) \in lows /\ max_time(c) \in highs
    OBVIOUS
  <1>5. /\ NewMeta.level = 1 /\ NewMeta.sources = {op.dir}
        /\ AllChunks # {} => NewMeta.min_time = Min(lows) /\ NewMeta.max_time = Max(highs)
        /\ AllChunks = {} => NewMeta.min_time = 0 /\ NewMeta.max_time = 0
    BY DEF NewMeta
  <1> HIDE DEF lows, highs
  <1>6. ASSUME NEW c \in AllChunks
        PROVE  NewMeta.min_time <= min_time(c) /\ max_time(c) <= NewMeta.max_time
    <2>1. lows # {} /\ highs # {} /\ AllChunks # {}
      BY <1>4
    <2>2. \A y \in lows : Min(lows) <= y
      BY <1>3, <2>1, Smallest
    <2>3. \A y \in highs : y <= Max(highs)
      BY <1>3, <2>1, Largest, BlocksConstants
    <2> QED
      BY <1>4, <1>5, <2>1, <2>2, <2>3
  <1>7. ASSUME NEW s \in op.series, NEW i \in DOMAIN s.chunks
        PROVE  /\ NewMeta.min_time <= min_time(s.chunks[i])
               /\ max_time(s.chunks[i]) <= NewMeta.max_time
    <2>1. s.chunks[i] \in AllChunks
      BY DEF AllChunks, ToSet
    <2> QED
      BY <1>6, <2>1, Zenon
  <1>8. CoversBy(given, given[op.dir], {op.dir})
    BY DEF CoversBy
  <1>9. NewMeta.level >= 1
    BY <1>5
  <1>10. NewMeta.min_time \in Nat /\ NewMeta.max_time \in Nat
    <2>1. CASE AllChunks = {}
      BY <1>5, <2>1
    <2>2. CASE AllChunks # {}
      <3>1. lows # {} /\ highs # {}
        BY <1>4, <2>2
      <3>2. Min(lows) \in Nat
        BY <1>3, <3>1, Smallest
      <3>3. Max(highs) \in Nat
        BY <1>3, <3>1, Largest, BlocksConstants
      <3> QED
        BY <1>5, <2>2, <3>2, <3>3
    <2> QED
      BY <2>1, <2>2
  <1> QED
    BY <1>1, <1>5, <1>7, <1>8, <1>9, <1>10, Zenon DEF MetaFits

LEMMA WriteMetaKeeps ==
    ASSUME FilesInOrder, MergesKeepAll, WriteMeta
    PROVE  MergesKeepAll'
  <1>1. op # Idle
    BY AtIsBusy DEF WriteMeta, Steps
  <1>2. /\ op.step = "meta" /\ UNCHANGED <<head, appended, created, superseded, given>>
        /\ op' = [op EXCEPT !.step = "tombstones"]
    BY DEF WriteMeta, At
  <1>3. PICK b : /\ Takes(b)
                 /\ \/ b.files = disk[op.dir].files \cup {"meta.json"} /\ b.meta = NewMeta
                    \/ b.files = disk[op.dir].files /\ b.meta = disk[op.dir].meta
    BY WriteMetaDir
  <1>4. disk' = [disk EXCEPT ![op.dir] = b] /\ b.index = disk[op.dir].index
    BY <1>3 DEF Takes
  <1>5. DirRight(disk[op.dir], given, created, op.dir) /\ op.dir \in 1..created
    BY <1>1, OwnDirRight
  <1>6. DirRight(b, given, created, op.dir)
    <2>1. CASE b.files = disk[op.dir].files \cup {"meta.json"} /\ b.meta = NewMeta
      <3>1. MetaFits(b.meta, given, op.dir)
        BY <1>1, <2>1, NewMetaFits
      <3>2. b.meta.level \in Nat /\ b.meta.sources \subseteq 1..created
        BY <1>5, <2>1 DEF NewMeta
      <3> QED
        BY <1>4, <1>5, <2>1, <3>1, <3>2 DEF DirRight
    <2>2. CASE b.files = disk[op.dir].files /\ b.meta = disk[op.dir].meta
      <3>1. Openable(b) <=> Openable(disk[op.dir])
        BY <2>2, Zenon DEF Openable
      <3> QED
        BY <1>4, <1>5, <2>2, <3>1, Zenon DEF DirRight
    <2> QED
      BY <1>3, <2>1, <2>2
  <1>7. /\ op'.step = "tombstones" /\ op'.dir = op.dir /\ op'.series = op.series
        /\ op'.from = op.from /\ op'.level = op.level /\ op'.sources = op.sources
    BY <1>1, <1>2, CallShape
  <1> QED
    BY <1>1, <1>2, <1>4, <1>6, <1>7, OwnDirKeeps

LEMMA CoversTransitive ==
    ASSUME NEW g, NEW d, NEW e, NEW x, CoversBy(g, g[e], {d}), CoversBy(g, g[x], {e})
    PROVE  CoversBy(g, g[x], {d})
  BY DEF CoversBy

(* What a compaction works with, once it has its inputs. *)
LEMMA CompactionFacts ==
    ASSUME FilesInOrder, MergesKeepAll, op # Idle, op.step \in {"patch", "verify"}
    PROVE  /\ op.from # <<>> /\ op.dir \notin superseded
           /\ op.from \in Seq(OpenedIn(disk) \ {op.dir}) /\ op.series = Merged(op.from)
           /\ op.level \in Nat \ {0} /\ op.sources \subseteq 1..created
           /\ CoversBy(given, op.series, op.sources)
  <1>1. CallRight(op, disk, given, created, superseded)
    BY CallForm DEF MergesKeepAll
  <1>2. op.from # <<>> /\ op.dir \notin superseded /\ MergeRight(op, disk, given, created)
    BY <1>1, Zenon DEF CallRight
  <1> QED
    BY <1>2, MergeForm DEF MergeRight

LEMMA PatchMetaKeeps ==
    ASSUME FilesInOrder, MergesKeepAll, PatchMeta
    PROVE  MergesKeepAll'
  <1>1. op # Idle
    BY AtIsBusy DEF PatchMeta, Steps
  <1>2. /\ op.step = "patch" /\ UNCHANGED <<head, appended, created, superseded, given>>
        /\ op' = [op EXCEPT !.step = "verify"] /\ "meta.json" \in disk[op.dir].files
    BY DEF PatchMeta, At
  <1>3. PICK b : /\ Takes(b)
                 /\ \/ /\ b.files = disk[op.dir].files
                       /\ b.meta.level = op.level /\ b.meta.sources = op.sources
                       /\ b.meta.min_time = disk[op.dir].meta.min_time
                       /\ b.meta.max_time = disk[op.dir].meta.max_time
                    \/ b.files = disk[op.dir].files \ {"meta.json"} /\ b.meta = NoMeta
    BY PatchMetaDir
  <1>4. disk' = [disk EXCEPT ![op.dir] = b] /\ b.index = disk[op.dir].index
    BY <1>3 DEF Takes
  <1>5. /\ DirRight(disk[op.dir], given, created, op.dir)
        /\ op.dir \in 1..created /\ op.series = given[op.dir]
    BY <1>1, OwnDirRight
  <1>6. /\ op.from # <<>> /\ op.level \in Nat \ {0} /\ op.sources \subseteq 1..created
        /\ CoversBy(given, op.series, op.sources)
    BY <1>1, <1>2, CompactionFacts
  <1>7. DirRight(b, given, created, op.dir)
    <2>1. CASE /\ b.files = disk[op.dir].files
               /\ b.meta.level = op.level /\ b.meta.sources = op.sources
               /\ b.meta.min_time = disk[op.dir].meta.min_time
               /\ b.meta.max_time = disk[op.dir].meta.max_time
      <3>1. Openable(disk[op.dir])
        <4>1. "index" \in disk[op.dir].files
          BY <1>1, <1>2 DEF FilesInOrder, CallInStep
        <4> QED
          BY <1>2, <1>5, <4>1 DEF Openable, DirRight
      <3>2. MetaFits(disk[op.dir].meta, given, op.dir)
        BY <1>5, <3>1 DEF DirRight
      <3>3. b.meta.level >= 1 /\ b.meta.level \in Nat
        BY <1>6, <2>1
      <3>4. MetaFits(b.meta, given, op.dir)
        BY <1>5, <1>6, <2>1, <3>2, <3>3, Zenon DEF MetaFits
      <3> QED
        BY <1>4, <1>5, <1>6, <2>1, <3>3, <3>4, Zenon DEF DirRight
    <2>2. CASE b.files = disk[op.dir].files \ {"meta.json"} /\ b.meta = NoMeta
      <3>1. ~Openable(b)
        BY <2>2 DEF Openable
      <3>2. b.meta.level = 0 /\ b.meta.sources = {}
        BY <2>2 DEF NoMeta
      <3> QED
        BY <1>4, <1>5, <2>2, <3>1, <3>2 DEF DirRight
    <2> QED
      BY <1>3, <2>1, <2>2
  <1>8. /\ op'.step = "verify" /\ op'.dir = op.dir /\ op'.series = op.series
        /\ op'.from = op.from /\ op'.level = op.level /\ op'.sources = op.sources
    BY <1>1, <1>2, CallShape
  <1> QED
    BY <1>1, <1>2, <1>4, <1>6, <1>7, <1>8, OwnDirKeeps

LEMMA VerifyKeeps ==
    ASSUME FilesInOrder, MergesKeepAll, Verify
    PROVE  MergesKeepAll'
  <1>1. op # Idle
    BY AtIsBusy DEF Verify, Steps
  <1>2. /\ op.step = "verify" /\ Openable(disk[op.dir])
        /\ UNCHANGED <<head, appended, created, disk, given>> /\ op' = Idle
        /\ superseded' = superseded \cup ToSet(op.from)
    BY DEF Verify, At
  <1>3. op.series = given[op.dir]
    BY <1>1, OwnDirRight
  <1>4. /\ op.dir \notin superseded /\ op.series = Merged(op.from)
        /\ op.from \in Seq(OpenedIn(disk) \ {op.dir})
    BY <1>1, <1>2, CompactionFacts
  <1>5. SeriesInOrder'
    BY <1>2, SeriesForm DEF MergesKeepAll
  <1>6. DirsInOrder'
    BY <1>2, DirsForm DEF MergesKeepAll
  <1>7. MergeInStep'
    BY <1>2, CallForm DEF CallRight
  <1>8. PICK n \in Nat : DOMAIN op.from = 1..n /\ \A i \in 1..n : op.from[i] \in OpenedIn(disk) \ {op.dir}
    BY <1>4, LenProperties, ElementOfSeq
  <1>9. op.dir \in OpenedIn(disk)
    BY <1>1, <1>2, CallShape DEF OpenedIn
  <1>10. ToSet(op.from) \subseteq OpenedIn(disk) \ {op.dir}
    BY <1>8 DEF ToSet
  <1>11. \A e \in ToSet(op.from) : CoversBy(given, given[op.dir], {e})
    <2>1. \A i \in 1..n : op.from[i] \in OpenedIn(disk)
      BY <1>8
    <2>2. \A i \in 1..n : NamedStamps(given[op.from[i]]) \subseteq NamedStamps(Merged(op.from))
      BY <1>8, <2>1, MergedCovers, Zenon
    <2>3. \A i \in 1..n : CoversBy(given, given[op.dir], {op.from[i]})
      BY <1>3, <1>4, <2>2, Zenon DEF CoversBy
    <2> QED
      BY <1>8, <2>3 DEF ToSet
  <1>12. Replaced'
    <2>1. ReplacedIn(superseded, disk, given, UseOf(op))
      BY ReplacedForm DEF MergesKeepAll
    <2>2. PICK sup : sup = superseded \cup ToSet(op.from)
      OBVIOUS
    <2>3. UseOf(op') = {}
      BY <1>2 DEF UseOf
    <2>4. op.dir \in OpenedIn(disk) \ sup /\ sup \subseteq OpenedIn(disk)
      BY <1>4, <1>9, <1>10, <2>1, <2>2 DEF ReplacedIn
    <2>5. ASSUME NEW d \in sup
          PROVE  \E e \in OpenedIn(disk) \ sup : CoversBy(given, given[e], {d})
      <3>1. CASE d \in ToSet(op.from)
        BY <1>11, <2>4, <3>1
      <3>2. CASE d \in superseded
        <4>1. PICK e \in OpenedIn(disk) \ superseded : CoversBy(given, given[e], {d})
          BY <2>1, <3>2 DEF ReplacedIn
        <4>2. CASE e \in ToSet(op.from)
          <5>1. CoversBy(given, given[op.dir], {d})
            BY <1>11, <4>1, <4>2, CoversTransitive
          <5> QED
            BY <2>4, <5>1
        <4>3. CASE e \notin ToSet(op.from)
          BY <2>2, <4>1, <4>3
        <4> QED
          BY <4>2, <4>3
      <3> QED
        BY <2>2, <3>1, <3>2
    <2>6. ReplacedIn(sup, disk, given, {})
      BY <2>4, <2>5 DEF ReplacedIn
    <2> QED
      BY <1>2, <2>2, <2>3, <2>6, ReplacedForm
  <1> QED
    BY <1>5, <1>6, <1>7, <1>12 DEF MergesKeepAll

LEMMA DeleteKeeps ==
    ASSUME FilesInOrder, MergesKeepAll, NEW d \in superseded, Delete(d)
    PROVE  MergesKeepAll'
  <1>1. /\ op = Idle /\ op' = Idle /\ head' = head /\ appended' = appended
        /\ created' = created /\ given' = given
        /\ disk' = [x \in DOMAIN disk \ {d} |-> disk[x]] /\ superseded' = superseded \ {d}
    BY DEF Delete
  <1>2. /\ DOMAIN disk' = DOMAIN disk \ {d}
        /\ \A x \in DOMAIN disk' : disk'[x] = disk[x]
    BY <1>1
  <1>3. SeriesInOrder'
    BY <1>1, SeriesForm DEF MergesKeepAll
  <1>4. DirsInOrder'
    <2>1. DirsRight(disk, given, created)
      BY DirsForm DEF MergesKeepAll
    <2>2. DirsRight(disk', given', created')
      BY <1>1, <1>2, <2>1 DEF DirsRight
    <2> QED
      BY <1>1, <2>2, DirsForm DEF MergesKeepAll
  <1>5. MergeInStep'
    BY <1>1, CallForm DEF CallRight
  <1>6. OpenedIn(disk') = OpenedIn(disk) \ {d}
    BY <1>2 DEF OpenedIn
  <1>7. ReplacedIn(superseded, disk, given, UseOf(op)) /\ UseOf(op') = UseOf(op)
    BY <1>1, ReplacedForm DEF MergesKeepAll
  <1>8. ReplacedIn(superseded \ {d}, disk', given, UseOf(op))
    BY <1>6, <1>7 DEF ReplacedIn
  <1>9. Replaced'
    BY <1>1, <1>7, <1>8, ReplacedForm
  <1> QED
    BY <1>3, <1>4, <1>5, <1>9 DEF MergesKeepAll

(* A sample with a larger value than all before it. *)
LEMMA AppendLargest ==
    ASSUME NEW s \in Seq(Sample), InAppendOrder(s), NEW x \in Sample, \A y \in ToSet(s) : y.v < x.v
    PROVE  /\ InAppendOrder(Append(s, x))
           /\ \A y \in ToSet(Append(s, x)) : y \in ToSet(s) \/ y = x
  <1>1. PICK n \in Nat : n = Len(s) /\ DOMAIN s = 1..n
    BY LenProperties
  <1>2. PICK w \in Seq(Sample) : w = Append(s, x)
    BY AppendProperties
  <1>3. Len(w) = n + 1 /\ w[n + 1] = x /\ \A i \in 1..n : w[i] = s[i]
    BY <1>1, <1>2, AppendProperties
  <1>4. DOMAIN w = 1..n + 1
    BY <1>3, LenProperties
  <1>5. \A i \in 1..n : s[i].v < x.v /\ s[i] \in ToSet(s)
    BY <1>1 DEF ToSet
  <1>6. \A i, j \in 1..n : i < j /\ s[i].t = s[j].t => s[i].v < s[j].v
    BY <1>1 DEF InAppendOrder
  <1>7. ASSUME NEW i \in 1..n + 1, NEW j \in 1..n + 1, i < j, w[i].t = w[j].t
        PROVE  w[i].v < w[j].v
    <2>1. i \in 1..n
      BY <1>7
    <2>2. CASE j = n + 1
      BY <1>3, <1>5, <2>1, <2>2
    <2>3. CASE j # n + 1
      <3>1. j \in 1..n
        BY <2>3
      <3> QED
        BY <1>3, <1>6, <1>7, <2>1, <3>1
    <2> QED
      BY <2>2, <2>3
  <1>8. InAppendOrder(w)
    BY <1>4, <1>7 DEF InAppendOrder
  <1>9. \A i \in 1..n + 1 : w[i] \in ToSet(s) \/ w[i] = x
    <2>1. \A i \in 1..n + 1 : i = n + 1 \/ i \in 1..n
      OBVIOUS
    <2> QED
      BY <1>3, <1>5, <2>1, Zenon
  <1>10. \A y \in ToSet(w) : y \in ToSet(s) \/ y = x
    BY <1>4, <1>9, Zenon DEF ToSet
  <1> QED
    BY <1>2, <1>8, <1>10, Zenon

LEMMA AppendKeeps ==
    ASSUME MergesKeepAll, NEW l \in LabelSets, NEW t \in Times, append(l, t)
    PROVE  MergesKeepAll'
  <1>1. /\ op = Idle /\ op' = Idle /\ appended < MaxAppends /\ InOrder(head[l], t)
        /\ created' = created /\ disk' = disk /\ superseded' = superseded /\ given' = given
    BY DEF append
  <1>2. PICK a \in Nat : a = appended /\ a + 1 \in 1..MaxAppends /\ a + 1 \in 0..MaxAppends
    BY <1>1, DirsForm, BlocksConstants DEF MergesKeepAll
  <1>3. PICK x : x = [t |-> t, v |-> a + 1]
    OBVIOUS
  <1>4. x \in Sample /\ x.t = t /\ x.v = a + 1
    BY <1>2, <1>3 DEF Sample
  <1>5. appended' = a + 1 /\ head' = [head EXCEPT ![l] = AppendTo(head[l], x)]
    BY <1>2, <1>3 DEF append
  <1>6. HeadRight(head, a)
    BY <1>2, SeriesForm DEF MergesKeepAll
  <1>7. PICK c : c = AppendTo(head[l], x)
    OBVIOUS
  <1>8. /\ head' = [k \in LabelSets |-> head'[k]] /\ head'[l] = c
        /\ \A k \in LabelSets : k # l => head'[k] = head[k]
    BY <1>5, <1>6, <1>7 DEF HeadRight
  <1>9. /\ IsChunks(head[l]) /\ InAppendOrder(Samples(head[l]))
        /\ \A y \in ToSet(Samples(head[l])) : y.v <= a
    BY <1>6, NumberedIs DEF HeadRight
  <1>10. IsChunks(c)
    BY <1>1, <1>4, <1>7, <1>9, AppendToChunks
  <1>11. PICK s \in Seq(Sample) : s = Samples(head[l])
    BY <1>9, FlattenType DEF IsChunks, Samples
  <1>12. Samples(c) = Append(s, x)
    BY <1>4, <1>7, <1>9, <1>11, AppendToSamples, Zenon DEF IsChunks
  <1>13. \A y \in ToSet(s) : y.v \in Nat /\ y.v <= a
    <2>1. \A y \in Sample : y.v \in Nat
      BY BlocksConstants DEF Sample
    <2> QED
      BY <1>9, <1>11, <2>1, ToSetType
  <1>14. \A y \in ToSet(s) : y.v < x.v
    BY <1>4, <1>13
  <1>15. InAppendOrder(Append(s, x)) /\ \A y \in ToSet(Append(s, x)) : y \in ToSet(s) \/ y = x
    BY <1>4, <1>9, <1>11, <1>14, AppendLargest, Zenon
  <1>16. Numbered(c)
    BY <1>12, <1>15, NumberedIs, Zenon
  <1>17. \A y \in ToSet(Samples(c)) : y.v <= a + 1
    <2>1. \A y \in ToSet(s) : y.v <= a + 1
      BY <1>13
    <2>2. x.v <= a + 1
      BY <1>4
    <2> QED
      BY <1>12, <1>15, <2>1, <2>2, Zenon
  <1>18. ASSUME NEW k \in LabelSets
         PROVE  /\ IsChunks(head'[k]) /\ Numbered(head'[k])
                /\ \A y \in ToSet(Samples(head'[k])) : y.v <= a + 1
    <2>1. CASE k = l
      BY <1>8, <1>10, <1>16, <1>17, <2>1, Zenon
    <2>2. CASE k # l
      <3>1. /\ IsChunks(head[k]) /\ Numbered(head[k])
            /\ \A y \in ToSet(Samples(head[k])) : y.v <= a
        BY <1>6, Zenon DEF HeadRight
      <3>2. \A y \in ToSet(Samples(head[k])) : y.v <= a + 1
        <4>1. PICK sk \in Seq(Sample) : sk = Samples(head[k])
          BY <3>1, FlattenType DEF IsChunks, Samples
        <4>2. \A y \in Sample : y.v \in Nat
          BY BlocksConstants DEF Sample
        <4>3. \A y \in ToSet(sk) : y.v \in Nat
          BY <4>1, <4>2, ToSetType
        <4> QED
          BY <3>1, <4>1, <4>3
      <3> QED
        BY <1>8, <2>2, <3>1, <3>2, Zenon
    <2> QED
      BY <2>1, <2>2
  <1>19. SeriesInOrder'
    <2>1. HeadRight(head', a + 1)
      BY <1>8, <1>18, Zenon DEF HeadRight
    <2> QED
      BY <1>1, <1>5, <2>1, SeriesForm DEF MergesKeepAll
  <1>20. DirsInOrder'
    BY <1>1, <1>2, <1>5, DirsForm DEF MergesKeepAll
  <1>21. MergeInStep'
    BY <1>1, CallForm DEF CallRight
  <1>22. Replaced'
    BY <1>1, ReplacedForm DEF MergesKeepAll
  <1> QED
    BY <1>19, <1>20, <1>21, <1>22 DEF MergesKeepAll

(* Steps that change nothing but the call, which they may end. *)
LEMMA EndKeeps ==
    ASSUME MergesKeepAll, UNCHANGED <<head, appended, created, disk, superseded, given>>,
           op' = Idle \/ op' = op
    PROVE  MergesKeepAll'
  <1>1. SeriesInOrder'
    BY SeriesForm DEF MergesKeepAll
  <1>2. DirsInOrder'
    BY DirsForm DEF MergesKeepAll
  <1>3. MergeInStep'
    BY CallForm DEF CallRight, MergesKeepAll
  <1>4. Replaced'
    <2>1. ReplacedIn(superseded, disk, given, UseOf(op)) /\ UseOf(op') \subseteq UseOf(op)
      BY ReplacedForm DEF MergesKeepAll, UseOf
    <2>2. ReplacedIn(superseded, disk, given, UseOf(op'))
      BY <2>1 DEF ReplacedIn
    <2> QED
      BY <2>2, ReplacedForm
  <1> QED
    BY <1>1, <1>2, <1>3, <1>4 DEF MergesKeepAll

LEMMA StepKeeps ==
    ASSUME FilesInOrder, MergesKeepAll, [Next]_vars
    PROVE  MergesKeepAll'
  <1>1. CASE \E l \in LabelSets, t \in Times : append(l, t)
    BY <1>1, AppendKeeps
  <1>2. CASE create_from_head
    BY <1>2, FlushKeeps
  <1>3. CASE \E n \in 1..MaxInputs : \E from \in [1..n -> Opened] : compact(from)
    <2>0. PICK n \in 1..MaxInputs : \E from \in [1..n -> Opened] : compact(from)
      BY <1>3
    <2>1. PICK from \in [1..n -> Opened] : compact(from)
      BY <2>0
    <2>2. n \in Nat \ {0}
      BY BlocksConstants
    <2> QED
      BY <2>1, <2>2, CompactKeeps, Zenon
  <1>4. CASE WriteChunks
    BY <1>4, WriteChunksKeeps
  <1>5. CASE WriteIndex
    BY <1>5, WriteIndexKeeps
  <1>6. CASE WriteMeta
    BY <1>6, WriteMetaKeeps
  <1>7. CASE WriteTombstones
    BY <1>7, WriteTombstonesKeeps
  <1>8. CASE PatchMeta
    BY <1>8, PatchMetaKeeps
  <1>9. CASE Interrupted
    BY <1>9, EndKeeps DEF Interrupted
  <1>10. CASE \E d \in superseded : Delete(d)
    BY <1>10, DeleteKeeps
  <1>11. CASE UNCHANGED vars
    BY <1>11, EndKeeps DEF vars
  <1>12. CASE Verify
    BY <1>12, VerifyKeeps
  <1> QED
    BY <1>1, <1>2, <1>3, <1>4, <1>5, <1>6, <1>7, <1>8, <1>9, <1>10, <1>11, <1>12 DEF Next

-----------------------------------------------------------------------------
(* The theorems.                                                           *)

(* At every step of Block::create_from_head, of Block::compact and of the     *)
(* removal of inputs: series are in order, a meta.json that parses gives a    *)
(* range and sources that are right, what a compaction writes is the merge of *)
(* inputs that are still there, and a block that may be removed is covered by *)
(* one that stays and that no call works on, so that write_meta, which may    *)
(* return success with an incomplete meta.json, cannot take it away.          *)
THEOREM NothingIsLost == Spec => []MergesKeepAll
  <1>1. Init => MergesKeepAll
    BY InitKeeps
  <1>2. FilesInOrder /\ MergesKeepAll /\ [Next]_vars => MergesKeepAll'
    BY StepKeeps
  <1> QED
    BY <1>1, <1>2, FilesComeInOrder, PTL DEF Spec

LEMMA TypeFollows ==
    ASSUME FilesInOrder, MergesKeepAll
    PROVE  TypeOK
  <1>1. \A l \in LabelSets : IsChunks(head[l])
    BY DEF MergesKeepAll, SeriesInOrder
  <1>2. appended \in 0..MaxAppends /\ created \in 0..MaxBlocks /\ DOMAIN disk \subseteq 1..created
    BY BlocksConstants DEF MergesKeepAll, DirsInOrder, FilesInOrder, Directories
  <1>3. superseded \subseteq 1..created
    BY <1>2 DEF MergesKeepAll, Replaced, Opened
  <1>4. ASSUME NEW d \in DOMAIN disk
        PROVE  /\ disk[d].files \subseteq {"chunks", "index", "meta.json", "tombstones"}
               /\ disk[d].meta.sources \subseteq 1..created
               /\ Openable(disk[d]) => disk[d].meta.level >= 1
    BY DEF MergesKeepAll, DirsInOrder, MetaRight
  <1>5. ASSUME NEW d \in DOMAIN disk
        PROVE  GoodIndex(disk[d].index)
    <2>1. CASE "index" \in disk[d].files
      <3>1. disk[d].index = given[d] /\ d \in 1..created
        BY <1>2, <2>1 DEF FilesInOrder, IndexAfterChunks
      <3> QED
        BY <3>1, SeriesForm DEF MergesKeepAll, GivenRight
    <2>2. CASE disk[d].index = {}
      BY <2>2 DEF GoodIndex
    <2> QED
      BY <2>1, <2>2 DEF MergesKeepAll, DirsInOrder
  <1>6. ASSUME NEW d \in DOMAIN disk
        PROVE  /\ \A s \in disk[d].index :
                    s.labels \in LabelSets /\ s.chunks # <<>> /\ IsChunks(s.chunks)
               /\ \A s1, s2 \in disk[d].index : s1.labels = s2.labels => s1 = s2
    BY <1>5 DEF GoodIndex, IsSeries
  <1> QED
    BY <1>1, <1>2, <1>3, <1>4, <1>6 DEF TypeOK

(* In every state the chunks of the head and of every block are in time       *)
(* order and within their cap (MemSeries::append, Block::compact), no block   *)
(* has two series with the same labels, and a block that Block::open accepts  *)
(* has a level.                                                               *)
THEOREM BlocksAreWellTyped == Spec => []TypeOK
  <1>1. FilesInOrder /\ MergesKeepAll => TypeOK
    BY TypeFollows
  <1> QED
    BY <1>1, FilesComeInOrder, NothingIsLost, PTL

-----------------------------------------------------------------------------
(* What a query for everything finds in a block.                           *)

LEMMA EverythingMatches ==
    ASSUME NEW b
    PROVE  /\ DOMAIN Everything = {1}
           /\ postings_for_matcher(b, Everything[1]) = all_postings(b)
  <1>1. PICK m : m = [type |-> "Nre", name |-> CHOOSE n \in Names : TRUE, value |-> {}]
    OBVIOUS
  <1>2. Everything = <<m>>
    BY <1>1 DEF Everything
  <1>3. m.type = "Nre" /\ m.value = {}
    BY <1>1
  <1>4. regex_postings(b, m) = {}
    BY <1>3 DEF regex_postings
  <1>5. postings_for_matcher(b, m) = all_postings(b)
    BY <1>3, <1>4 DEF postings_for_matcher
  <1> QED
    BY <1>2, <1>5

(* The chunks that InRange leaves are those that meet the range. *)
LEMMA InRangeHas ==
    ASSUME NEW c, IsChunks(c), NEW mint, NEW maxt
    PROVE  \A y : y \in ToSet(Samples(InRange(c, mint, maxt)))
             <=> \E i \in DOMAIN c : /\ Overlaps(min_time(c[i]), max_time(c[i]), mint, maxt)
                                     /\ y \in ToSet(c[i])
  <1>1. PICK I : I = {i \in DOMAIN c : Overlaps(min_time(c[i]), max_time(c[i]), mint, maxt)}
    OBVIOUS
  <1>2. PICK r : r = InRange(c, mint, maxt)
    OBVIOUS
  <1>3. r = Picked(c, I)
    BY <1>1, <1>2, Zenon DEF InRange
  <1>4. c \in Seq(Seq(Sample)) /\ I \in SUBSET (DOMAIN c)
    BY <1>1 DEF IsChunks
  <1>5. r \in Seq(Seq(Sample)) /\ Picks(r, c, I)
    BY <1>3, <1>4, PickedPicks, Zenon
  <1>6. \A x : x \in ToSet(r) <=> \E i \in I : x = c[i]
    BY <1>5, PicksSet
  <1>7. \A y : y \in ToSet(Samples(r)) <=> \E x \in ToSet(r) : y \in ToSet(x)
    <2>1. ToSet(FlattenSeq(r)) = UNION {ToSet(r[i]) : i \in DOMAIN r}
      BY <1>5, FlattenedSet, Zenon
    <2>2. \A x : x \in ToSet(r) <=> \E i \in DOMAIN r : x = r[i]
      BY DEF ToSet
    <2>3. \A y : y \in UNION {ToSet(r[i]) : i \in DOMAIN r} <=> \E i \in DOMAIN r : y \in ToSet(r[i])
      OBVIOUS
    <2> QED
      BY <2>1, <2>2, <2>3, Zenon DEF Samples
  <1>8. \A y : y \in ToSet(Samples(r)) <=> \E i \in I : y \in ToSet(c[i])
    BY <1>6, <1>7, Zenon
  <1>9. \A i : i \in I <=> i \in DOMAIN c /\ Overlaps(min_time(c[i]), max_time(c[i]), mint, maxt)
    BY <1>1
  <1> QED
    BY <1>2, <1>8, <1>9, Zenon

LEMMA NoChunksNoSample ==
    ASSUME NEW c, NEW y \in ToSet(Samples(c))
    PROVE  c # <<>>
  BY EmptyChunks, Zenon

(* A sample y of the series l is in the answer, a chunk with y meets the range. *)
Finds(b, mint, maxt, l, y) ==
    \E r \in block_select(b, Everything, mint, maxt) :
        r.labels = l /\ y \in ToSet(Samples(r.chunks))

Meets(s, mint, maxt, y) ==
    \E i \in DOMAIN s.chunks :
        /\ Overlaps(min_time(s.chunks[i]), max_time(s.chunks[i]), mint, maxt)
        /\ y \in ToSet(s.chunks[i])

(* Series with labels are found, with the chunks that meet the range. *)
LEMMA BlockFinds ==
    ASSUME NEW b, GoodIndex(b.index), NEW mint, NEW maxt, NEW l, NEW y
    PROVE  Finds(b, mint, maxt, l, y)
             <=> DOMAIN l # {} /\ \E s \in b.index : s.labels = l /\ Meets(s, mint, maxt, y)
  <1>1. \A s \in b.index :
          (\A i \in DOMAIN Everything : s.labels \in postings_for_matcher(b, Everything[i]))
            <=> DOMAIN s.labels # {}
    <2>1. \A s \in b.index : s.labels \in all_postings(b) <=> DOMAIN s.labels # {}
      BY DEF all_postings, Labels
    <2> QED
      BY <2>1, EverythingMatches
  <1>2. PICK S : S = {s \in b.index : DOMAIN s.labels # {}}
    OBVIOUS
  <1>3. block_select(b, Everything, mint, maxt) = WithChunks(S, mint, maxt)
    <2>1. {s \in b.index : \A i \in DOMAIN Everything :
             s.labels \in postings_for_matcher(b, Everything[i])} = S
      BY <1>1, <1>2
    <2> QED
      BY <2>1 DEF block_select
  <1>4. \A r : r \in WithChunks(S, mint, maxt)
          <=> \E s \in S : /\ r = [labels |-> s.labels, chunks |-> InRange(s.chunks, mint, maxt)]
                           /\ r.chunks # <<>>
    BY DEF WithChunks
  <1>5. \A s \in S : \A z : z \in ToSet(Samples(InRange(s.chunks, mint, maxt)))
                              <=> Meets(s, mint, maxt, z)
    <2>1. \A s \in S : IsChunks(s.chunks)
      BY <1>2 DEF GoodIndex, IsSeries
    <2> QED
      BY <2>1, InRangeHas, Zenon DEF Meets
  <1>6. ASSUME Finds(b, mint, maxt, l, y)
        PROVE  DOMAIN l # {} /\ \E s \in b.index : s.labels = l /\ Meets(s, mint, maxt, y)
    <2>0. PICK r \in block_select(b, Everything, mint, maxt) :
            r.labels = l /\ y \in ToSet(Samples(r.chunks))
      BY <1>6, Zenon DEF Finds
    <2>1. PICK s \in S : r = [labels |-> s.labels, chunks |-> InRange(s.chunks, mint, maxt)]
      BY <1>3, <1>4, <2>0, Zenon
    <2>2. r.labels = s.labels /\ r.chunks = InRange(s.chunks, mint, maxt)
      BY <2>1
    <2>3. s \in b.index /\ DOMAIN s.labels # {}
      BY <1>2
    <2>4. y \in ToSet(Samples(InRange(s.chunks, mint, maxt)))
      BY <2>0, <2>2, Zenon
    <2>5. Meets(s, mint, maxt, y)
      BY <1>5, <2>4, Zenon
    <2> QED
      BY <2>0, <2>2, <2>3, <2>5, Zenon
  <1>7. ASSUME DOMAIN l # {}, NEW s \in b.index, s.labels = l, Meets(s, mint, maxt, y)
        PROVE  Finds(b, mint, maxt, l, y)
    <2>1. s \in S
      BY <1>2, <1>7
    <2>2. PICK c : c = InRange(s.chunks, mint, maxt)
      OBVIOUS
    <2>3. y \in ToSet(Samples(c))
      BY <1>5, <1>7, <2>1, <2>2, Zenon
    <2>4. c # <<>>
      BY <2>3, NoChunksNoSample, Zenon
    <2>5. PICK r : r = [labels |-> s.labels, chunks |-> c]
      OBVIOUS
    <2>6. r.labels = l /\ r.chunks = c
      BY <1>7, <2>5
    <2>7. r \in block_select(b, Everything, mint, maxt)
      BY <1>3, <1>4, <2>1, <2>2, <2>4, <2>5, <2>6, Zenon
    <2> QED
      BY <2>3, <2>6, <2>7, Zenon DEF Finds
  <1> QED
    BY <1>6, <1>7, Zenon

(* A chunk with a sample in the range meets the range. *)
LEMMA ChunkMeets ==
    ASSUME NEW c, IsChunk(c), NEW y \in ToSet(c), NEW mint \in Nat, NEW maxt \in Nat,
           mint <= y.t, y.t <= maxt
    PROVE  Overlaps(min_time(c), max_time(c), mint, maxt)
  <1>1. PICK lo \in Nat, hi \in Nat : lo = min_time(c) /\ hi = max_time(c)
    BY ChunkTimes
  <1>2. lo <= y.t /\ y.t <= hi
    BY <1>1, ChunkTimes
  <1>3. y.t \in Nat
    <2>1. c \in Seq(Sample)
      BY DEF IsChunk
    <2>2. y \in Sample
      BY <2>1, ToSetType
    <2> QED
      BY <2>2, BlocksConstants DEF Sample, Times
  <1>4. ~(lo > maxt \/ hi < mint)
    BY <1>2, <1>3
  <1> QED
    BY <1>1, <1>4, Zenon DEF Overlaps

(* The samples of a series are those of its chunks. *)
LEMMA ChunkOfSample ==
    ASSUME NEW s, IsSeries(s)
    PROVE  /\ \A i \in DOMAIN s.chunks : IsChunk(s.chunks[i])
           /\ \A y : y \in ToSet(Samples(s.chunks))
                <=> \E i \in DOMAIN s.chunks : y \in ToSet(s.chunks[i])
           /\ \A y \in ToSet(Samples(s.chunks)) : y \in Sample /\ y.t \in 1..MaxTime
  <1>1. PICK c \in Seq(Seq(Sample)) : c = s.chunks
    BY DEF IsSeries, IsChunks
  <1>2. \A i \in DOMAIN c : IsChunk(c[i])
    BY <1>1 DEF IsSeries, IsChunks
  <1>3. \A y : y \in ToSet(Samples(c)) <=> \E i \in DOMAIN c : y \in ToSet(c[i])
    <2>1. ToSet(FlattenSeq(c)) = UNION {ToSet(c[i]) : i \in DOMAIN c}
      BY FlattenedSet, Zenon
    <2>2. \A y : y \in UNION {ToSet(c[i]) : i \in DOMAIN c} <=> \E i \in DOMAIN c : y \in ToSet(c[i])
      OBVIOUS
    <2> QED
      BY <2>1, <2>2, Zenon DEF Samples
  <1>4. \A y \in ToSet(Samples(c)) : y \in Sample
    <2>1. Samples(c) \in Seq(Sample)
      BY <1>1, SeriesSamples, Zenon
    <2> QED
      BY <2>1, ToSetType, Zenon
  <1>5. \A y \in Sample : y.t \in 1..MaxTime
    BY DEF Sample, Times
  <1> QED
    BY <1>1, <1>2, <1>3, <1>4, <1>5, Zenon

(* A query for all times finds every sample of a series with labels, and a    *)
(* query finds nothing else.                                                  *)
LEMMA BlockFindsAll ==
    ASSUME NEW b, GoodIndex(b.index), NEW mint \in Nat, NEW maxt \in Nat, NEW s \in b.index,
           DOMAIN s.labels # {}, NEW y \in ToSet(Samples(s.chunks)), mint <= y.t, y.t <= maxt
    PROVE  Finds(b, mint, maxt, s.labels, y)
  <1>1. IsSeries(s)
    BY DEF GoodIndex
  <1>2. PICK i \in DOMAIN s.chunks : y \in ToSet(s.chunks[i])
    BY <1>1, ChunkOfSample, Zenon
  <1>3. IsChunk(s.chunks[i])
    BY <1>1, ChunkOfSample, Zenon
  <1>4. Overlaps(min_time(s.chunks[i]), max_time(s.chunks[i]), mint, maxt)
    BY <1>2, <1>3, ChunkMeets, Zenon
  <1>5. Meets(s, mint, maxt, y)
    BY <1>2, <1>4, Zenon DEF Meets
  <1> QED
    BY <1>5, BlockFinds, Zenon

IsStamp(s, x) == \E y \in ToSet(Samples(s.chunks)) : x = Stamp(s.labels, y.t)

(* The timestamps of the series with labels. *)
LEMMA NamedStampsAre ==
    ASSUME NEW series
    PROVE  \A x : x \in NamedStamps(series)
             <=> \E s \in series : DOMAIN s.labels # {} /\ IsStamp(s, x)
  <1>1. PICK n : n = {s \in series : DOMAIN s.labels # {}}
    OBVIOUS
  <1>2. \A s : s \in n <=> s \in series /\ DOMAIN s.labels # {}
    BY <1>1
  <1>3. \A x : x \in NamedStamps(series) <=> \E s \in n : IsStamp(s, x)
    <2>1. NamedStamps(series) = Stamps(n)
      BY <1>1, Zenon DEF NamedStamps
    <2> QED
      BY <2>1, StampsAre DEF IsStamp
  <1> QED
    BY <1>2, <1>3, Zenon

(* What a query over the blocks in dk finds. *)
FoundIn(dk) ==
    Stamps(UNION {block_select(dk[d], Everything, 1, MaxTime) : d \in OpenedIn(dk)})

LEMMA FoundForm == Found = FoundIn(disk) /\ Found' = FoundIn(disk')
  BY DEF Found, FoundIn, Opened, OpenedIn

(* The timestamps of the series with labels of the blocks that can be opened. *)
LEMMA FoundIs ==
    ASSUME NEW dk, NEW g, \A d \in OpenedIn(dk) : dk[d].index = g[d] /\ GoodIndex(g[d])
    PROVE  \A x : x \in FoundIn(dk) <=> \E d \in OpenedIn(dk) : x \in NamedStamps(g[d])
  <1>1. PICK all : all = UNION {block_select(dk[d], Everything, 1, MaxTime) : d \in OpenedIn(dk)}
    OBVIOUS
  <1>2. \A r : r \in all
          <=> \E d \in OpenedIn(dk) : r \in block_select(dk[d], Everything, 1, MaxTime)
    BY <1>1
  <1>3. \A x : x \in FoundIn(dk) <=> \E r \in all : IsStamp(r, x)
    <2>1. FoundIn(dk) = Stamps(all)
      BY <1>1, Zenon DEF FoundIn
    <2> QED
      BY <2>1, StampsAre DEF IsStamp
  <1>5. ASSUME NEW x, NEW d \in OpenedIn(dk), x \in NamedStamps(g[d])
        PROVE  x \in FoundIn(dk)
    <2>1. PICK s \in g[d] : DOMAIN s.labels # {} /\ IsStamp(s, x)
      BY <1>5, NamedStampsAre
    <2>2. PICK y \in ToSet(Samples(s.chunks)) : x = Stamp(s.labels, y.t)
      BY <2>1, Zenon DEF IsStamp
    <2>3. dk[d].index = g[d] /\ GoodIndex(g[d]) /\ IsSeries(s)
      BY DEF GoodIndex
    <2>4. y.t \in 1..MaxTime
      BY <2>3, ChunkOfSample, Zenon
    <2>5. 1 \in Nat /\ MaxTime \in Nat /\ 1 <= y.t /\ y.t <= MaxTime
      BY <2>4, BlocksConstants
    <2>6. PICK r \in block_select(dk[d], Everything, 1, MaxTime) :
            r.labels = s.labels /\ y \in ToSet(Samples(r.chunks))
      <3>1. GoodIndex(dk[d].index) /\ s \in dk[d].index
        BY <2>3
      <3>2. Finds(dk[d], 1, MaxTime, s.labels, y)
        BY <2>1, <2>5, <3>1, BlockFindsAll, Zenon
      <3> QED
        BY <3>2, Zenon DEF Finds
    <2>7. r \in all
      BY <1>2, Zenon
    <2>8. IsStamp(r, x)
      BY <2>2, <2>6, Zenon DEF IsStamp
    <2> QED
      BY <1>3, <2>7, <2>8, Zenon
  <1>6. ASSUME NEW x \in FoundIn(dk)
        PROVE  \E d \in OpenedIn(dk) : x \in NamedStamps(g[d])
    <2>1. PICK r \in all : IsStamp(r, x)
      BY <1>3, Zenon
    <2>2. PICK y \in ToSet(Samples(r.chunks)) : x = Stamp(r.labels, y.t)
      BY <2>1, Zenon DEF IsStamp
    <2>3. PICK d \in OpenedIn(dk) : r \in block_select(dk[d], Everything, 1, MaxTime)
      BY <1>2, Zenon
    <2>4. dk[d].index = g[d] /\ GoodIndex(g[d])
      OBVIOUS
    <2>5. PICK l : l = r.labels
      OBVIOUS
    <2>6. DOMAIN l # {} /\ \E s \in dk[d].index : s.labels = l /\ Meets(s, 1, MaxTime, y)
      <3>1. Finds(dk[d], 1, MaxTime, l, y)
        BY <2>2, <2>3, <2>5, Zenon DEF Finds
      <3>2. GoodIndex(dk[d].index)
        BY <2>4
      <3> QED
        BY <3>1, <3>2, BlockFinds
    <2>7. PICK s \in g[d] : s.labels = l /\ \E i \in DOMAIN s.chunks : y \in ToSet(s.chunks[i])
      BY <2>4, <2>6, Zenon DEF Meets
    <2>8. y \in ToSet(Samples(s.chunks))
      <3>1. IsSeries(s)
        BY <2>4 DEF GoodIndex
      <3> QED
        BY <2>7, <3>1, ChunkOfSample, Zenon
    <2>9. x \in NamedStamps(g[d])
      <3>1. DOMAIN s.labels # {} /\ IsStamp(s, x)
        BY <2>2, <2>5, <2>6, <2>7, <2>8, Zenon DEF IsStamp
      <3> QED
        BY <3>1, NamedStampsAre
    <2> QED
      BY <2>9, Zenon
  <1> QED
    BY <1>5, <1>6, Zenon


(* A call only adds files to its directory, until it patches meta.json. *)
LEMMA OpenedStay ==
    ASSUME FilesInOrder, op # Idle, NEW b, disk' = [disk EXCEPT ![op.dir] = b],
           disk[op.dir].files \subseteq b.files
    PROVE  OpenedIn(disk) \subseteq OpenedIn(disk')
  <1>1. op.dir \in DOMAIN disk
    BY CallShape
  <1>2. /\ DOMAIN disk' = DOMAIN disk /\ disk'[op.dir] = b
        /\ \A d \in DOMAIN disk : d # op.dir => disk'[d] = disk[d]
    BY <1>1
  <1>3. Openable(disk[op.dir]) => Openable(b)
    BY DEF Openable
  <1> QED
    BY <1>2, <1>3 DEF OpenedIn

LEMMA CallKeepsOpened ==
    ASSUME FilesInOrder,
           WriteChunks \/ WriteIndex \/ WriteMeta \/ WriteTombstones
    PROVE  OpenedIn(disk) \subseteq OpenedIn(disk') /\ given' = given
  <1>1. op # Idle
    BY AtIsBusy
       DEF WriteChunks, WriteIndex, WriteMeta, WriteTombstones, Steps
  <1>2. op.dir \in DOMAIN disk /\ IsDir(disk[op.dir]) /\ disk = [d \in DOMAIN disk |-> disk[d]]
    BY <1>1, CallShape
  <1>3. given' = given
    BY DEF WriteChunks, WriteIndex, WriteMeta, WriteTombstones
  <1>4. CASE WriteChunks
    <2>1. PICK s \in op.todo : disk' = [disk EXCEPT ![op.dir].chunks = @ \cup ToSet(s.chunks)]
      BY <1>4 DEF WriteChunks
    <2>2. PICK b : b = [disk[op.dir] EXCEPT !.chunks = @ \cup ToSet(s.chunks)]
      OBVIOUS
    <2>3. disk' = [disk EXCEPT ![op.dir] = b]
      BY <2>1, <2>2
    <2>4. b.files = disk[op.dir].files
      <3>1. b = [files |-> disk[op.dir].files, chunks |-> disk[op.dir].chunks \cup ToSet(s.chunks),
                 index |-> disk[op.dir].index, meta |-> disk[op.dir].meta]
        BY <1>2, <2>2, ExceptChunks, Zenon
      <3> QED
        BY <3>1
    <2> QED
      BY <1>1, <1>3, <2>3, <2>4, OpenedStay
  <1>5. CASE WriteIndex
    <2>1. PICK b : b = [disk[op.dir] EXCEPT !.files = @ \cup {"index"}, !.index = op.series]
      OBVIOUS
    <2>2. disk' = [disk EXCEPT ![op.dir] = b]
      BY <1>2, <1>5, <2>1 DEF WriteIndex, IsDir
    <2>3. b.files = disk[op.dir].files \cup {"index"}
      <3>1. [disk[op.dir] EXCEPT !.files = @ \cup {"index"}, !.index = op.series]
              = [files |-> disk[op.dir].files \cup {"index"}, chunks |-> disk[op.dir].chunks,
                 index |-> op.series, meta |-> disk[op.dir].meta]
        BY <1>2, ExceptIndex, Zenon
      <3>2. b = [files |-> disk[op.dir].files \cup {"index"}, chunks |-> disk[op.dir].chunks,
                 index |-> op.series, meta |-> disk[op.dir].meta]
        BY <2>1, <3>1, Zenon
      <3> QED
        BY <3>2
    <2> QED
      BY <1>1, <1>3, <2>2, <2>3, OpenedStay
  <1>6. CASE WriteMeta
    <2>1. PICK b : Takes(b) /\ disk[op.dir].files \subseteq b.files
      BY <1>6, WriteMetaDir
    <2> QED
      BY <1>1, <1>3, <2>1, OpenedStay DEF Takes
  <1>7. CASE WriteTombstones
    <2>1. PICK b : b = [disk[op.dir] EXCEPT !.files = @ \cup {"tombstones"}]
      OBVIOUS
    <2>2. disk' = [disk EXCEPT ![op.dir] = b]
      BY <1>7, <2>1 DEF WriteTombstones
    <2>3. b.files = disk[op.dir].files \cup {"tombstones"}
      <3>1. b = [files |-> disk[op.dir].files \cup {"tombstones"}, chunks |-> disk[op.dir].chunks,
                 index |-> disk[op.dir].index, meta |-> disk[op.dir].meta]
        BY <1>2, <2>1, ExceptFiles, Zenon
      <3> QED
        BY <3>1
    <2> QED
      BY <1>1, <1>3, <2>2, <2>3, OpenedStay
  <1> QED
    BY <1>4, <1>5, <1>6, <1>7

LEMMA StartKeepsOpened ==
    ASSUME FilesInOrder, NEW series, NEW from, NEW level, NEW sources,
           Start(series, from, level, sources)
    PROVE  OpenedIn(disk) \subseteq OpenedIn(disk') /\ \A d \in 1..created : given'[d] = given[d]
  <1>1. \A d \in 1..created : given'[d] = given[d]
    BY GivenGrows DEF Start, FilesInOrder
  <1>2. disk' = [d \in DOMAIN disk \cup {created + 1} |->
                   IF d \in DOMAIN disk THEN disk[d] ELSE NewDir]
    BY DEF Start
  <1>3. \A d \in DOMAIN disk : d \in DOMAIN disk' /\ disk'[d] = disk[d]
    BY <1>2
  <1> QED
    BY <1>1, <1>3 DEF OpenedIn

(* The patch may leave the new block without a meta.json that parses: the      *)
(* inputs, which are still there, have its timestamps.                         *)
LEMMA PatchLosesNothing ==
    ASSUME FilesInOrder, MergesKeepAll, PatchMeta, NEW d \in OpenedIn(disk),
           NEW x \in NamedStamps(given[d])
    PROVE  \E e \in OpenedIn(disk') : x \in NamedStamps(given'[e])
  <1>1. op # Idle
    BY AtIsBusy DEF PatchMeta, Steps
  <1>2. op.step = "patch" /\ given' = given
    BY DEF PatchMeta, At
  <1>3. OpenedIn(disk) \ {op.dir} \subseteq OpenedIn(disk')
    <2>1. PICK b : Takes(b)
      BY PatchMetaDir
    <2>2. disk' = [disk EXCEPT ![op.dir] = b] /\ op.dir \in DOMAIN disk
      BY <1>1, <2>1, CallShape DEF Takes
    <2>3. DOMAIN disk' = DOMAIN disk /\ \A y \in DOMAIN disk : y # op.dir => disk'[y] = disk[y]
      BY <2>2
    <2> QED
      BY <2>3 DEF OpenedIn
  <1>4. CASE d # op.dir
    BY <1>2, <1>3, <1>4
  <1>5. CASE d = op.dir
    <2>1. op.series = given[op.dir]
      BY <1>1, OwnDirRight
    <2>2. op.from \in Seq(OpenedIn(disk) \ {op.dir}) /\ op.series = Merged(op.from)
      BY <1>1, <1>2, CompactionFacts
    <2>3. PICK n \in Nat : DOMAIN op.from = 1..n /\ \A i \in 1..n : op.from[i] \in OpenedIn(disk) \ {op.dir}
      BY <2>2, LenProperties, ElementOfSeq
    <2>4. \A i \in 1..n : op.from[i] \in OpenedIn(disk)
      BY <2>3
    <2>5. InputsGood(op.from, n)
      BY <2>3, <2>4, InputsAreGood, Zenon
    <2>6. x \in NamedStamps(Merged(op.from))
      BY <1>5, <2>1, <2>2, Zenon
    <2>7. PICK i \in 1..n : x \in NamedStamps(disk[op.from[i]].index)
      BY <2>5, <2>6, MergedStamps, Zenon
    <2>8. disk[op.from[i]].index = given[op.from[i]]
      BY <2>4, OpenedFacts, Zenon
    <2>9. op.from[i] \in OpenedIn(disk') /\ x \in NamedStamps(given'[op.from[i]])
      BY <1>2, <1>3, <2>3, <2>7, <2>8
    <2> QED
      BY <2>9
  <1> QED
    BY <1>4, <1>5

(* Every timestamp of a block that can be opened is, after the step, in some   *)
(* block that can be opened.                                                   *)
LEMMA NoStampIsLost ==
    ASSUME FilesInOrder, MergesKeepAll, [Next]_vars, NEW d \in OpenedIn(disk),
           NEW x \in NamedStamps(given[d])
    PROVE  \E e \in OpenedIn(disk') : x \in NamedStamps(given'[e])
  <1>1. d \in 1..created
    BY OpenedFacts
  <1>2. ASSUME OpenedIn(disk) \subseteq OpenedIn(disk'), \A y \in 1..created : given'[y] = given[y]
        PROVE  \E e \in OpenedIn(disk') : x \in NamedStamps(given'[e])
    BY <1>1, <1>2
  <1>3. CASE UNCHANGED <<disk, given>>
    BY <1>2, <1>3
  <1>4. CASE create_from_head
    BY <1>2, <1>4, StartKeepsOpened DEF create_from_head
  <1>5. CASE \E n \in 1..MaxInputs : \E from \in [1..n -> Opened] : compact(from)
    <2>1. PICK from : compact(from)
      BY <1>5
    <2> QED
      BY <1>2, <2>1, StartKeepsOpened DEF compact
  <1>6. CASE WriteChunks \/ WriteIndex \/ WriteMeta \/ WriteTombstones
    BY <1>2, <1>6, CallKeepsOpened
  <1>7. CASE PatchMeta
    BY <1>7, PatchLosesNothing
  <1>8. CASE \E y \in superseded : Delete(y)
    <2>1. PICK y \in superseded : Delete(y)
      BY <1>8
    <2>2. OpenedIn(disk') = OpenedIn(disk) \ {y} /\ given' = given
      BY <2>1 DEF Delete, OpenedIn
    <2>3. CASE d # y
      BY <2>2, <2>3
    <2>4. CASE d = y
      <3>1. PICK e \in OpenedIn(disk) \ superseded : CoversBy(given, given[e], {d})
        BY <2>4, ReplacedForm DEF MergesKeepAll, ReplacedIn
      <3> QED
        BY <2>2, <2>4, <3>1 DEF CoversBy
    <2> QED
      BY <2>3, <2>4
  <1>9. CASE \/ \E l \in LabelSets, t \in Times : append(l, t)
             \/ Verify \/ Interrupted \/ UNCHANGED vars
    BY <1>3, <1>9 DEF append, Verify, Interrupted, vars
  <1> QED
    BY <1>4, <1>5, <1>6, <1>7, <1>8, <1>9 DEF Next

(* What a query over the blocks has found it finds after every further step   *)
(* of a flush, of Block::compact with any number of inputs, of an error or a  *)
(* crash of the process, of a write_meta that leaves an incomplete meta.json  *)
(* and returns success, and of the removal of the inputs of a compaction      *)
(* whose block the caller has opened, as block.hpp asks.                      *)
THEOREM QueriesNeverShrink == Spec => QueryNeverShrinks
  <1>1. ASSUME FilesInOrder, MergesKeepAll, FilesInOrder', MergesKeepAll', [Next]_vars
        PROVE  Found \subseteq Found'
    <2>1. \A d \in OpenedIn(disk) : disk[d].index = given[d] /\ GoodIndex(given[d])
      BY <1>1, OpenedFacts
    <2>2. \A d \in OpenedIn(disk') : disk'[d].index = given'[d] /\ GoodIndex(given'[d])
      <3>1. \A d \in OpenedIn(disk') : d \in DOMAIN disk' /\ "index" \in disk'[d].files
        BY DEF OpenedIn, Openable
      <3>2. \A d \in OpenedIn(disk') : d \in 1..created' /\ disk'[d].index = given'[d]
        BY <1>1, <3>1 DEF FilesInOrder, Directories, IndexAfterChunks
      <3>3. GivenRight(given', created')
        BY <1>1, SeriesForm DEF MergesKeepAll
      <3> QED
        BY <3>2, <3>3 DEF GivenRight
    <2>3. \A x : x \in FoundIn(disk) <=> \E d \in OpenedIn(disk) : x \in NamedStamps(given[d])
      BY <2>1, FoundIs
    <2>4. \A x : x \in FoundIn(disk') <=> \E d \in OpenedIn(disk') : x \in NamedStamps(given'[d])
      BY <2>2, FoundIs
    <2>5. \A d \in OpenedIn(disk) : \A x \in NamedStamps(given[d]) :
            \E e \in OpenedIn(disk') : x \in NamedStamps(given'[e])
      BY <1>1, NoStampIsLost
    <2>6. FoundIn(disk) \subseteq FoundIn(disk')
      BY <2>3, <2>4, <2>5
    <2> QED
      BY <2>6, FoundForm
  <1>2. FilesInOrder /\ MergesKeepAll /\ FilesInOrder' /\ MergesKeepAll' /\ [Next]_vars
          => [Found \subseteq Found']_vars
    BY <1>1
  <1> QED
    BY <1>2, FilesComeInOrder, NothingIsLost, PTL DEF Spec, QueryNeverShrinks


-----------------------------------------------------------------------------
(* Series with labels.  A series without labels is in no posting list: a   *)
(* query does not find it and a compaction drops it, so that what follows  *)
(* is for series that have labels.                                         *)

LEMMA AllNamed ==
    ASSUME LabelledSeries, NEW index, GoodIndex(index)
    PROVE  NamedStamps(index) = Stamps(index)
  <1>1. {s \in index : DOMAIN s.labels # {}} = index
    BY DEF LabelledSeries, GoodIndex, IsSeries
  <1> QED
    BY <1>1, Zenon DEF NamedStamps

(* A block that Block::open accepts has every timestamp of every block that   *)
(* its meta.json names as a source, after any number of compactions of any    *)
(* number of inputs and wherever an error or a crash ended one of them.       *)
THEOREM SourcesCanBeReliedOn ==
    ASSUME LabelledSeries
    PROVE  Spec => []SourcesHold
  <1>1. ASSUME FilesInOrder, MergesKeepAll
        PROVE  SourcesHold
    <2> SUFFICES ASSUME NEW d \in Opened, NEW u \in disk[d].meta.sources
                 PROVE  Stamps(given[u]) \subseteq Stamps(disk[d].index)
      BY DEF SourcesHold
    <2>1. d \in OpenedIn(disk)
      BY OpenedForm
    <2>2. /\ disk[d].index = given[d] /\ GoodIndex(given[d])
          /\ DirRight(disk[d], given, created, d) /\ MetaFits(disk[d].meta, given, d)
      BY <1>1, <2>1, OpenedFacts
    <2>3. u \in 1..created
      BY <2>2 DEF DirRight
    <2>4. GoodIndex(given[u])
      BY <1>1, <2>3, SeriesForm DEF MergesKeepAll, GivenRight
    <2>5. NamedStamps(given[u]) \subseteq NamedStamps(given[d])
      BY <2>2, Zenon DEF MetaFits, CoversBy
    <2>6. NamedStamps(given[u]) = Stamps(given[u]) /\ NamedStamps(given[d]) = Stamps(given[d])
      BY <2>2, <2>4, AllNamed, Zenon
    <2> QED
      BY <2>2, <2>5, <2>6, Zenon
  <1>2. FilesInOrder /\ MergesKeepAll => SourcesHold
    BY <1>1
  <1> QED
    BY <1>2, FilesComeInOrder, NothingIsLost, PTL

LEMMA SamplesAre ==
    ASSUME NEW series
    PROVE  \A x : x \in SamplesOf(series)
             <=> \E s \in series : \E y \in ToSet(Samples(s.chunks)) :
                   x = [labels |-> s.labels, t |-> y.t, v |-> y.v]
  BY DEF SamplesOf

(* The time range in the meta.json of a block meets that of every query that  *)
(* one of its samples lies in.                                                *)
LEMMA MetaMeets ==
    ASSUME NEW meta, NEW g, NEW d, MetaFits(meta, g, d), GoodIndex(g[d]), NEW s \in g[d],
           NEW y \in ToSet(Samples(s.chunks)), NEW mint \in Nat, NEW maxt \in Nat,
           mint <= y.t, y.t <= maxt
    PROVE  Overlaps(meta.min_time, meta.max_time, mint, maxt)
  <1>1. IsSeries(s)
    BY DEF GoodIndex
  <1>2. PICK i \in DOMAIN s.chunks : y \in ToSet(s.chunks[i])
    BY <1>1, ChunkOfSample, Zenon
  <1>3. IsChunk(s.chunks[i]) /\ y.t \in 1..MaxTime
    BY <1>1, ChunkOfSample, Zenon
  <1>4. PICK lo \in Nat, hi \in Nat : lo = meta.min_time /\ hi = meta.max_time
    BY DEF MetaFits
  <1>5. PICK a \in Nat, b \in Nat : a = min_time(s.chunks[i]) /\ b = max_time(s.chunks[i])
    BY <1>3, ChunkTimes
  <1>6. a <= y.t /\ y.t <= b
    BY <1>2, <1>3, <1>5, ChunkTimes
  <1>7. lo <= a /\ b <= hi
    BY <1>4, <1>5 DEF MetaFits
  <1>8. ~(lo > maxt \/ hi < mint)
    BY <1>3, <1>6, <1>7, BlocksConstants
  <1> QED
    BY <1>4, <1>8, Zenon DEF Overlaps

(* Querier::select finds every sample of every block that Block::open accepts *)
(* with every time range that the sample lies in: neither the range that      *)
(* meta.json gives for a block, after compactions too, nor that of a chunk    *)
(* hides it.                                                                  *)
THEOREM RangesNeverHide ==
    ASSUME LabelledSeries
    PROVE  Spec => []RangeNeverHides
  <1>1. ASSUME FilesInOrder, MergesKeepAll
        PROVE  RangeNeverHides
    <2> SUFFICES ASSUME NEW mint \in Times, NEW maxt \in Times,
                        NEW d \in Opened, NEW x \in SamplesOf(disk[d].index),
                        mint <= x.t, x.t <= maxt
                 PROVE  x \in SamplesOf(querier_select(Everything, mint, maxt))
      BY DEF RangeNeverHides
    <2>1. d \in OpenedIn(disk)
      BY OpenedForm
    <2>2. /\ disk[d].index = given[d] /\ GoodIndex(given[d])
          /\ MetaFits(disk[d].meta, given, d)
      BY <1>1, <2>1, OpenedFacts
    <2>3. PICK s \in given[d] : \E y \in ToSet(Samples(s.chunks)) :
            x = [labels |-> s.labels, t |-> y.t, v |-> y.v]
      BY <2>2, SamplesAre
    <2>4. PICK y \in ToSet(Samples(s.chunks)) : x = [labels |-> s.labels, t |-> y.t, v |-> y.v]
      BY <2>3, Zenon
    <2>5. x.t = y.t
      BY <2>4
    <2>6. IsSeries(s)
      BY <2>2 DEF GoodIndex
    <2>7. y.t \in 1..MaxTime
      BY <2>6, ChunkOfSample, Zenon
    <2>8. mint \in Nat /\ maxt \in Nat /\ mint <= y.t /\ y.t <= maxt
      BY <2>5, <2>7, BlocksConstants DEF Times
    <2>9. DOMAIN s.labels # {}
      BY <2>6 DEF IsSeries, LabelledSeries
    <2>10. PICK r \in block_select(disk[d], Everything, mint, maxt) :
             r.labels = s.labels /\ y \in ToSet(Samples(r.chunks))
      <3>1. GoodIndex(disk[d].index) /\ s \in disk[d].index
        BY <2>2
      <3>2. Finds(disk[d], mint, maxt, s.labels, y)
        BY <2>8, <2>9, <3>1, BlockFindsAll, Zenon
      <3> QED
        BY <3>2, Zenon DEF Finds
    <2>11. Overlaps(disk[d].meta.min_time, disk[d].meta.max_time, mint, maxt)
      BY <2>2, <2>8, MetaMeets, Zenon
    <2>12. r \in querier_select(Everything, mint, maxt)
      BY <2>11 DEF querier_select
    <2>13. x = [labels |-> r.labels, t |-> y.t, v |-> y.v]
      BY <2>4, <2>10, Zenon
    <2> QED
      BY <2>10, <2>12, <2>13, SamplesAre
  <1>2. FilesInOrder /\ MergesKeepAll => RangeNeverHides
    BY <1>1
  <1> QED
    BY <1>2, FilesComeInOrder, NothingIsLost, PTL


(* The values of a block for one timestamp of a series. *)
LEMMA ValuesAre ==
    ASSUME NEW b, GoodIndex(b.index), NEW l, NEW t
    PROVE  \A v : v \in ValuesAt(b, Stamp(l, t))
             <=> \E y \in ToSet(DataOf(b.index, l)) : y.t = t /\ y.v = v
  <1>1. Stamp(l, t).labels = l /\ Stamp(l, t).t = t
    BY DEF Stamp
  <1>2. \A v : v \in ValuesAt(b, Stamp(l, t))
          <=> \E x \in SamplesOf(b.index) : x.labels = l /\ x.t = t /\ x.v = v
    BY <1>1 DEF ValuesAt
  <1>3. \A y : y \in ToSet(DataOf(b.index, l))
          <=> \E s \in b.index : s.labels = l /\ y \in ToSet(Samples(s.chunks))
    BY DataOfIndex, Zenon
  <1>4. ASSUME NEW v \in ValuesAt(b, Stamp(l, t))
        PROVE  \E y \in ToSet(DataOf(b.index, l)) : y.t = t /\ y.v = v
    <2>1. PICK x \in SamplesOf(b.index) : x.labels = l /\ x.t = t /\ x.v = v
      BY <1>2, Zenon
    <2>2. PICK s \in b.index : \E y \in ToSet(Samples(s.chunks)) :
            x = [labels |-> s.labels, t |-> y.t, v |-> y.v]
      BY SamplesAre
    <2>3. PICK y \in ToSet(Samples(s.chunks)) : x = [labels |-> s.labels, t |-> y.t, v |-> y.v]
      BY <2>2, Zenon
    <2>4. x.labels = s.labels /\ x.t = y.t /\ x.v = y.v
      BY <2>3
    <2> QED
      BY <1>3, <2>1, <2>4, Zenon
  <1>5. ASSUME NEW y \in ToSet(DataOf(b.index, l)), y.t = t
        PROVE  y.v \in ValuesAt(b, Stamp(l, t))
    <2>1. PICK s \in b.index : s.labels = l /\ y \in ToSet(Samples(s.chunks))
      BY <1>3, Zenon
    <2>2. PICK x : x = [labels |-> s.labels, t |-> y.t, v |-> y.v]
      OBVIOUS
    <2>3. x.labels = l /\ x.t = t /\ x.v = y.v
      BY <1>5, <2>1, <2>2
    <2>4. x \in SamplesOf(b.index)
      BY <2>1, <2>2, SamplesAre
    <2> QED
      BY <1>2, <2>3, <2>4, Zenon
  <1> QED
    BY <1>4, <1>5, Zenon

(* Timestamps increase: there is one sample for each. *)
LEMMA OneForEachTime ==
    ASSUME NEW s \in Seq(Sample), Increasing(s), NEW y \in ToSet(s), NEW z \in ToSet(s), y.t = z.t
    PROVE  y = z
  <1>1. DOMAIN s \subseteq Nat /\ \A i \in DOMAIN s : s[i].t \in Nat
    BY SampleTimes
  <1>2. PICK i \in DOMAIN s : y = s[i]
    BY DEF ToSet
  <1>3. PICK j \in DOMAIN s : z = s[j]
    BY DEF ToSet
  <1>4. CASE i < j
    BY <1>1, <1>2, <1>3, <1>4 DEF Increasing
  <1>5. CASE j < i
    BY <1>1, <1>2, <1>3, <1>5 DEF Increasing
  <1>6. CASE i = j
    BY <1>2, <1>3, <1>6
  <1> QED
    BY <1>1, <1>4, <1>5, <1>6

OnlyOne(s, t, z) == \A y : y \in ToSet(s) /\ y.t = t <=> y = z

(* The inputs that have a timestamp of a series. *)
InputsWith(from, n, x) == {i \in 1..n : x \in Stamps(disk[from[i]].index)}

(* The sample that the merge has for one timestamp. *)
LEMMA MergeHasLast ==
    ASSUME NEW from, NEW n, InputsGood(from, n), NEW l, NEW t, NEW last \in 1..n,
           Has(DataOf(disk[from[last]].index, l), t),
           \A j \in 1..n : last < j => ~Has(DataOf(disk[from[j]].index, l), t), DOMAIN l # {}
    PROVE  \E z \in Sample :
             /\ z.t = t
             /\ LastOf(DataOf(disk[from[last]].index, l), z)
             /\ OnlyOne(DataOf(Merged(from), l), t, z)
  <1>1. GoodIndex(disk[from[last]].index)
    BY DEF InputsGood
  <1>2. DataOf(disk[from[last]].index, l) \in Seq(Sample)
    BY <1>1, DataOfIndex, Zenon
  <1>3. PICK z \in Sample : z.t = t /\ LastOf(DataOf(disk[from[last]].index, l), z)
    BY <1>2, HasLast, Zenon
  <1>4. \A i \in 1..n : Parts(from, l)[i] = DataOf(disk[from[i]].index, l)
    BY PartsType
  <1>5. LastAmong(Parts(from, l), n, z)
    BY <1>3, <1>4, Zenon DEF LastAmong
  <1>6. /\ Kept(from, l) \in Seq(Sample) /\ Increasing(Kept(from, l))
        /\ z \in ToSet(Kept(from, l))
    BY <1>5, KeptIs, Zenon
  <1>7. Labelled(from, n, l)
    <2>1. PICK y \in ToSet(DataOf(disk[from[last]].index, l)) : y.t = t
      BY ThereHas, Zenon
    <2>2. \A w : w \in ToSet(DataOf(disk[from[last]].index, l))
            <=> \E s \in disk[from[last]].index : s.labels = l /\ w \in ToSet(Samples(s.chunks))
      BY <1>1, DataOfIndex
    <2>3. \E s \in disk[from[last]].index : s.labels = l
      BY <2>1, <2>2, Zenon
    <2> QED
      BY <2>3, Zenon DEF Labelled
  <1>8. PICK s \in Merged(from) : s.labels = l
    BY <1>7, MergedIs, Zenon
  <1>9. GoodIndex(Merged(from)) /\ Samples(s.chunks) = Kept(from, l)
    BY <1>8, MergedIs, Zenon
  <1>10. DataOf(Merged(from), l) = Kept(from, l)
    BY <1>8, <1>9, DataOfSeries, Zenon
  <1>11. OnlyOne(Kept(from, l), t, z)
    BY <1>3, <1>6, OneForEachTime, Zenon DEF OnlyOne
  <1> QED
    BY <1>3, <1>10, <1>11, Zenon

(* What b has for x is the latest that the last input with x has. *)
TakesLast(b, from, n, x) ==
    ValuesAt(b, x) = {Max(ValuesAt(disk[from[Max(InputsWith(from, n, x))]], x))}

LEMMA MergeTakesLast ==
    ASSUME LabelledSeries, NEW from, NEW n, InputsGood(from, n), NEW b, b.index = Merged(from),
           NEW x \in Stamps(Merged(from))
    PROVE  TakesLast(b, from, n, x)
  <1> DEFINE T == InputsWith(from, n, x)
  <1>1. GoodIndex(Merged(from))
    BY MergedIs, Zenon
  <1>2. PICK l, t : x = Stamp(l, t)
    BY <1>1, StampsOfIndex, Zenon
  <1>3. n \in Nat /\ \A i \in 1..n : GoodIndex(disk[from[i]].index)
    BY DEF InputsGood
  <1>4. \A i \in 1..n : i \in T <=> Has(DataOf(disk[from[i]].index, l), t)
    <2>1. \A i \in 1..n : Stamp(l, t) \in Stamps(disk[from[i]].index)
            <=> Has(DataOf(disk[from[i]].index, l), t)
      BY <1>3, StampsOfIndex, Zenon
    <2>2. \A i \in 1..n : i \in T <=> x \in Stamps(disk[from[i]].index)
      BY DEF InputsWith
    <2> QED
      BY <1>2, <2>1, <2>2, Zenon
  <1>5. x \in NamedStamps(Merged(from))
    BY <1>1, AllNamed, Zenon
  <1>6. DOMAIN l # {}
    BY <1>1, <1>2, <1>5, StampsOfIndex, Zenon
  <1>7. PICK k \in 1..n : k \in T
    <2>1. PICK i \in 1..n : x \in NamedStamps(disk[from[i]].index)
      BY <1>5, MergedStamps
    <2>2. x \in Stamps(disk[from[i]].index)
      BY <1>3, <2>1, AllNamed, Zenon
    <2> QED
      BY <2>2 DEF InputsWith
  <1>8. T \in SUBSET Nat /\ T \subseteq 1..n /\ \A y \in T : y <= n
    BY <1>3 DEF InputsWith
  <1>9. Max(T) \in T /\ \A y \in T : y <= Max(T)
    BY <1>3, <1>7, <1>8, Largest
  <1>10. PICK last \in 1..n : last = Max(T)
    BY <1>8, <1>9
  <1>11. Has(DataOf(disk[from[last]].index, l), t)
    BY <1>4, <1>9, <1>10, Zenon
  <1>12. \A j \in 1..n : last < j => ~Has(DataOf(disk[from[j]].index, l), t)
    <2>1. \A j \in 1..n : last < j => j \notin T
      BY <1>3, <1>9, <1>10
    <2> QED
      BY <1>4, <2>1, Zenon
  <1>13. PICK z \in Sample :
           /\ z.t = t
           /\ LastOf(DataOf(disk[from[last]].index, l), z)
           /\ OnlyOne(DataOf(Merged(from), l), t, z)
    BY <1>6, <1>11, <1>12, MergeHasLast, Zenon
  <1>14. PICK V : V = ValuesAt(disk[from[last]], x)
    OBVIOUS
  <1>15. PICK data \in Seq(Sample) : data = DataOf(disk[from[last]].index, l)
    BY <1>3, DataOfIndex, Zenon
  <1>16. \A v : v \in V <=> \E y \in ToSet(data) : y.t = t /\ y.v = v
    <2>1. \A v : v \in ValuesAt(disk[from[last]], Stamp(l, t))
            <=> \E y \in ToSet(DataOf(disk[from[last]].index, l)) : y.t = t /\ y.v = v
      BY <1>3, ValuesAre
    <2> QED
      BY <1>2, <1>14, <1>15, <2>1, Zenon
  <1>17. \A y \in ToSet(data) : y.t = t => y.v <= z.v
    <2>1. InAppendOrder(data)
      BY <1>3, <1>15, DataOfIndex, Zenon
    <2> QED
      BY <1>13, <1>15, <2>1, LastIsLargest, Zenon
  <1>18. Max(V) = z.v
    <2>1. z \in ToSet(data)
      BY <1>13, <1>15, LastIsThere, Zenon
    <2>2. z.v \in V /\ \A v \in V : v <= z.v
      BY <1>13, <1>16, <1>17, <2>1, Zenon
    <2>3. \A y \in Sample : y.v \in Nat
      BY BlocksConstants DEF Sample
    <2>4. V \in SUBSET Nat
      <3>1. \A y \in ToSet(data) : y.v \in Nat
        BY <2>3, ToSetType
      <3> QED
        BY <1>16, <3>1
    <2> QED
      BY <2>2, <2>4, LargestIs
  <1>19. \A v : v \in ValuesAt(b, x) <=> v = z.v
    <2>1. \A v : v \in ValuesAt(b, x)
            <=> \E y \in ToSet(DataOf(Merged(from), l)) : y.t = t /\ y.v = v
      BY <1>1, <1>2, ValuesAre
    <2>2. z \in ToSet(DataOf(Merged(from), l)) /\ z.t = t
      BY <1>13, Zenon DEF OnlyOne
    <2>3. \A y \in ToSet(DataOf(Merged(from), l)) : y.t = t => y = z
      BY <1>13, Zenon DEF OnlyOne
    <2> QED
      BY <2>1, <2>2, <2>3, Zenon
  <1>20. ValuesAt(b, x) = {z.v}
    BY <1>19
  <1> QED
    BY <1>10, <1>14, <1>18, <1>20, Zenon DEF TakesLast

(* Block::compact, for any number of inputs in any order and with any         *)
(* overlap: the new block has one value for each timestamp that some input    *)
(* has, and it is the latest value of the last of the inputs that have it.    *)
THEOREM LastOfInputsWins ==
    ASSUME LabelledSeries
    PROVE  Spec => []LastInputWins
  <1>1. ASSUME FilesInOrder, MergesKeepAll, op # Idle, At("meta"), op.from # <<>>
        PROVE  LET out == disk[op.dir]
                   in(i) == disk[op.from[i]]
               IN /\ Stamps(out.index) = UNION {Stamps(in(i).index) : i \in DOMAIN op.from}
                  /\ \A x \in Stamps(out.index) :
                       LET last == Max({i \in DOMAIN op.from : x \in Stamps(in(i).index)})
                       IN ValuesAt(out, x) = {Max(ValuesAt(in(last), x))}
    <2>1. disk[op.dir].index = op.series
      BY <1>1 DEF FilesInOrder, CallInStep, IndexAfterChunks, At
    <2>2. CallRight(op, disk, given, created, superseded)
      BY <1>1, CallForm DEF MergesKeepAll
    <2>3. op.from \in Seq(OpenedIn(disk) \ {op.dir}) /\ op.series = Merged(op.from)
      BY <1>1, <2>2, MergeForm DEF CallRight, MergeRight
    <2>4. PICK n \in Nat : DOMAIN op.from = 1..n /\ \A i \in 1..n : op.from[i] \in OpenedIn(disk)
      BY <2>3, LenProperties, ElementOfSeq
    <2>5. InputsGood(op.from, n)
      BY <1>1, <2>4, InputsAreGood
    <2>6. GoodIndex(Merged(op.from))
      BY <2>5, MergedIs, Zenon
    <2>7. \A x : x \in Stamps(Merged(op.from))
            <=> \E i \in 1..n : x \in Stamps(disk[op.from[i]].index)
      <3>1. NamedStamps(Merged(op.from)) = Stamps(Merged(op.from))
        BY <2>6, AllNamed, Zenon
      <3>2. \A i \in 1..n : NamedStamps(disk[op.from[i]].index) = Stamps(disk[op.from[i]].index)
        BY <2>5, AllNamed, Zenon DEF InputsGood
      <3>3. \A x : x \in NamedStamps(Merged(op.from))
              <=> \E i \in 1..n : x \in NamedStamps(disk[op.from[i]].index)
        BY <2>5, MergedStamps
      <3> QED
        BY <3>1, <3>2, <3>3, Zenon
    <2>8. Stamps(Merged(op.from)) = UNION {Stamps(disk[op.from[i]].index) : i \in DOMAIN op.from}
      BY <2>4, <2>7
    <2>9. ASSUME NEW x \in Stamps(Merged(op.from))
          PROVE  ValuesAt(disk[op.dir], x)
                   = {Max(ValuesAt(disk[op.from[Max({i \in DOMAIN op.from :
                            x \in Stamps(disk[op.from[i]].index)})]], x))}
      <3>1. {i \in DOMAIN op.from : x \in Stamps(disk[op.from[i]].index)} = InputsWith(op.from, n, x)
        BY <2>4, Zenon DEF InputsWith
      <3>2. disk[op.dir].index = Merged(op.from)
        BY <2>1, <2>3
      <3>3. TakesLast(disk[op.dir], op.from, n, x)
        BY <2>5, <3>2, MergeTakesLast, Zenon
      <3> QED
        BY <3>1, <3>3, Zenon DEF TakesLast
    <2> QED
      BY <2>1, <2>3, <2>8, <2>9, Zenon
  <1>2. FilesInOrder /\ MergesKeepAll => LastInputWins
    BY <1>1, Zenon DEF LastInputWins
  <1> QED
    BY <1>2, FilesComeInOrder, NothingIsLost, PTL

=============================================================================
