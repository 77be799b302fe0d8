# Verification of yak's external sort

yak watches a directory, collects CSV files in batches of ten, sorts each batch
with an external merge sort, thins the sorted rows out to one per interval, and
publishes the result in the directory it watches. This directory holds TLA+
modules of it, configurations with which TLC checks them on small instances,
and proofs that TLAPS checks for every instance. All paths below are relative
to `src/yak/src` of the repository unless they start with `src/`.

## The system

| part | state | operations | interacts with |
|---|---|---|---|
| main loop (`main.cpp`) | `files`, the shutdown test | dequeue, sort a full batch, resample, remove, rename, stop | queue, sorter, signal channel, log |
| signal handler (`main.cpp`, `SignalChannel.h`) | `m_shutdown_requested`, `m_cv` | store and notify; timed waits | every worker |
| poller (`DirectoryPollerMacOS.cpp`, `AbstractPoller`, `AbstractWorker`, `PollerBridge`) | `m_last_files`, `m_file_paths`, the kqueue | list, watch, compare lists, hand on | file system, queue, signal channel |
| `SafeQueue` | `m_queue`, waiters | `enqueue`, `dequeue_with_timeout` | poller to main, everybody to the log |
| sorter (`Sorter.cpp`) | temporary files, futures, the heap, streams | split, sort chunks in tasks, merge, merge again, clean up, resample | file system, CSV |
| CSV (`CSV.cpp`) | the state of the parser, header and table of one chunk | parse a line, load, sort, write | sorter tasks; the merge parses with `read_row` too |
| log (`logging/`) | `log_queue`, `m_should_run` | enqueue, print, drain, stop, join | all threads |
| `ArgParser`, `Util`, `Version` | none that lasts | | |
| `src/benchmark/generate` | | writes sample files | |

What is hard in it: one task per chunk beside the thread that waits for them; a
merge whose comparison is the negation of the one that sorted the chunks; lines
that are parsed, written with quotes and parsed again, with quotes that are not
doubled and rows of any length; columns that are read once in the life of the
process; opens, writes, removals and renames whose failure is not noticed; exceptions that cross threads; a
directory that changes while it is listed, and that the program changes itself;
a shutdown flag that is announced without the lock of those who wait for it; a
log thread that may be stopped before it ran. `PROJECT.json` lists these
hazards by line, with the properties that answer them, or a note why none does.

What makes the parts correct, in a sentence each: *split* - every line below
the header is in exactly one chunk, in order, below the header. *Chunk tasks* -
none is read before it has written and none outlives its call. *Merge* - all
lines, once, in order, whatever fails a sorted part of them. *Comparison* - a
strict weak order, the same one in both places. *CSV* - commas separate outside
quotes only, and a row comes back from the file it was written to. *Resample* - kept rows are
spaced, dropped rows are covered. *Poller* - each arrival is seen and handed on
at most once. *Main* - the program's output does not keep it busy; a SIGINT
ends it. *Log* - messages keep their order and none is lost.

## The modules

| module | models | state and actions |
|---|---|---|
| `MergeSort` | `Sorter::merge_sort`, `Compare::operator()` | `file`, `pos`, `heap`, `out` are the streams, their read positions, `min_heap` and the result. `OpenAndSkipHeaders`, `PrimeHeap`, one `MergeStep` per turn of the loop, `CleanUp`. |
| `Split` | `split_file_in_chunks_of_size`, `write_chunk` | One `ReadLine` per `getline`; `Finish` writes what is left. |
| `RowOrder` | both functions `is_smaller` | Operators only; the recursion over the columns is "the first column in which the rows differ". |
| `CSV` | `read_row`, `read_csv`, `convert_to_row`, `sort_in_memory_and_write`, `write` | A chunk on its way: loaded, sorted, written, and read by the merge. The parser takes a step per character (`ReadChar`, a disjunct per case of `read_row`), the rest a step per row or field; `RowTooLong` and `WriteThrows` are the two ways it ends badly. |
| `Resample` | `resample_and_write` | `KeepFirst`, `ResampleRow`, `RefuseRow` (`stol` throws), `LongRowKills`, `EndOfFile`. |
| `SortSpec` | the promise of `Sorter::sort` | `TakeHeader`, where no file was sorted before; then one step from the batch to all of its rows, in order if its files have the columns in effect, or to a failure that is explained by a row, by two rows that lack a field of these columns, or by a file operation. Where operations may fail rows may be missing, but none comes twice. |
| `Sorter` | `sort`, `external_sort`, `process` | Instances of `Split` and `MergeSort` over one `disk`; the thread of `sort` (`Main`) beside one `Task` per chunk. `columns` is `CSV_COLUMNS`, which may come from an earlier call. With `MayFail` a file cannot be opened for reading (`Delivered`) or writing, a write breaks off, a removal leaves its file (`RemoveFiles`), or `std::async` throws. `stuck` records for the properties what was left so. |
| `SafeQueue` | `SafeQueue` | A step per hold of the mutex; waiting consumers are asleep or awake. |
| `LogProcessor` | `Logging::INFO`..., `LogProcessor` | An instance of `SafeQueue`; threads that log, the log thread, `Stop` and `Join` of main. |
| `SignalChannel` | `SignalChannel`, the handler, `wait_for` | Test, sleep and time-out are steps of their own, so that a notification can fall between them. |
| `DirectoryPoller` | `DirectoryPoller` on kqueue | Taking an event and listing the directory are two steps; the directory changes in between. |
| `Yak` | `main`, `AbstractWorker::run`, `AbstractPoller::step` | Instances of `SignalChannel` and `DirectoryPoller`, the main loop, the user, crashes and restarts. What the main loop makes and removes may silently stay as it is (`Fails`). |

`MC*` modules give the constants values; `*_proofs` modules hold theorems.
Definitions that start with a comment "Variant:" are deviations a slip in the
code could cause. No specification uses them: each is put in place of the
definition after it to see that a property notices (`PROJECT.json`, `mutants`).

Abstractions that matter when a result is read:

* `CSV` knows lines by their characters. Elsewhere lines are known by their place
  in a file and fields by what the comparison tells apart; `Sorter` knows of a
  line how many fields it has and how the columns of a header order it.
* A row with more fields than the columns it is read with is undefined
  (`CSV.cpp:99`): the models let the process die of it, or drop the surplus.
  The surplus never takes the name of a column that is sorted by.
* A header without id or timestamp is modelled where it occurs in the code's
  own way, as the first line of an empty or blank file in `CSV_COLUMNS`. Files
  whose own header lacks them are not (`SorterAssumption`): their chunks throw
  in the comparison as soon as they have two rows.
* The merge takes a row's fields by their place in `CSV_COLUMNS`. `Throws(h, a, b)` says
  that `is_smaller` needs a field that one of the two rows does not have, for a header `h` without
  the columns or with them further to the right than the row is long. Which pairs a
  heap compares is not fixed: with two lines or more in it some pair is compared (`Comparing`).
* To `Resample` a timestamp that is missing or no number is one value, which
  makes `stol` or `at` throw.
* A file that cannot be opened reads as empty. A write that fails leaves a
  prefix of whole lines; a line cut in half is not modelled. An open for reading may fail,
  each one for itself; reading an open file does not fail midway.
* `disk` is empty when `sort` is called: temporary files that an earlier call or process left
  behind are not modelled. Within a batch they are: a file that is twice in it meets what
  could not be removed after its first turn.
* `ifstream`s see the files as they were when `merge_sort` was called, and that
  this is sound is a property (`MergeInputsAreSettled`).
* The `int` that counts the bytes of a chunk is not wrapped: that takes one line of 2 GB.
* A timestamp sum wraps (`Unsigned`), and the properties of `Resample` are
  stated where it does not (`NoWrap`).
* For equal keys `std::sort` and the heap may choose any order; the models
  allow every choice. The comparison of the heap holds both ways for equal
  lines; the models take what heaps make of that, the top is some smallest line. `MayFollow` is
  that comparison, and `IsTop` a line that it puts in front of every other.
* In `Yak` only names that `should_add_file` accepts are in `dir`; other files
  show as events. The contents of files are not in `Yak`: a sort there makes
  one file, or none when its output cannot be opened, or ends the program. A call of `dequeue_with_timeout` is one step;
  `SafeQueue` shows what it is made of.

## The runs

| run | shows | bounds, and why they are enough |
|---|---|---|
| `merge` | `HeapHoldsFronts`, `OutputIsLowerSet`, `NothingLostOrInvented`, `Terminates` | Up to three files of up to two rows, with equal keys, empty files and every failure to open or write: a stream that ends, one that goes on and one that never opened meet in the heap. |
| `split` | order, coverage, header and size of chunks, `SplitEnds` | Up to six lines of 0, 1, 2 or 4 bytes and chunks of 4: below, at and above the limit, blank lines before and after the header, three chunks and more. Writes succeed here; `sorter_faults` uses the same actions with failures. |
| `csv` | `FieldsAreSeparated`, `RowsSurviveRewriting`, `ChunkOrderIsStrictWeak`, `MergeComparesAsChunks`, `MergeReadsSortedChunk` | Every line of up to four of the characters quote, comma, letter and digit below five headers (one of them quoted, one with a comma at the end, one that names one column, one that swaps them): each transition of the parser after each other. Two rows with quoted commas and doubled quotes or blank. Three rows over six ids and two timestamps, among them two ways to write 7: enough to refute transitivity. |
| `csv_mixed` | **violated**: `AscendingOrder`, ascending order is transitive | The same files; ids that mix numbers and text. |
| `csv_quotes` | **violated**: `QuotesSurviveRewriting` | The same files; a row with a quote in a field. |
| `resample` | `KeptRowsAreSpaced`, `DroppedRowsAreCovered`, `ReadableFilesFinish` | Up to four rows of two ids, rows that are too long, timestamps around the interval and up to the last value before the sum wraps. |
| `resample_ties` | **violated**: a "New ID" is new | Files sorted by the program's own comparison, with ids 7 and 07. |
| `sorter` | `MergeInputsAreSettled`, `TasksAreJoined`, `OnlyResultIsLeft`, `FilesStartClean`, `ImplementsSortSpec`, `SortReturns` | Batches of one or two of ten files: several chunks, equal rows, no rows, no lines, a blank first line, swapped columns, a third column behind or in front of the two that sort (a header `x,id,timestamp`, whose places shorter rows do not reach), a row that is too long, one that is too short; one file twice; and `CSV_COLUMNS` empty or left by any of them. One file that sets the columns and one that does not agree with them is all that `CSV_COLUMNS` can get wrong. |
| `sorter_faults` | `OnlyResultIsLeft` and `ImplementsSortSpec` when any open, write, removal or start of a thread may fail | A file of two chunks alone; one or two of two files of one chunk, one of them with a row that makes its task throw, and each of them twice: the second turn finds what could not be removed after the first. |
| `sorter_benchmark` | **violated**: data of `benchmark/generate` can be sorted | One file with the header that the generator writes. |
| `log` | `MessagesKeepOrder`, `NoSleepOverMessage`, `AllIsPrinted`, `LogStops` | Three threads with up to two messages each. |
| `yak` | `NoFileGoesUnseen`, `HandedOnOnce`, `BatchesAreFed`, `ShutdownEnds` | Three files, batches of three, two changes by the user, crashes or operations on files that fail at any moment (`Budget`): enough for a batch, for its two files to come back as input, and for a second batch with one of them; a watch or a sort may fail, too. `ShutdownEnds` ends with the join of the poller; the log, which main stops after it, is the subject of `log`. With a batch of ten instead of three the margin of `BatchesAreFed` only grows. |

Deadlock is checked in no run: every one of these programs and functions may
end. That they do end, and do not hang before, is what the liveness properties
say; `csv` has none, as its steps are a loop over a file of one thread.

### Fairness

All fairness is weak and of one kind: a thread that can go on does. Loops of one
thread (`MergeSort`, `Split`, `Resample`) have it on their next step; `Sorter`
for the thread of `sort` and for each task, as the operating system schedules
threads; `LogProcessor` and `Yak` for each thread and for the time of a wait,
which passes by itself. Nothing is assumed of the user, of crashes, restarts or failures.

### Violated claims

* `AscendingOrder` - digits compare as numbers and everything else as text. The run finds
  `07 < 1a < 7`, although 07 and 7 are equal; `9 < 10 < 1a < 9` is of the same kind.
  Ids from `benchmark/generate` are such a mixture.
* `NewIdIsNew` - sorting takes 7 and 07 for one id, resampling for two; their
  rows alternate and none is thinned out.
* `QuotesSurviveRewriting` - the writer does not double quotes, so a field with a
  quote in it is cut, joined or split when the merge reads it again.
* `BenchmarkDataIsSorted` - the generator's header ends with a comma; writing
  the first row throws, and nothing catches it.

Seen while modelling and not the subject of a run: an exception in a task leaves
the chunks of its file on disk (`Unwind` removes nothing); a chunk that could not be removed
is merged once more when the batch has its file again and the new one cannot be opened; a stop
of the log that comes before its thread has run is lost, and the join waits for ever; a file without lines
as the first one sorted leaves a nameless column in `CSV_COLUMNS`, and every
later merge of two rows throws; the result's first line is `id,timestamp`
whatever its columns are; `NUM_THREADS` is not used,
although a comment in `external_sort` plans a fixed number of workers;
`split` skips blank lines before the header and `CSV::read_header` does not;
the inotify poller includes a header and names a flag that do not exist.

## The proofs

| module | theorem | says |
|---|---|---|
| `MergeSort_proofs` | `MergeTypeCorrect` | `TypeOK` always holds |
| | `MergeHoldsFronts` | `HeapHoldsFronts` |
| | `MergeLosesNothing` | `NothingLostOrInvented` |
| | `MergeIsSorted` | `OutputIsLowerSet`, for a strict weak order and sorted inputs |
| `RowOrder_proofs` | `MergeComparesLikeChunks` | the two comparisons agree on complete rows |
| | `HomogeneousRowsAreOrdered` | the comparison is a strict weak order on homogeneous rows |
| `CSV_proofs` | `CSVTypeCorrect` | `TypeOK` |
| | `CSVSeparatesFields` | `FieldsAreSeparated` |
| | `CSVOrdersChunks` | `ChunkOrderIsStrictWeak` |
| | `CSVMergesAsSorted` | `MergeComparesAsChunks` |
| | `CSVRowsSurvive` | `RowsSurviveRewriting` |
| | `CSVMergesSorted` | `MergeReadsSortedChunk` |
| `Resample_proofs` | `ResampleTypeCorrect` | `TypeOK` |
| | `ResampleSpaces` | `KeptRowsAreSpaced`, for grouped and ascending inputs and without wrap |
| | `ResampleCovers` | `DroppedRowsAreCovered`, under the same assumptions |
| `Split_proofs` | `SplitTypeCorrect` | `TypeOK` |
| | `SplitKeepsOrder` | `ChunksKeepOrder` |
| | `SplitCoversBody` | `ChunksCoverBody` |
| | `SplitRepeatsHeader` | `ChunksStartWithHeader` |
| | `SplitBoundsChunks` | `ChunksAreBounded` |
| `Sorter_proofs` | `SorterJoinsTasks` | `TasksAreJoined` |
| | `SorterCleansUp` | `OnlyResultIsLeft`, removals that fail included |
| | `SorterStartsClean` | `FilesStartClean`, in the same way |
| | `SorterTypeCorrect` | `TypeOK` |
| | `SorterMergesSettledFiles` | `MergeInputsAreSettled` |
| | `SorterImplementsSortSpec` | `ImplementsSortSpec`: every step of the thread and its tasks is a step of `SortSpec`, or hidden |
| `LogProcessor_proofs` | `LogTypeCorrect` | `TypeOK` |
| | `LogKeepsOrder` | `MessagesKeepOrder` |
| | `LogNeverOversleeps` | `NoSleepOverMessage` |
| | `LogPrintsAll` | `AllIsPrinted` |
| `Yak_proofs` | `YakTypeCorrect` | `TypeOK` |
| | `YakSeesAll` | `NoFileGoesUnseen` |
| | `YakHandsOnOnce` | `HandedOnOnce` |
| | `YakBatchesAreFed` | `BatchesAreFed` |

*Merge.* `NothingLostOrInvented` is not inductive: that nothing is missing at
the end follows from where lines are in between. The invariant adds that the
lines of a stream up to its position are split between the result and the heap
- unless a write has failed, and only then may one be in neither - that the
heap holds of each stream exactly its last line read or the stream is at its
end, and that positions stay within the files. Sortedness adds that no line
written is greater than one in the heap; with the order of each file that bounds all
lines not read yet, and transitivity carries it over a step.

*Comparison.* By the first column in which two rows differ; transitivity of "not
smaller" column by column, which is where homogeneity is needed.

*Resample.* The invariant adds that `current` is the last row kept, that kept
numbers ascend, and that the rows from `current` to the last row read have one id.

*Split.* The invariant adds what `header` means (`HeaderFound`): as long as it is
blank nothing was collected or written and no line read has text; from then on it
is the first line with text. A read first appends a line greater than every
line there is (`TakingKeeps`), and a write moves the lines kept back below a
header, all of them unless writes may fail (`CuttingKeeps`). That less than
`ChunkSize` bytes are kept back between two turns is part of `TypeOK`. For the
bound of a chunk the invariant adds `Weighed`: `bytes` is no less than the sum of
the lines kept back. That sum, `BytesOf`, is a recursive function, so it has
first to be shown to satisfy its own equation (`BytesOfIsSum`): induction on a set of
numbers follows from the library's theorem on minimal elements (`SetInduction`), by
it there is a sum for the lists of every length, and two such sums agree. Then a
line more adds its bytes (`SumAppend`), a part of the lines has no more than
all of them (`SumOfPrefix`), and the lines of a chunk but its last are the first of those kept back.

*CSV.* `FieldsAreSeparated` is inductive but for the types: a character changes
the parity of the quotes before it, or the number of separators, or neither, as
the state of the parser says. The strict weak order and the agreement of the
comparisons are the theorems of `RowOrder_proofs`, for rows that were parsed:
the type invariant gives every row its columns from the header. That a row
comes back goes by the layout of its line: numbers `p` at which its fields close
(`Laid`). The writer extends it field by field (`LaidExtends`); for the parser
`InField` says by it in which field it is, before, between or behind the quotes,
and what it has collected. A field without quotes cannot end early
(`CharIsRead`), and at the end of the line every field is in (`LineIsRead`). The
layout exists for every line until it is read, so that no induction over the
line is needed. With the order the rows were written in (`LoadedSorted`) and
the agreement of the comparisons, the merge reads sorted chunks.

*Sorter, its tasks and files.* `Joined`: the tasks up to `awaited` have stored their chunk, the phases
that come after the wait have waited for all, and `Unwind` only leaves when no
task runs. `Names` says for every phase which files there can be besides those whose
last removal failed (`Loose`): the sorted files of the batch so far, and while one
is being sorted its chunks, sorted chunks and
result. It needs `Joined`, because a task that still ran could bring back a
sorted chunk that the merge has removed.

*Sorter, the promise.* That `sort` implements `SortSpec` rests on `Inv`, which
follows a row through the program. Each conjunct says what a stage
hands to the next, and each is needed by the one after it:

* `Splitting` - the invariant of `Split_proofs`, instantiated for the split within `Sorter`,
  and, where no operation fails, that the chunks on disk are those the split made until the file is done;
* `Cutting` - a chunk that could not be written may have an older one of its name in its
  place, and this must not bring a row into two chunks. Which chunk a row belongs to depends on
  the file alone: `Track` counts the bytes as the split does, and `Home` is the chunk of a
  row. The split stands where the track of its file says;
* `Parts` - whatever chunk or sorted chunk is on disk, from this turn of its file or an
  earlier one, has only rows that belong to it (`Part`), and the sorted one has them once and in order;
* `Tasks` - what a task has put into its file: nothing, the header, or in order
  the rows of its chunk (`StoredIsGood`). A task only writes below its own path
  (`PathsDiffer`), so that a step of one keeps what the others have;
* `InputsHeld` - what the merge holds of its inputs is what is on disk, sorted
  and, where no operation fails, complete. It needs `Joined`, for the tasks, and `Names`, for the merge's own target;
* `MergeRuns` - the invariants of `MergeSort_proofs`, instantiated. That the merge sorts
  by a strict weak order follows from `RowsAreOrdered` for the rows it meets,
  which are complete (`CompleteRow`);
* `Output` - the target has the lines that the merge has written. With `MergeRuns`
  the sorted file of an input carries its rows when the heap is empty (`MergedIsGood`);
* `FilesDone` - the files sorted before are left alone, by the chunks, tasks and merges
  of later ones. A path that comes twice is sorted twice, the second time over the first result;
* `Columns` - `CSV_COLUMNS` is a line that was read, from the first file on;
* `Reasons` - a task that threw and a row that killed the process each point to a row of the
  batch, and a comparison that threw to two of them (`ComparingExplained`).

`StepsImplement` then has these cases: the return of the last merge (`ReturnSucceeds`), an
end without a result (`EndFails`), the first call of `external_sort`, which takes the columns,
and everything else, which the caller does not
see (`OthersStutter`). How often a row is in the result is counted by a map from its places in the
result to the files they came from; it is an injection, and where nothing fails a
surjection onto the files that have the row (`RowCount`).
`MergeInputsAreSettled` is `InputsHeld` at the files on disk.

*Log.* The messages printed, the one in hand and the queue are together all
messages in order. That the log thread ends with nothing in hand and nothing in
the queue (`LogDrains`) needs that `Stop` comes when main has left its loop, and
that nobody logs from then on.

*Yak.* `NoFileGoesUnseen` is inductive as it stands. For `HandedOnOnce` the
invariant is `Balance`: what is in the directory and not in the poller's list is owed to the queue, and
so is every path the poller still holds, of which there are no two the same. For
`BatchesAreFed` it is `Fed`: ten files for each batch and every path on its way -
in main's vector, in the queue, held by the poller or not listed yet - are no
more than the user gave and two for each batch. The sum is kept step by step: a
path moves from one place to the next, and only the merged file and the result
are new. An operation on a file that fails adds nothing (`Touched`).

The theorems assume what the modules assume of their constants and what their
statements name; they hold for any number and size of files, rows, chunks,
threads, messages and batches. `FieldsAreRead` says that `FieldOf` gives every
text a field of `RowOrder`, and `PathsAreClosed` that the names of results are paths.
`SorterAssumption` says that lines have sizes and fields and that the header of a file with text
names the columns to sort by. `RowsAreOrdered` says that the comparison orders the rows that have
all columns; by `HomogeneousRowsAreOrdered` it does so where every column
has only numbers or only other text, and `csv_mixed` shows a batch where it does not. Rows that
lack a column, have too many, or stand in files with different headers are not
excluded: what `SortSpec` promises of them is what is proved. Nothing is assumed of `Throws` but
that two rows with all columns of a header that names the sort columns can be compared.

Every invariant that a passing run checks is proved. Out of the reach of the prover, and
checked by TLC only, is everything under fairness: `Terminates`, `SplitEnds`,
`ReadableFilesFinish`, `SortReturns`, `LogStops`, `ShutdownEnds`.

## Not modelled

* The inotify poller (`DirectoryPoller.cpp`): it includes a header and names
  a flag that do not exist, so it has no behaviour to model.
* Log sinks and formats: nothing in the program depends on what they write.
* The argument parser and `Version`: sequential, and done before the first thread starts.
* `CSVIterator`, `CSV::resample_in_memory`, `CSV::size`, `Sorter::check_exit`,
  `SafeQueue::dequeue` and most of `Util`: never called.
* Contents of input files that change while they are sorted, a file that is
  half written when its name appears, lines of 2 GB, a limit to the threads other
  than that `std::async` may throw.
* A file of the user with the name of a merged file: it is overwritten and removed.
* Build files and the test template. Of `benchmark/generate` only the shape of the
  files it writes.

## Plan

Done, in this order: `MergeSort`, `Split`, `RowOrder`, `Resample`, `SortSpec`
and `Sorter` on top of them; `SafeQueue` and `LogProcessor`; `SignalChannel`,
`DirectoryPoller` and `Yak` on top of them; `CSV`, and columns that differ from file
to file in `Sorter`; proofs of the sequential parts, then of the concurrent ones.

Then the proof that `Sorter` implements `SortSpec`, from the proofs of its parts.

Left:

1. An abstract specification of what the watched directory gives to `main`
   (every file of the user is sorted, once, in a batch), implemented by `Yak`.
2. Let the user of `Yak` own a file with the name of a merged file, once somebody
   has said what should become of it.
