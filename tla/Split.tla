------------------------------- MODULE Split -------------------------------
(***************************************************************************)
(* Sorter::split_file_in_chunks_of_size: one pass over an input file that  *)
(* cuts its lines into chunk files.  The first line that is not blank is   *)
(* taken for the header and written on top of every chunk.                 *)
(*                                                                         *)
(* A line is known by its number in the source.  The header and the lines  *)
(* of a chunk are line numbers; number 0 is the empty string that header   *)
(* holds at first.                                                         *)
(***************************************************************************)
EXTENDS Integers, Sequences

CONSTANTS
  Size,       \* Size[l]: the bytes of line l without its line break
  Sources,    \* the files to split, as sequences of lines
  ChunkSize,  \* chunk_size_in_bytes
  MayFail     \* whether opening or writing a chunk file may fail

ASSUME SplitAssumption ==
  /\ ChunkSize \in Nat \ {0}
  /\ MayFail \in BOOLEAN
  /\ Size \in [DOMAIN Size -> Nat]
  /\ Sources \subseteq Seq(DOMAIN Size)

VARIABLES
  source,  \* the lines of the file
  next,    \* the number of lines getline has read
  header,
  lines,
  bytes,   \* current_bytes_read
  chunks,  \* what was written to each of paths
  reading  \* the function has not returned

splitVars == <<source, next, header, lines, bytes, chunks, reading>>

SizeOf(n) == IF n = 0 THEN 0 ELSE Size[source[n]]

\* Variant: a chunk that has exactly its size is not full.
IsFullBeyond(total) == total > ChunkSize

IsFull(total) == total >= ChunkSize

\* Variant: the header is a line of the first chunk, too.
TakenWithHeader(n) == Append(lines, n)

\* Variant: lines are put in front of the lines before them.
TakenInFront(n) == IF SizeOf(header) = 0 THEN lines ELSE <<n>> \o lines

\* The lines of the chunk when line n is read: the line that becomes the header is
\* none of them.
Taken(n) == IF SizeOf(header) = 0 THEN lines ELSE Append(lines, n)

\* Variant: the header is not put on top.
ChunkWithoutHeader(h, ls) == ls

Chunk(h, ls) == <<h>> \o ls

\* write_chunk reports a file it cannot open to the log only, and an output
\* error not at all: what is on disk is then a part of the chunk, or no file.
\* The path joins the list of chunks either way.
WriteChunk(ls) ==
  \E n \in (IF MayFail THEN 0 .. Len(ls) ELSE {Len(ls)}) :
    chunks' = Append(chunks, SubSeq(ls, 1, n))

Init ==
  /\ source \in Sources
  /\ next = 0
  /\ header = 0
  /\ lines = <<>>
  /\ bytes = 0
  /\ chunks = <<>>
  /\ reading = TRUE

\* One turn of the reading loop: the next line becomes the header or joins the
\* chunk, and a chunk that has reached its size is written.
ReadLine ==
  /\ reading
  /\ next < Len(source)
  /\ next' = next + 1
  /\ LET n     == next + 1
         total == bytes + SizeOf(n)
     IN  /\ header' = IF SizeOf(header) = 0 THEN n ELSE header
         /\ \/ /\ ~IsFull(total)
               /\ lines' = Taken(n)
               /\ bytes' = total
               /\ UNCHANGED chunks
            \/ /\ IsFull(total)
               /\ WriteChunk(Chunk(header', Taken(n)))
               /\ lines' = <<>>
               /\ bytes' = 0
  /\ UNCHANGED <<source, reading>>

\* Variant: what is left at the end of the file is not written.
FinishWithoutRest ==
  /\ reading
  /\ next = Len(source)
  /\ reading' = FALSE
  /\ UNCHANGED <<source, next, header, lines, bytes, chunks>>

\* getline failed at the end of the file: what is left is the last chunk.
Finish ==
  /\ reading
  /\ next = Len(source)
  /\ IF lines = <<>>
     THEN UNCHANGED <<lines, bytes, chunks>>
     ELSE /\ WriteChunk(Chunk(header, lines))
          /\ lines' = <<>>
          /\ bytes' = 0
  /\ reading' = FALSE
  /\ UNCHANGED <<source, next, header>>

SplitNext == ReadLine \/ Finish

Spec == Init /\ [][SplitNext]_splitVars

\* A loop of one thread over a finite file.
FairSpec == Spec /\ WF_splitVars(SplitNext)

----------------------------------------------------------------------------
(* What makes a split correct. *)

IsText(n) == Size[source[n]] > 0

\* The first line that is not blank.
IsHeader(n) == n \in 1 .. Len(source) /\ IsText(n) /\ \A m \in 1 .. n - 1 : ~IsText(m)

\* The lines read that come after one that is not blank.
BelowHeader == {n \in 1 .. next : \E m \in 1 .. n - 1 : IsText(m)}

\* The lines of chunk k below its header.
Body(k) == {chunks[k][m] : m \in 2 .. Len(chunks[k])}
Pending == {lines[m] : m \in DOMAIN lines}

\* The variables hold values of their types, and line numbers lines that exist.
TypeOK ==
  /\ source \in Sources
  /\ next \in 0 .. Len(source)
  /\ header \in 0 .. next
  /\ lines \in Seq(1 .. next)
  /\ bytes \in 0 .. ChunkSize - 1
  /\ chunks \in Seq(Seq(1 .. next))
  /\ reading \in BOOLEAN

\* Read in the order of the chunks, then of the lines kept for the next one, the
\* lines come in the order of the file, none of them twice: what a chunk holds is
\* all older than what a later chunk holds.
ChunksKeepOrder ==
  /\ \A k \in DOMAIN chunks :
       /\ \A m, n \in 2 .. Len(chunks[k]) : m < n => chunks[k][m] < chunks[k][n]
       /\ \A j \in 1 .. k - 1 : \A x \in Body(j), y \in Body(k) : x < y
       /\ \A x \in Body(k), y \in Pending : x < y
  /\ \A m, n \in DOMAIN lines : m < n => lines[m] < lines[n]

\* No line is lost or invented at the edge of a chunk: when every write succeeds,
\* the chunks and the lines kept back are together what was read below the header.
ChunksCoverBody ==
  LET kept == (UNION {Body(k) : k \in DOMAIN chunks}) \cup Pending
  IN  kept \subseteq BelowHeader /\ (~MayFail => kept = BelowHeader)

\* Every chunk file can be sorted by itself: a reader that takes its first line for
\* the header gets the header of the source.
ChunksStartWithHeader ==
  \A k \in DOMAIN chunks : chunks[k] # <<>> => IsHeader(chunks[k][1])

\* The cost bound of the split: without its last line a chunk is below ChunkSize, so
\* a chunk in memory is at most ChunkSize and one line.
BytesOf[s \in Seq(Nat)] == IF s = <<>> THEN 0 ELSE SizeOf(s[1]) + BytesOf[Tail(s)]
ChunksAreBounded ==
  \A k \in DOMAIN chunks :
    Len(chunks[k]) > 1 => BytesOf[SubSeq(chunks[k], 2, Len(chunks[k]) - 1)] < ChunkSize

\* The split comes to its end, with no line kept back.
SplitEnds == <>(~reading /\ lines = <<>>)
============================================================================
