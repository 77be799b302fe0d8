---------------------------- MODULE Split_proofs ----------------------------
(***************************************************************************)
(* The split, for every file and every chunk size: the header is found     *)
(* once and tops every chunk, and the lines below it are cut into chunks   *)
(* in their order, without loss at an edge.                                *)
(***************************************************************************)
EXTENDS Split, TLAPS, SequenceTheorems, WellFoundedInduction

\* What the header variable means between two turns of the loop.
HeaderFound ==
  /\ SizeOf(header) = 0 =>
       /\ chunks = <<>>
       /\ lines = <<>>
       /\ bytes = 0
       /\ \A m \in 1 .. next : ~IsText(m)
  /\ SizeOf(header) # 0 => header # 0 /\ IsHeader(header)

\* A file is a sequence of lines that have a size.
LEMMA SourceType ==
  ASSUME TypeOK
  PROVE  /\ source \in Seq(DOMAIN Size)
         /\ Len(source) \in Nat
         /\ \A n \in 1 .. Len(source) : Size[source[n]] \in Nat
         /\ \A n \in 0 .. Len(source) : SizeOf(n) \in Nat
<1>1. source \in Seq(DOMAIN Size) /\ Len(source) \in Nat
  BY SplitAssumption DEF TypeOK
<1>2. \A n \in 1 .. Len(source) : source[n] \in DOMAIN Size
  BY <1>1
<1>3. \A n \in 1 .. Len(source) : Size[source[n]] \in Nat
  BY <1>2, SplitAssumption
<1> QED
  BY <1>1, <1>3 DEF SizeOf

\* What is on disk of a chunk that was cut short after n lines.
LEMMA ChunkShape ==
  ASSUME NEW S, NEW h \in S, NEW ls \in Seq(S), NEW n \in 0 .. Len(Chunk(h, ls))
  PROVE  LET c == SubSeq(Chunk(h, ls), 1, n) IN
         /\ c \in Seq(S)
         /\ Len(c) = n
         /\ DOMAIN c = 1 .. n
         /\ n # 0 => c[1] = h
         /\ \A m \in 2 .. n : m - 1 \in DOMAIN ls /\ c[m] = ls[m - 1]
<1> DEFINE whole == <<h>> \o ls
<1>1. whole \in Seq(S) /\ Len(whole) = Len(ls) + 1 /\ Len(ls) \in Nat
  OBVIOUS
<1>2. whole[1] = h /\ \A m \in 2 .. Len(whole) : m - 1 \in 1 .. Len(ls) /\ whole[m] = ls[m - 1]
  BY <1>1
<1> QED
  BY <1>1, <1>2 DEF Chunk

\* A write appends one chunk, the whole of it unless writes may fail.
LEMMA WriteEffect ==
  ASSUME NEW S, chunks \in Seq(Seq(S)), NEW h \in S, NEW ls \in Seq(S),
         WriteChunk(Chunk(h, ls))
  PROVE  \E c \in Seq(S) :
           /\ chunks' = Append(chunks, c)
           /\ c # <<>> => c[1] = h
           /\ \A m \in 2 .. Len(c) : m - 1 \in DOMAIN ls /\ c[m] = ls[m - 1]
           /\ ~MayFail => Len(c) = Len(ls) + 1
<1>1. Len(Chunk(h, ls)) \in Nat /\ Len(Chunk(h, ls)) = Len(ls) + 1
  BY DEF Chunk
<1>2. PICK n \in (IF MayFail THEN 0 .. Len(Chunk(h, ls)) ELSE {Len(Chunk(h, ls))}) :
        chunks' = Append(chunks, SubSeq(Chunk(h, ls), 1, n))
  BY DEF WriteChunk
<1>3. n \in 0 .. Len(Chunk(h, ls)) /\ (~MayFail => n = Len(ls) + 1)
  BY <1>1, <1>2
<1> DEFINE c == SubSeq(Chunk(h, ls), 1, n)
<1>4. /\ c \in Seq(S) /\ Len(c) = n
      /\ n # 0 => c[1] = h
      /\ \A m \in 2 .. n : m - 1 \in DOMAIN ls /\ c[m] = ls[m - 1]
  BY <1>3, ChunkShape
<1> HIDE DEF c
<1>5. c # <<>> => n # 0
  BY <1>4
<1> QED
  BY <1>2, <1>3, <1>4, <1>5 DEF c

----------------------------------------------------------------------------
(* Chunks chs with the lines ls kept back. *)

BodyOf(c) == {c[m] : m \in 2 .. Len(c)}
LinesOf(ls) == {ls[m] : m \in DOMAIN ls}
Bodies(chs) == UNION {BodyOf(chs[k]) : k \in DOMAIN chs}
Covered(chs, ls) == Bodies(chs) \cup LinesOf(ls)

Ascending(ls) == \A m \in DOMAIN ls : \A n \in DOMAIN ls : m < n => ls[m] < ls[n]
AscendingBody(c) == \A m \in 2 .. Len(c) : \A n \in 2 .. Len(c) : m < n => c[m] < c[n]

Ordered(chs, ls) ==
  /\ \A k \in DOMAIN chs :
       /\ AscendingBody(chs[k])
       /\ \A j \in 1 .. k - 1 : \A x \in BodyOf(chs[j]) : \A y \in BodyOf(chs[k]) : x < y
       /\ \A x \in BodyOf(chs[k]) : \A y \in LinesOf(ls) : x < y
  /\ Ascending(ls)

\* The properties of module Split are about chunks and lines.
LEMMA Restated ==
  /\ ChunksKeepOrder <=> Ordered(chunks, lines)
  /\ ChunksCoverBody <=> /\ Covered(chunks, lines) \subseteq BelowHeader
                         /\ ~MayFail => Covered(chunks, lines) = BelowHeader
BY DEF ChunksKeepOrder, ChunksCoverBody, Ordered, Covered, Bodies, Ascending, AscendingBody,
       Body, BodyOf, Pending, LinesOf

\* A line that is greater than all there are may join the lines kept back.
LEMMA TakingKeeps ==
  ASSUME NEW chs \in Seq(Seq(Nat)), NEW ls \in Seq(Nat), NEW n \in Nat,
         Ordered(chs, ls), \A x \in Covered(chs, ls) : x < n
  PROVE  /\ Ordered(chs, Append(ls, n))
         /\ Covered(chs, Append(ls, n)) = Covered(chs, ls) \cup {n}
<1> DEFINE more == Append(ls, n)
<1>1. /\ Len(ls) \in Nat /\ DOMAIN ls = 1 .. Len(ls)
      /\ DOMAIN more = 1 .. Len(ls) + 1
      /\ \A m \in 1 .. Len(ls) : more[m] = ls[m]
      /\ more[Len(ls) + 1] = n
  BY AppendProperties, LenProperties
<1> HIDE DEF more
<1>2. \A m \in DOMAIN more : m \in DOMAIN ls \/ m = Len(ls) + 1
  BY <1>1
<1>3. LinesOf(more) = LinesOf(ls) \cup {n}
  <2>1. LinesOf(more) \subseteq LinesOf(ls) \cup {n}
    BY <1>1, <1>2 DEF LinesOf
  <2>2. LinesOf(ls) \subseteq LinesOf(more)
    BY <1>1 DEF LinesOf
  <2>3. n \in LinesOf(more)
    <3>1. Len(ls) + 1 \in DOMAIN more
      BY <1>1
    <3> QED
      BY <1>1, <3>1 DEF LinesOf
  <2> QED
    BY <2>1, <2>2, <2>3
<1>4. Covered(chs, more) = Covered(chs, ls) \cup {n}
  BY <1>3 DEF Covered
<1>5. Ascending(more)
  <2> SUFFICES ASSUME NEW a \in DOMAIN more, NEW b \in DOMAIN more, a < b
               PROVE  more[a] < more[b]
    BY DEF Ascending
  <2>1. a \in DOMAIN ls
    BY <1>1
  <2>2. CASE b \in DOMAIN ls
    BY <1>1, <2>1, <2>2 DEF Ordered, Ascending
  <2>3. CASE b = Len(ls) + 1
    <3>1. ls[a] \in LinesOf(ls)
      BY <2>1 DEF LinesOf
    <3>2. ls[a] \in Covered(chs, ls)
      BY <3>1 DEF Covered
    <3> QED
      BY <1>1, <2>1, <2>3, <3>2
  <2> QED
    BY <1>2, <2>2, <2>3
<1>6. \A k \in DOMAIN chs : \A x \in BodyOf(chs[k]) : \A y \in LinesOf(more) : x < y
  <2> SUFFICES ASSUME NEW k \in DOMAIN chs, NEW x \in BodyOf(chs[k]), NEW y \in LinesOf(more)
               PROVE  x < y
    OBVIOUS
  <2>1. x \in Covered(chs, ls)
    BY DEF Covered, Bodies
  <2> QED
    BY <1>3, <2>1 DEF Ordered
<1> QED
  BY <1>4, <1>5, <1>6 DEF Ordered, more

\* The lines kept back may become the body of a new chunk, or a first part of it.
LEMMA CuttingKeeps ==
  ASSUME NEW chs \in Seq(Seq(Nat)), NEW ls \in Seq(Nat), NEW c \in Seq(Nat),
         Ordered(chs, ls),
         \A m \in 2 .. Len(c) : m - 1 \in DOMAIN ls /\ c[m] = ls[m - 1]
  PROVE  /\ Ordered(Append(chs, c), <<>>)
         /\ Covered(Append(chs, c), <<>>) \subseteq Covered(chs, ls)
         /\ Len(c) = Len(ls) + 1 => Covered(Append(chs, c), <<>>) = Covered(chs, ls)
<1> DEFINE more == Append(chs, c)
           last == Len(chs) + 1
<1>1. /\ Len(chs) \in Nat /\ DOMAIN chs = 1 .. Len(chs)
      /\ DOMAIN more = 1 .. last
      /\ \A k \in 1 .. Len(chs) : more[k] = chs[k]
      /\ more[last] = c
  BY AppendProperties, LenProperties
<1> HIDE DEF more
<1>2. \A k \in DOMAIN more : k \in DOMAIN chs \/ k = last
  BY <1>1
<1>3. BodyOf(c) \subseteq LinesOf(ls)
  BY DEF BodyOf, LinesOf
<1>4. LinesOf(<<>>) = {} /\ Ascending(<<>>)
  BY DEF LinesOf, Ascending
<1>5. Bodies(more) = Bodies(chs) \cup BodyOf(c)
  <2>1. last \in DOMAIN more
    BY <1>1
  <2>2. \A k \in DOMAIN chs : k \in DOMAIN more /\ more[k] = chs[k]
    BY <1>1
  <2>3. Bodies(more) \subseteq Bodies(chs) \cup BodyOf(c)
    <3> SUFFICES ASSUME NEW k \in DOMAIN more, NEW x \in BodyOf(more[k])
                 PROVE  x \in Bodies(chs) \/ x \in BodyOf(c)
      BY DEF Bodies
    <3> QED
      BY <1>1, <1>2 DEF Bodies
  <2>4. Bodies(chs) \subseteq Bodies(more)
    <3> SUFFICES ASSUME NEW k \in DOMAIN chs, NEW x \in BodyOf(chs[k])
                 PROVE  x \in Bodies(more)
      BY DEF Bodies
    <3> QED
      BY <2>2 DEF Bodies
  <2>5. BodyOf(c) \subseteq Bodies(more)
    BY <1>1, <2>1 DEF Bodies
  <2> QED
    BY <2>3, <2>4, <2>5
<1>6. Covered(more, <<>>) \subseteq Covered(chs, ls)
  BY <1>3, <1>4, <1>5 DEF Covered
<1>7. Len(c) = Len(ls) + 1 => Covered(more, <<>>) = Covered(chs, ls)
  <2> SUFFICES ASSUME Len(c) = Len(ls) + 1
               PROVE  LinesOf(ls) \subseteq BodyOf(c)
    BY <1>3, <1>4, <1>5 DEF Covered
  <2> SUFFICES ASSUME NEW m \in DOMAIN ls
               PROVE  ls[m] \in BodyOf(c)
    BY DEF LinesOf
  <2>1. Len(ls) \in Nat /\ DOMAIN ls = 1 .. Len(ls)
    BY LenProperties
  <2>2. m \in Nat /\ m + 1 \in 2 .. Len(c) /\ (m + 1) - 1 = m
    BY <2>1
  <2>3. c[m + 1] = ls[m]
    BY <2>2
  <2> QED
    BY <2>2, <2>3 DEF BodyOf
<1>8. AscendingBody(c)
  <2> SUFFICES ASSUME NEW m \in 2 .. Len(c), NEW n \in 2 .. Len(c), m < n
               PROVE  c[m] < c[n]
    BY DEF AscendingBody
  <2>1. m - 1 < n - 1
    OBVIOUS
  <2> QED
    BY <2>1 DEF Ordered, Ascending
<1>9. \A k \in DOMAIN more : AscendingBody(more[k])
  BY <1>1, <1>2, <1>8 DEF Ordered
<1>10. \A k \in DOMAIN more : \A j \in 1 .. k - 1 :
         \A x \in BodyOf(more[j]) : \A y \in BodyOf(more[k]) : x < y
  <2> SUFFICES ASSUME NEW k \in DOMAIN more, NEW j \in 1 .. k - 1,
                      NEW x \in BodyOf(more[j]), NEW y \in BodyOf(more[k])
               PROVE  x < y
    OBVIOUS
  <2>1. j \in DOMAIN chs /\ more[j] = chs[j]
    BY <1>1
  <2>2. CASE k \in DOMAIN chs
    BY <1>1, <2>1, <2>2 DEF Ordered
  <2>3. CASE k = last
    <3>1. y \in LinesOf(ls)
      BY <1>1, <1>3, <2>3
    <3> QED
      BY <2>1, <3>1 DEF Ordered
  <2> QED
    BY <1>2, <2>2, <2>3
<1> QED
  BY <1>4, <1>6, <1>7, <1>9, <1>10 DEF Ordered, more

----------------------------------------------------------------------------
(* The types, together with the meaning of the header. *)

Typed == TypeOK /\ HeaderFound

\* A line number of a part of the file is one of a longer part.
LEMMA Growing ==
  ASSUME NEW i \in Nat, NEW j \in Nat, i <= j
  PROVE  /\ 1 .. i \subseteq 1 .. j
         /\ Seq(1 .. i) \subseteq Seq(1 .. j)
         /\ Seq(Seq(1 .. i)) \subseteq Seq(Seq(1 .. j))
<1>1. 1 .. i \subseteq 1 .. j
  OBVIOUS
<1>2. \A S, T : S \subseteq T => Seq(S) \subseteq Seq(T)
  OBVIOUS
<1> QED
  BY <1>1, <1>2

\* What one turn of the loop does with the line it reads.
LEMMA ReadEffect ==
  ASSUME Typed, ReadLine
  PROVE  /\ source' = source /\ next' = next + 1 /\ reading' = reading
         /\ next + 1 \in 1 .. Len(source)
         /\ header' \in 1 .. next + 1
         /\ Taken(next + 1) \in Seq(1 .. next + 1)
         /\ SizeOf(header) = 0 => header' = next + 1 /\ Taken(next + 1) = lines
         /\ SizeOf(header) # 0 => header' = header /\ Taken(next + 1) = Append(lines, next + 1)
         /\ \/ /\ lines' = Taken(next + 1)
               /\ bytes' = bytes + SizeOf(next + 1) /\ bytes' \in 0 .. ChunkSize - 1
               /\ chunks' = chunks
            \/ /\ bytes + SizeOf(next + 1) >= ChunkSize
               /\ lines' = <<>> /\ bytes' = 0
               /\ WriteChunk(Chunk(header', Taken(next + 1)))
<1>1. next \in Nat /\ Len(source) \in Nat /\ next + 1 \in 1 .. Len(source)
  BY SourceType DEF Typed, TypeOK, ReadLine
<1>2. SizeOf(next + 1) \in Nat /\ bytes \in Nat /\ ChunkSize \in Nat
  BY <1>1, SourceType, SplitAssumption DEF Typed, TypeOK
<1>3. header' \in 1 .. next + 1
  <2>1. SizeOf(header) # 0 => header # 0
    BY DEF SizeOf
  <2> QED
    BY <1>1, <2>1 DEF Typed, TypeOK, ReadLine
<1>4. Taken(next + 1) \in Seq(1 .. next + 1)
  <2>1. lines \in Seq(1 .. next + 1)
    BY <1>1, Growing DEF Typed, TypeOK
  <2>2. Append(lines, next + 1) \in Seq(1 .. next + 1)
    BY <1>1, <2>1, AppendProperties
  <2> QED
    BY <2>1, <2>2 DEF Taken
<1>5. /\ SizeOf(header) = 0 => header' = next + 1 /\ Taken(next + 1) = lines
      /\ SizeOf(header) # 0 => header' = header /\ Taken(next + 1) = Append(lines, next + 1)
  BY DEF ReadLine, Taken
<1>6. \/ /\ lines' = Taken(next + 1)
         /\ bytes' = bytes + SizeOf(next + 1)
         /\ ~(bytes + SizeOf(next + 1) >= ChunkSize)
         /\ chunks' = chunks
      \/ /\ bytes + SizeOf(next + 1) >= ChunkSize
         /\ lines' = <<>> /\ bytes' = 0
         /\ WriteChunk(Chunk(header', Taken(next + 1)))
  BY DEF ReadLine, IsFull
<1>7. source' = source /\ next' = next + 1 /\ reading' = reading
  BY DEF ReadLine
<1> QED
  BY <1>1, <1>2, <1>3, <1>4, <1>5, <1>6, <1>7

\* A chunk that is written is a list of lines read.
LEMMA WriteKeepsType ==
  ASSUME NEW S, chunks \in Seq(Seq(S)), NEW h \in S, NEW ls \in Seq(S),
         WriteChunk(Chunk(h, ls))
  PROVE  chunks' \in Seq(Seq(S)) /\ chunks' # <<>>
<1>1. PICK c \in Seq(S) : chunks' = Append(chunks, c)
  BY WriteEffect
<1> QED
  BY <1>1

\* Before the first read there is neither header nor line.
LEMMA TypedInit == Init => Typed
<1> SUFFICES ASSUME Init PROVE Typed
  OBVIOUS
<1>1. source \in Seq(DOMAIN Size) /\ Len(source) \in Nat
  BY SplitAssumption DEF Init
<1>2. TypeOK
  BY <1>1, SplitAssumption DEF Init, TypeOK
<1>3. HeaderFound
  BY DEF Init, HeaderFound, SizeOf
<1> QED
  BY <1>2, <1>3 DEF Typed

\* A read makes of the header what the lines read make it.
LEMMA TypedRead == Typed /\ ReadLine => Typed'
<1> SUFFICES ASSUME Typed, ReadLine PROVE Typed'
  OBVIOUS
<1> DEFINE n == next + 1
<1>1. /\ next \in Nat /\ Len(source) \in Nat /\ n \in 1 .. Len(source)
      /\ ChunkSize \in Nat /\ ChunkSize > 0
  BY SourceType, SplitAssumption, ReadEffect DEF Typed, TypeOK
<1>2. lines \in Seq(1 .. n) /\ chunks \in Seq(Seq(1 .. n))
  BY <1>1, Growing DEF Typed, TypeOK
<1>3. chunks' \in Seq(Seq(1 .. n))
  BY <1>2, ReadEffect, WriteKeepsType
<1>4. lines' \in Seq(1 .. n) /\ bytes' \in 0 .. ChunkSize - 1
  <2>1. <<>> \in Seq(1 .. n) /\ 0 \in 0 .. ChunkSize - 1
    BY <1>1, EmptySeq
  <2> QED
    BY <2>1, ReadEffect
<1>5. TypeOK'
  BY <1>1, <1>3, <1>4, ReadEffect DEF Typed, TypeOK
<1>6. IsText(n) <=> SizeOf(n) # 0
  BY <1>1, SourceType DEF IsText, SizeOf, Typed
<1>7. SizeOf(header)' = SizeOf(header')
  BY ReadEffect DEF SizeOf
<1>8. CASE SizeOf(header) # 0
  <2>1. IsHeader(header)' /\ header' # 0 /\ SizeOf(header)' # 0
    BY <1>7, <1>8, ReadEffect DEF IsHeader, IsText, Typed, HeaderFound
  <2> QED
    BY <1>5, <2>1 DEF Typed, HeaderFound
<1>9. CASE SizeOf(header) = 0
  <2>1. header' = n /\ \A m \in 1 .. n - 1 : ~IsText(m)
    BY <1>1, <1>9, ReadEffect DEF Typed, HeaderFound
  <2>2. CASE IsText(n)
    <3>1. IsHeader(header)' /\ header' # 0 /\ SizeOf(header)' # 0
      BY <1>1, <1>6, <1>7, <2>1, <2>2, ReadEffect DEF IsHeader, IsText
    <3> QED
      BY <1>5, <3>1 DEF Typed, HeaderFound
  <2>3. CASE ~IsText(n)
    <3>1. SizeOf(header)' = 0
      BY <1>6, <1>7, <2>1, <2>3
    <3>2. chunks = <<>> /\ lines = <<>> /\ bytes = 0
      BY <1>9 DEF Typed, HeaderFound
    <3>3. chunks' = <<>> /\ lines' = <<>> /\ bytes' = 0
      BY <1>1, <1>6, <1>9, <2>3, <3>2, ReadEffect
    <3>4. (\A m \in 1 .. next : ~IsText(m))'
      BY <1>1, <2>1, <2>3, ReadEffect DEF IsText
    <3> QED
      BY <1>5, <3>1, <3>3, <3>4 DEF Typed, HeaderFound
  <2> QED
    BY <2>2, <2>3
<1> QED
  BY <1>8, <1>9

\* The last write changes neither the header nor what was read.
LEMMA TypedFinish == Typed /\ Finish => Typed'
<1> SUFFICES ASSUME Typed, Finish PROVE Typed'
  OBVIOUS
<1>1. source' = source /\ next' = next /\ header' = header /\ reading' = FALSE
  BY DEF Finish
<1>2. CASE lines = <<>>
  <2>1. lines' = lines /\ bytes' = bytes /\ chunks' = chunks
    BY <1>2 DEF Finish
  <2> QED
    BY <1>1, <2>1 DEF Typed, TypeOK, HeaderFound, SizeOf, IsHeader, IsText
<1>3. CASE lines # <<>>
  <2>1. lines' = <<>> /\ bytes' = 0 /\ WriteChunk(Chunk(header, lines))
    BY <1>3 DEF Finish
  <2>2. SizeOf(header) # 0 /\ header # 0 /\ IsHeader(header)
    BY <1>3 DEF Typed, HeaderFound
  <2>3. header \in 1 .. next
    BY <2>2, SourceType DEF Typed, TypeOK
  <2>4. chunks' \in Seq(Seq(1 .. next))
    BY <2>1, <2>3, WriteKeepsType DEF Typed, TypeOK
  <2>5. TypeOK'
    <3>1. <<>> \in Seq(1 .. next) /\ 0 \in 0 .. ChunkSize - 1
      BY SplitAssumption, EmptySeq
    <3> QED
      BY <1>1, <2>1, <2>4, <3>1 DEF Typed, TypeOK
  <2>6. HeaderFound'
    BY <1>1, <2>2 DEF HeaderFound, SizeOf, IsHeader, IsText
  <2> QED
    BY <2>5, <2>6 DEF Typed
<1> QED
  BY <1>2, <1>3

----------------------------------------------------------------------------
(* The three properties of the chunks, together with the types. *)

Cut == ChunksKeepOrder /\ ChunksCoverBody /\ ChunksStartWithHeader

Invariant == Typed /\ Cut

\* Chunks and lines that hold exactly the lines of b, but for a write that failed.
Holds(chs, ls, b) ==
  /\ Ordered(chs, ls)
  /\ Covered(chs, ls) \subseteq b
  /\ ~MayFail => Covered(chs, ls) = b

\* Writing the lines kept back disturbs none of the three properties.
LEMMA WriteKeeps ==
  ASSUME chunks \in Seq(Seq(Nat)), NEW h \in Nat, NEW ls \in Seq(Nat), NEW b,
         WriteChunk(Chunk(h, ls)), lines' = <<>>, source' = source,
         Holds(chunks, ls, b), ChunksStartWithHeader, IsHeader(h)
  PROVE  Holds(chunks', lines', b) /\ ChunksStartWithHeader'
<1>1. PICK c \in Seq(Nat) :
        /\ chunks' = Append(chunks, c)
        /\ c # <<>> => c[1] = h
        /\ \A m \in 2 .. Len(c) : m - 1 \in DOMAIN ls /\ c[m] = ls[m - 1]
        /\ ~MayFail => Len(c) = Len(ls) + 1
  BY WriteEffect
<1>2. /\ Ordered(Append(chunks, c), <<>>)
      /\ Covered(Append(chunks, c), <<>>) \subseteq Covered(chunks, ls)
      /\ Len(c) = Len(ls) + 1 => Covered(Append(chunks, c), <<>>) = Covered(chunks, ls)
  BY <1>1, CuttingKeeps DEF Holds
<1>3. Holds(chunks', lines', b)
  BY <1>1, <1>2 DEF Holds
<1>4. ChunksStartWithHeader'
  <2> SUFFICES ASSUME NEW k \in DOMAIN chunks', chunks'[k] # <<>>
               PROVE  IsHeader(chunks'[k][1])
    BY DEF ChunksStartWithHeader, IsHeader, IsText
  <2>1. CASE k \in DOMAIN chunks
    <3>1. chunks'[k] = chunks[k]
      BY <1>1, <2>1
    <3> QED
      BY <2>1, <3>1 DEF ChunksStartWithHeader
  <2>2. CASE k = Len(chunks) + 1
    <3>1. chunks'[k] = c
      BY <1>1, <2>2
    <3> QED
      BY <1>1, <3>1
  <2>3. k \in DOMAIN chunks \/ k = Len(chunks) + 1
    <3>1. DOMAIN chunks' = 1 .. Len(chunks) + 1
      BY <1>1, AppendProperties, LenProperties
    <3>2. DOMAIN chunks = 1 .. Len(chunks) /\ Len(chunks) \in Nat
      BY LenProperties
    <3>3. k \in 1 .. Len(chunks) + 1
      BY <3>1
    <3>4. k \in 1 .. Len(chunks) \/ k = Len(chunks) + 1
      BY <3>2, <3>3
    <3> QED
      BY <3>2, <3>4
  <2> QED
    BY <2>1, <2>2, <2>3
<1> QED
  BY <1>3, <1>4

\* Line numbers are numbers.
LEMMA PlainNumbers ==
  ASSUME TypeOK
  PROVE  next \in Nat /\ lines \in Seq(Nat) /\ chunks \in Seq(Seq(Nat))
<1>1. next \in Nat
  BY SourceType DEF TypeOK
<1>2. 1 .. next \subseteq Nat
  OBVIOUS
<1>3. Seq(1 .. next) \subseteq Seq(Nat)
  BY <1>2, SeqMonotonic
<1>4. Seq(Seq(1 .. next)) \subseteq Seq(Seq(Nat))
  BY <1>3, SeqMonotonic
<1> QED
  BY <1>1, <1>3, <1>4 DEF TypeOK

\* A read keeps the three properties, whether or not it fills the chunk.
LEMMA CutRead == Invariant /\ ReadLine => Cut'
<1> SUFFICES ASSUME Invariant, ReadLine PROVE Cut'
  OBVIOUS
<1> DEFINE n == next + 1
<1>1. /\ Typed /\ Typed' /\ next \in Nat /\ n \in 1 .. Len(source)
      /\ lines \in Seq(Nat) /\ chunks \in Seq(Seq(Nat))
  BY PlainNumbers, TypedRead, ReadEffect DEF Invariant, Typed
<1>2. Holds(chunks, lines, BelowHeader)
  BY Restated DEF Invariant, Cut, Holds
<1>3. Holds(chunks, Taken(n), BelowHeader') /\ Taken(n) \in Seq(Nat)
  <2>1. BelowHeader' = {m \in 1 .. n : \E k \in 1 .. m - 1 : IsText(k)}
    BY ReadEffect, <1>1 DEF BelowHeader, IsText
  <2>2. CASE SizeOf(header) = 0
    <3>1. \A m \in 1 .. n - 1 : ~IsText(m)
      BY <1>1, <2>2 DEF Typed, HeaderFound
    <3>2. BelowHeader = {}
      BY <1>1, <3>1 DEF BelowHeader
    <3>3. BelowHeader' = {}
      <4> SUFFICES ASSUME NEW m \in 1 .. n, NEW k \in 1 .. m - 1, IsText(k)
                   PROVE  FALSE
        BY <2>1
      <4>1. k \in 1 .. n - 1
        BY <1>1
      <4> QED
        BY <3>1, <4>1
    <3> QED
      BY <1>1, <1>2, <2>2, <3>2, <3>3, ReadEffect
  <2>3. CASE SizeOf(header) # 0
    <3>1. IsHeader(header) /\ header \in 1 .. n - 1
      BY <1>1, <2>3, SourceType DEF Typed, HeaderFound, TypeOK
    <3>2. n \in BelowHeader'
      BY <1>1, <2>1, <3>1 DEF IsHeader
    <3>3. BelowHeader' = BelowHeader \cup {n}
      <4>1. BelowHeader = {m \in 1 .. n - 1 : \E k \in 1 .. m - 1 : IsText(k)}
        BY <1>1 DEF BelowHeader
      <4>2. \A m \in 1 .. n : m \in 1 .. n - 1 \/ m = n
        BY <1>1
      <4>3. \A m \in 1 .. n - 1 : m \in 1 .. n
        BY <1>1
      <4> HIDE DEF n
      <4>4. BelowHeader' \subseteq BelowHeader \cup {n}
        BY <2>1, <4>1, <4>2
      <4>5. BelowHeader \subseteq BelowHeader'
        BY <2>1, <4>1, <4>3
      <4> QED
        BY <3>2, <4>4, <4>5
    <3>4. \A x \in Covered(chunks, lines) : x < n
      BY <1>1, <1>2 DEF Holds, BelowHeader
    <3>5. /\ Ordered(chunks, Append(lines, n))
          /\ Covered(chunks, Append(lines, n)) = Covered(chunks, lines) \cup {n}
      BY <1>1, <1>2, <3>4, TakingKeeps DEF Holds
    <3>6. Taken(n) = Append(lines, n) /\ Append(lines, n) \in Seq(Nat)
      BY <1>1, <2>3, ReadEffect, AppendProperties
    <3> QED
      BY <1>2, <3>3, <3>5, <3>6 DEF Holds
  <2> QED
    BY <2>2, <2>3
<1>4. Holds(chunks', lines', BelowHeader') /\ ChunksStartWithHeader'
  <2>1. CASE lines' = Taken(n) /\ chunks' = chunks
    BY <1>3, <2>1, ReadEffect, <1>1
    DEF Invariant, Cut, ChunksStartWithHeader, IsHeader, IsText
  <2>2. CASE lines' = <<>> /\ WriteChunk(Chunk(header', Taken(n)))
    <3>1. header' \in Nat
      BY <1>1, ReadEffect
    <3>2. chunks' # <<>>
      BY <1>1, <1>3, <2>2, <3>1, WriteKeepsType
    <3>3. IsHeader(header')
      BY <1>1, <3>2, ReadEffect DEF Typed, HeaderFound, SizeOf, IsHeader, IsText
    <3> QED
      BY <1>1, <1>3, <2>2, <3>1, <3>3, ReadEffect, WriteKeeps DEF Invariant, Cut
  <2> QED
    BY <1>1, <2>1, <2>2, ReadEffect
<1>5. (Holds(chunks, lines, BelowHeader))' => ChunksKeepOrder' /\ ChunksCoverBody'
  BY DEF Holds, ChunksKeepOrder, ChunksCoverBody, Ordered, Covered, Bodies, Ascending,
         AscendingBody, Body, BodyOf, Pending, LinesOf
<1> QED
  BY <1>4, <1>5 DEF Cut

\* The three properties speak of four of the variables.
LEMMA CutStutter ==
  ASSUME Cut, source' = source, next' = next, lines' = lines, chunks' = chunks
  PROVE  Cut'
<1>1. ChunksKeepOrder'
  BY DEF Cut, ChunksKeepOrder, Body, Pending
<1>2. ChunksCoverBody'
  <2>1. BelowHeader' = BelowHeader
    BY DEF BelowHeader, IsText
  <2>2. Covered(chunks', lines') = Covered(chunks, lines)
    OBVIOUS
  <2>3. ChunksCoverBody' <=> /\ Covered(chunks', lines') \subseteq BelowHeader'
                             /\ ~MayFail => Covered(chunks', lines') = BelowHeader'
    BY DEF ChunksCoverBody, Covered, Bodies, Body, BodyOf, Pending, LinesOf
  <2> QED
    BY <2>1, <2>2, <2>3, Restated DEF Cut
<1>3. ChunksStartWithHeader'
  BY DEF Cut, ChunksStartWithHeader, IsHeader, IsText
<1> QED
  BY <1>1, <1>2, <1>3 DEF Cut

\* The last write keeps the three properties.
LEMMA CutFinish == Invariant /\ Finish => Cut'
<1> SUFFICES ASSUME Invariant, Finish PROVE Cut'
  OBVIOUS
<1>1. source' = source /\ next' = next
  BY DEF Finish
<1>2. CASE lines = <<>>
  <2>1. lines' = lines /\ chunks' = chunks
    BY <1>2 DEF Finish
  <2> QED
    BY <1>1, <2>1, CutStutter DEF Invariant
<1>3. CASE lines # <<>>
  <2>1. lines' = <<>> /\ WriteChunk(Chunk(header, lines))
    BY <1>3 DEF Finish
  <2>2. IsHeader(header) /\ header \in Nat
    BY <1>3, SourceType DEF Invariant, Typed, HeaderFound, IsHeader
  <2>3. lines \in Seq(Nat) /\ chunks \in Seq(Seq(Nat))
    BY PlainNumbers DEF Invariant, Typed
  <2>4. Holds(chunks, lines, BelowHeader)
    BY Restated DEF Invariant, Cut, Holds
  <2>5. Holds(chunks', lines', BelowHeader) /\ ChunksStartWithHeader'
    BY <1>1, <2>1, <2>2, <2>3, <2>4, WriteKeeps DEF Invariant, Cut
  <2>6. BelowHeader' = BelowHeader
    BY <1>1 DEF BelowHeader, IsText
  <2>7. Holds(chunks', lines', BelowHeader') => ChunksKeepOrder' /\ ChunksCoverBody'
    BY DEF Holds, ChunksKeepOrder, ChunksCoverBody, Ordered, Covered, Bodies, Ascending,
           AscendingBody, Body, BodyOf, Pending, LinesOf
  <2> QED
    BY <2>5, <2>6, <2>7 DEF Cut
<1> QED
  BY <1>2, <1>3

\* The invariant holds of the empty split.
LEMMA InvariantInit == Init => Invariant
<1> SUFFICES ASSUME Init PROVE Cut
  BY TypedInit DEF Invariant
<1>1. next = 0 /\ lines = <<>> /\ chunks = <<>>
  BY DEF Init
<1>2. DOMAIN chunks = {} /\ DOMAIN lines = {}
  BY <1>1
<1>3. Pending = {} /\ BelowHeader = {}
  BY <1>1, <1>2 DEF Pending, BelowHeader
<1>4. ChunksCoverBody
  BY <1>2, <1>3 DEF ChunksCoverBody
<1>5. ChunksKeepOrder /\ ChunksStartWithHeader
  BY <1>2 DEF ChunksKeepOrder, ChunksStartWithHeader
<1> QED
  BY <1>4, <1>5 DEF Cut

\* The inductive invariant: the header is what the lines read make it, and the chunks
\* and the lines kept back hold what was read below it.
LEMMA InvariantKept ==
  ASSUME Invariant, [SplitNext]_splitVars
  PROVE  Invariant'
<1>1. CASE ReadLine
  BY <1>1, TypedRead, CutRead DEF Invariant
<1>2. CASE Finish
  BY <1>2, TypedFinish, CutFinish DEF Invariant
<1>3. CASE UNCHANGED splitVars
  <2>1. Cut'
    BY <1>3, CutStutter DEF Invariant, splitVars
  <2> QED
    BY <1>3, <2>1 DEF Invariant, Typed, TypeOK, HeaderFound, SizeOf, IsHeader, IsText, splitVars
<1> QED
  BY <1>1, <1>2, <1>3 DEF SplitNext

\* The invariant of the split.
LEMMA InvariantAlways == Spec => []Invariant
BY InvariantKept, InvariantInit, PTL DEF Spec

\* The type invariant of split_file_in_chunks_of_size: less than chunk_size_in_bytes
\* is kept back between two reads, and every line number is that of a line read.
THEOREM SplitTypeCorrect == Spec => []TypeOK
<1>1. Invariant => TypeOK
  BY DEF Invariant, Typed
<1> QED
  BY <1>1, InvariantAlways, PTL

\* A chunk file is in the order of its source, and older than every later chunk file:
\* the sorted chunks of a file meet in the merge as the file's lines did.
THEOREM SplitKeepsOrder == Spec => []ChunksKeepOrder
<1>1. Invariant => ChunksKeepOrder
  BY DEF Invariant, Cut
<1> QED
  BY <1>1, InvariantAlways, PTL

\* No line is lost, doubled or invented where one chunk ends and the next one starts.
THEOREM SplitCoversBody == Spec => []ChunksCoverBody
<1>1. Invariant => ChunksCoverBody
  BY DEF Invariant, Cut
<1> QED
  BY <1>1, InvariantAlways, PTL

\* The first line of every chunk file that has one is the header of the source.
THEOREM SplitRepeatsHeader == Spec => []ChunksStartWithHeader
<1>1. Invariant => ChunksStartWithHeader
  BY DEF Invariant, Cut
<1> QED
  BY <1>1, InvariantAlways, PTL

----------------------------------------------------------------------------
(* The cost bound.  BytesOf is a recursive function over lists of lines: that    *)
(* it has the value its equation says is proved by induction on their length.   *)

\* A set of numbers that has a member has a least one.
LEMMA LeastNumber ==
  ASSUME NEW T \in SUBSET Nat, T # {}
  PROVE  \E x \in T : \A y \in T : x <= y
<1> DEFINE R == {p \in Nat \X Nat : p[1] < p[2]}
<1>1. R = OpToRel(<, Nat)
  BY Zenon DEF OpToRel
<1>2. IsWellFoundedOn(R, Nat)
  BY <1>1, NatLessThanWellFounded
<1> HIDE DEF R
<1>3. PICK x \in T : \A y \in T : ~ (<<y, x>> \in R)
  BY <1>2, WFMin
<1>4. \A m, n \in Nat : m < n => <<m, n>> \in R
  BY DEF R
<1>5. ASSUME NEW y \in T
      PROVE  x <= y
  <2>1. x \in Nat /\ y \in Nat
    BY <1>3
  <2>2. ~ (y < x)
    BY <1>3, <1>4, <1>5, <2>1
  <2> QED
    BY <2>1, <2>2
<1> QED
  BY <1>3, <1>5

\* Induction on the numbers of a set: the library's rule for predicates takes an operator,
\* this one a set.
LEMMA SetInduction ==
  ASSUME NEW S, 0 \in S, \A n \in Nat : n \in S => n + 1 \in S
  PROVE  \A n \in Nat : n \in S
<1> SUFFICES ASSUME NEW n \in Nat, n \notin S PROVE FALSE
  OBVIOUS
<1> DEFINE T == Nat \ S
<1>1. PICK x \in T : \A y \in T : x <= y
  BY LeastNumber
<1>2. x # 0 /\ x - 1 \in Nat /\ x - 1 \in S
  BY <1>1
<1> QED
  BY <1>1, <1>2

\* Lists of lines of a bounded length, what the sum of a list is by the sums of g, and a g
\* that sums the lists of that length.
Shorter(n) == {s \in Seq(Nat) : Len(s) <= n}
Adds(g, s) == IF s = <<>> THEN 0 ELSE SizeOf(s[1]) + g[Tail(s)]
IsSum(g, n) == g = [s \in Shorter(n) |-> Adds(g, s)]

\* A list that is not empty has a shorter rest.
LEMMA TailShorter ==
  ASSUME NEW s \in Seq(Nat)
  PROVE  /\ Len(s) \in Nat
         /\ s # <<>> => /\ Tail(s) \in Seq(Nat) /\ Len(Tail(s)) = Len(s) - 1 /\ Len(s) > 0
                        /\ s[1] \in Nat
         /\ s = <<>> <=> Len(s) = 0
<1>1. Len(s) \in Nat /\ (s = <<>> <=> Len(s) = 0)
  BY EmptySeq, LenProperties
<1>2. ASSUME s # <<>>
      PROVE  Tail(s) \in Seq(Nat) /\ Len(Tail(s)) = Len(s) - 1 /\ Len(s) > 0 /\ s[1] \in Nat
  <2>1. Tail(s) \in Seq(Nat) /\ Len(Tail(s)) = Len(s) - 1
    BY <1>2, HeadTailProperties
  <2>2. 1 \in 1 .. Len(s)
    BY <1>1, <1>2
  <2> QED
    BY <1>1, <1>2, <2>1, <2>2, ElementOfSeq
<1> QED
  BY <1>1, <1>2

\* Sums exist for every length, from those of the length before.
LEMMA SumsExist == \A n \in Nat : \E g : IsSum(g, n)
<1> DEFINE Has == {n \in Nat : \E g : IsSum(g, n)}
<1>1. 0 \in Has
  <2> DEFINE g == [s \in Shorter(0) |-> 0]
  <2>1. \A s \in Shorter(0) : s = <<>>
    BY TailShorter DEF Shorter
  <2>2. IsSum(g, 0)
    BY <2>1 DEF IsSum, Adds
  <2> QED
    BY <2>2
<1>2. ASSUME NEW n \in Nat, n \in Has
      PROVE  n + 1 \in Has
  <2>1. PICK g : IsSum(g, n)
    BY <1>2
  <2> DEFINE h == [s \in Shorter(n + 1) |-> Adds(g, s)]
  <2>2. ASSUME NEW s \in Shorter(n + 1)
        PROVE  Adds(g, s) = Adds(h, s)
    <3>1. CASE s = <<>>
      BY <3>1 DEF Adds
    <3>2. CASE s # <<>>
      <4>1. Tail(s) \in Shorter(n) /\ Tail(s) \in Shorter(n + 1)
        BY <3>2, TailShorter DEF Shorter
      <4>2. g[Tail(s)] = Adds(g, Tail(s)) /\ h[Tail(s)] = Adds(g, Tail(s))
        BY <2>1, <4>1 DEF IsSum
      <4> QED
        BY <3>2, <4>2 DEF Adds
    <3> QED
      BY <3>1, <3>2
  <2>3. IsSum(h, n + 1)
    BY <2>2 DEF IsSum
  <2> QED
    BY <2>3
<1> HIDE DEF Has
<1>3. \A n \in Nat : n \in Has
  BY <1>1, <1>2, SetInduction
<1> QED
  BY <1>3 DEF Has

\* Two sums agree on the lists that both are for.
LEMMA SumsAgree ==
  ASSUME NEW m \in Nat, NEW n \in Nat, NEW g, NEW h, IsSum(g, m), IsSum(h, n),
         NEW s \in Seq(Nat), Len(s) <= m, Len(s) <= n
  PROVE  g[s] = h[s]
<1> DEFINE Agree == {k \in Nat : \A t \in Seq(Nat) : Len(t) = k /\ k <= m /\ k <= n => g[t] = h[t]}
<1>0. \A t \in Seq(Nat) : /\ Len(t) <= m => g[t] = Adds(g, t)
                          /\ Len(t) <= n => h[t] = Adds(h, t)
  BY DEF IsSum, Shorter
<1>1. 0 \in Agree
  <2>1. \A t \in Seq(Nat) : Len(t) = 0 => t = <<>>
    BY TailShorter
  <2> QED
    BY <1>0, <2>1 DEF Adds
<1>2. ASSUME NEW k \in Nat, k \in Agree
      PROVE  k + 1 \in Agree
  <2> SUFFICES ASSUME NEW t \in Seq(Nat), Len(t) = k + 1, k + 1 <= m, k + 1 <= n
               PROVE  g[t] = h[t]
    OBVIOUS
  <2>1. t # <<>> /\ Tail(t) \in Seq(Nat) /\ Len(Tail(t)) = k
    BY TailShorter
  <2>2. \A u \in Seq(Nat) : Len(u) = k => g[u] = h[u]
    <3>1. k <= m /\ k <= n
      OBVIOUS
    <3> QED
      BY <1>2, <3>1
  <2>3. g[Tail(t)] = h[Tail(t)]
    BY <2>1, <2>2
  <2> QED
    BY <1>0, <2>1, <2>3 DEF Adds
<1> HIDE DEF Agree
<1>3. \A k \in Nat : k \in Agree
  BY <1>1, <1>2, SetInduction
<1>4. Len(s) \in Nat
  BY TailShorter
<1> QED
  BY <1>3, <1>4 DEF Agree

\* BytesOf is a function that satisfies its equation: one is put together from the sums of
\* every length.
LEMMA BytesOfIsSum == BytesOf = [s \in Seq(Nat) |-> Adds(BytesOf, s)]
<1> DEFINE sum(n) == CHOOSE g : IsSum(g, n)
           f == [s \in Seq(Nat) |-> sum(Len(s))[s]]
<1>1. \A n \in Nat : IsSum(sum(n), n)
  BY SumsExist
<1> HIDE DEF sum
<1>2. ASSUME NEW s \in Seq(Nat)
      PROVE  f[s] = Adds(f, s)
  <2>1. Len(s) \in Nat /\ IsSum(sum(Len(s)), Len(s))
    BY <1>1, TailShorter
  <2>2. f[s] = Adds(sum(Len(s)), s)
    BY <2>1 DEF IsSum, Shorter
  <2>3. ASSUME s # <<>>
        PROVE  f[Tail(s)] = sum(Len(s))[Tail(s)]
    <3>1. Tail(s) \in Seq(Nat) /\ Len(Tail(s)) \in Nat /\ Len(Tail(s)) <= Len(s)
      BY <2>1, <2>3, TailShorter
    <3>2. IsSum(sum(Len(Tail(s))), Len(Tail(s)))
      BY <1>1, <3>1
    <3>3. sum(Len(Tail(s)))[Tail(s)] = sum(Len(s))[Tail(s)]
      <4>1. PICK t, m, n, g, h : /\ t = Tail(s) /\ m = Len(Tail(s)) /\ n = Len(s)
                                 /\ g = sum(Len(Tail(s))) /\ h = sum(Len(s))
        OBVIOUS
      <4>2. /\ m \in Nat /\ n \in Nat /\ IsSum(g, m) /\ IsSum(h, n)
            /\ t \in Seq(Nat) /\ Len(t) <= m /\ Len(t) <= n
        BY <2>1, <3>1, <3>2, <4>1
      <4>3. g[t] = h[t]
        BY <4>2, SumsAgree
      <4> QED
        BY <4>1, <4>3
    <3> QED
      BY <3>1, <3>3
  <2> QED
    BY <2>2, <2>3 DEF Adds
<1>3. f = [s \in Seq(Nat) |-> Adds(f, s)]
  BY <1>2
<1> HIDE DEF f
<1>4. \E g : g = [s \in Seq(Nat) |-> IF s = <<>> THEN 0 ELSE SizeOf(s[1]) + g[Tail(s)]]
  BY <1>3 DEF Adds
<1>5. BytesOf = [s \in Seq(Nat) |-> IF s = <<>> THEN 0 ELSE SizeOf(s[1]) + BytesOf[Tail(s)]]
  BY <1>4, Zenon DEF BytesOf
<1> QED
  BY <1>5 DEF Adds

\* The lines of the file.
Known == 1 .. Len(source)

\* What a sum is of, one line at a time.
LEMMA SumStep ==
  /\ BytesOf[<<>>] = 0
  /\ \A s \in Seq(Nat) : s # <<>> => BytesOf[s] = SizeOf(s[1]) + BytesOf[Tail(s)]
<1>1. \A s \in Seq(Nat) : BytesOf[s] = Adds(BytesOf, s)
  BY BytesOfIsSum
<1>2. <<>> \in Seq(Nat)
  OBVIOUS
<1> QED
  BY <1>1, <1>2 DEF Adds

\* A line appended to a list is appended to its rest.
LEMMA TailOfAppend ==
  ASSUME NEW s \in Seq(Nat), NEW x \in Nat
  PROVE  /\ Append(s, x) \in Seq(Nat) /\ Append(s, x) # <<>>
         /\ s = <<>> => Append(s, x)[1] = x /\ Tail(Append(s, x)) = <<>>
         /\ s # <<>> => Append(s, x)[1] = s[1] /\ Tail(Append(s, x)) = Append(Tail(s), x)
<1> DEFINE t == Append(s, x)
<1>1. /\ t \in Seq(Nat) /\ Len(t) = Len(s) + 1 /\ Len(s) \in Nat
      /\ \A i \in 1 .. Len(s) : t[i] = s[i]
      /\ t[Len(s) + 1] = x
  BY AppendProperties, LenProperties
<1>2. t # <<>>
  BY <1>1, EmptySeq
<1>3. /\ Tail(t) \in Seq(Nat) /\ Len(Tail(t)) = Len(s)
      /\ \A i \in 1 .. Len(s) : Tail(t)[i] = t[i + 1]
  BY <1>1, <1>2, HeadTailProperties
<1>4. CASE s = <<>>
  <2>1. Len(s) = 0
    BY <1>4
  <2> QED
    BY <1>1, <1>2, <1>3, <1>4, <2>1, EmptySeq
<1>5. CASE s # <<>>
  <2>1. Len(s) > 0 /\ 1 \in 1 .. Len(s)
    BY <1>1, <1>5, EmptySeq
  <2>2. /\ Tail(s) \in Seq(Nat) /\ Len(Tail(s)) = Len(s) - 1
        /\ \A i \in 1 .. Len(s) - 1 : Tail(s)[i] = s[i + 1]
    BY <1>5, HeadTailProperties
  <2> DEFINE u == Append(Tail(s), x)
  <2>3. /\ u \in Seq(Nat) /\ Len(u) = Len(s)
        /\ \A i \in 1 .. Len(s) - 1 : u[i] = s[i + 1]
        /\ u[Len(s)] = x
    <3>1. /\ u \in Seq(Nat) /\ Len(u) = Len(Tail(s)) + 1
          /\ \A i \in 1 .. Len(Tail(s)) : u[i] = Tail(s)[i]
          /\ u[Len(Tail(s)) + 1] = x
      BY <2>2, AppendProperties
    <3> QED
      BY <1>1, <2>2, <3>1
  <2>4. \A i \in 1 .. Len(s) : Tail(t)[i] = u[i]
    <3> SUFFICES ASSUME NEW i \in 1 .. Len(s)
                 PROVE  Tail(t)[i] = u[i]
      OBVIOUS
    <3>1. CASE i = Len(s)
      BY <1>1, <1>3, <2>3, <3>1
    <3>2. CASE i \in 1 .. Len(s) - 1
      <4>1. i + 1 \in 1 .. Len(s)
        BY <1>1, <3>2
      <4> QED
        BY <1>1, <1>3, <2>3, <3>2, <4>1
    <3> QED
      BY <1>1, <3>1, <3>2
  <2> HIDE DEF t, u
  <2>5. Tail(t) = u
    BY <1>3, <2>3, <2>4, SeqEqual
  <2> QED
    BY <1>1, <1>2, <1>5, <2>1, <2>5 DEF t, u
<1> QED
  BY <1>4, <1>5

\* A line more adds its bytes.
LEMMA SumAppend ==
  ASSUME TypeOK, NEW s \in Seq(Known), NEW x \in Known
  PROVE  BytesOf[s] \in Nat /\ BytesOf[Append(s, x)] = BytesOf[s] + SizeOf(x)
<1> DEFINE Right(k) == \A t \in Seq(Known) : Len(t) = k =>
                         /\ BytesOf[t] \in Nat
                         /\ BytesOf[Append(t, x)] = BytesOf[t] + SizeOf(x)
           Rights == {k \in Nat : Right(k)}
<1>1. /\ \A n \in Known : n \in Nat /\ SizeOf(n) \in Nat
      /\ Seq(Known) \subseteq Seq(Nat)
  <2>1. \A n \in Known : n \in Nat /\ n \in 0 .. Len(source)
    BY SourceType DEF Known
  <2> QED
    BY <2>1, SourceType, SeqMonotonic
<1>2. 0 \in Rights
  <2> SUFFICES ASSUME NEW t \in Seq(Known), Len(t) = 0
               PROVE  BytesOf[t] \in Nat /\ BytesOf[Append(t, x)] = BytesOf[t] + SizeOf(x)
    OBVIOUS
  <2>1. t = <<>> /\ t \in Seq(Nat) /\ BytesOf[t] = 0
    BY <1>1, EmptySeq, SumStep
  <2>2. BytesOf[Append(t, x)] = SizeOf(x) + 0
    <3>1. /\ Append(t, x) \in Seq(Nat) /\ Append(t, x) # <<>>
          /\ Append(t, x)[1] = x /\ Tail(Append(t, x)) = <<>>
      BY <1>1, <2>1, TailOfAppend
    <3> QED
      BY <2>1, <3>1, SumStep
  <2> QED
    BY <1>1, <2>1, <2>2
<1>3. ASSUME NEW k \in Nat, k \in Rights
      PROVE  k + 1 \in Rights
  <2> SUFFICES ASSUME NEW t \in Seq(Known), Len(t) = k + 1
               PROVE  BytesOf[t] \in Nat /\ BytesOf[Append(t, x)] = BytesOf[t] + SizeOf(x)
    OBVIOUS
  <2>1. t # <<>> /\ t \in Seq(Nat) /\ t[1] \in Known /\ Tail(t) \in Seq(Known) /\ Len(Tail(t)) = k
    <3>1. t # <<>> /\ 1 \in 1 .. Len(t)
      OBVIOUS
    <3>2. Tail(t) \in Seq(Known) /\ Len(Tail(t)) = Len(t) - 1
      BY <3>1, HeadTailProperties
    <3> QED
      BY <1>1, <3>1, <3>2, ElementOfSeq
  <2>2. BytesOf[Tail(t)] \in Nat /\ BytesOf[Append(Tail(t), x)] = BytesOf[Tail(t)] + SizeOf(x)
    BY <1>3, <2>1
  <2>3. BytesOf[t] = SizeOf(t[1]) + BytesOf[Tail(t)]
    BY <2>1, SumStep
  <2>4. BytesOf[Append(t, x)] = SizeOf(t[1]) + BytesOf[Append(Tail(t), x)]
    <3>1. /\ Append(t, x) \in Seq(Nat) /\ Append(t, x) # <<>>
          /\ Append(t, x)[1] = t[1] /\ Tail(Append(t, x)) = Append(Tail(t), x)
      BY <1>1, <2>1, TailOfAppend
    <3> QED
      BY <3>1, SumStep
  <2> QED
    BY <1>1, <2>1, <2>2, <2>3, <2>4
<1> HIDE DEF Rights
<1>4. \A k \in Nat : k \in Rights
  BY <1>2, <1>3, SetInduction
<1>5. Len(s) \in Nat
  BY LenProperties
<1> QED
  BY <1>4, <1>5 DEF Rights

\* The first m of a list.
LEMMA Prefix ==
  ASSUME NEW S, NEW s \in Seq(S), NEW m \in 0 .. Len(s)
  PROVE  /\ Len(s) \in Nat /\ SubSeq(s, 1, m) \in Seq(S) /\ Len(SubSeq(s, 1, m)) = m
         /\ \A i \in 1 .. m : SubSeq(s, 1, m)[i] = s[i]
         /\ m = Len(s) => SubSeq(s, 1, m) = s
<1>1. Len(s) \in Nat /\ m \in Nat
  BY LenProperties
<1>2. \A i \in 1 .. m : s[i] \in S
  BY <1>1, ElementOfSeq
<1>3. /\ SubSeq(s, 1, m) \in Seq(S) /\ Len(SubSeq(s, 1, m)) = m
      /\ \A i \in 1 .. m : SubSeq(s, 1, m)[i] = s[i]
  OBVIOUS
<1>4. m = Len(s) => SubSeq(s, 1, m) = s
  BY <1>3, SeqEqual
<1> QED
  BY <1>1, <1>3, <1>4

\* The bytes of lines are a number.
LEMMA SumIsNumber ==
  ASSUME TypeOK
  PROVE  \A t \in Seq(Known) : BytesOf[t] \in Nat
<1> SUFFICES ASSUME NEW t \in Seq(Known)
             PROVE  BytesOf[t] \in Nat
  OBVIOUS
<1>1. CASE t = <<>>
  BY <1>1, SumStep
<1>2. CASE t # <<>>
  <2>1. t[1] \in Known
    BY <1>2, EmptySeq, ElementOfSeq
  <2> QED
    BY <2>1, SumAppend
<1> QED
  BY <1>1, <1>2

\* The bytes of a part of the lines are no more than those of all.
LEMMA SumOfPrefix ==
  ASSUME TypeOK, NEW s \in Seq(Known), NEW m \in 0 .. Len(s)
  PROVE  BytesOf[SubSeq(s, 1, m)] <= BytesOf[s]
<1> DEFINE Less == {k \in Nat : \A t \in Seq(Known) : Len(t) = k =>
                      \A j \in 0 .. k : BytesOf[SubSeq(t, 1, j)] <= BytesOf[t]}
<1>0. \A t \in Seq(Known) : BytesOf[t] \in Nat
  BY SumIsNumber
<1>1. 0 \in Less
  <2> SUFFICES ASSUME NEW t \in Seq(Known), Len(t) = 0, NEW j \in 0 .. 0
               PROVE  BytesOf[SubSeq(t, 1, j)] <= BytesOf[t]
    OBVIOUS
  <2>1. SubSeq(t, 1, j) = t
    BY Prefix
  <2>2. BytesOf[t] \in Nat
    BY <1>0
  <2>3. BytesOf[t] <= BytesOf[t]
    BY <2>2
  <2> QED
    BY <2>1, <2>3
<1>2. ASSUME NEW k \in Nat, k \in Less
      PROVE  k + 1 \in Less
  <2> SUFFICES ASSUME NEW t \in Seq(Known), Len(t) = k + 1, NEW j \in 0 .. k + 1
               PROVE  BytesOf[SubSeq(t, 1, j)] <= BytesOf[t]
    OBVIOUS
  <2> DEFINE front == SubSeq(t, 1, k)
             part == SubSeq(t, 1, j)
             x == t[k + 1]
  <2>1. /\ front \in Seq(Known) /\ Len(front) = k /\ x \in Known
        /\ \A i \in 1 .. k : front[i] = t[i]
    <3>1. k \in 0 .. Len(t) /\ k + 1 \in 1 .. Len(t)
      OBVIOUS
    <3> QED
      BY <3>1, Prefix, ElementOfSeq
  <2>2. /\ part \in Seq(Known) /\ Len(part) = j
        /\ \A i \in 1 .. j : part[i] = t[i]
        /\ j = k + 1 => part = t
    BY Prefix
  <2> HIDE DEF front, part, x
  <2>3. ASSUME j = k + 1
        PROVE  BytesOf[part] <= BytesOf[t]
    <3>1. BytesOf[t] \in Nat
      BY <1>0
    <3>2. BytesOf[t] <= BytesOf[t]
      BY <3>1
    <3> QED
      BY <2>2, <2>3, <3>2
  <2>4. ASSUME j \in 0 .. k
        PROVE  BytesOf[part] <= BytesOf[t]
    <3>1. /\ SubSeq(front, 1, j) \in Seq(Known) /\ Len(SubSeq(front, 1, j)) = j
          /\ \A i \in 1 .. j : SubSeq(front, 1, j)[i] = front[i]
      BY <2>1, <2>4, Prefix
    <3>2. \A i \in 1 .. j : SubSeq(front, 1, j)[i] = part[i]
      BY <2>1, <2>2, <2>4, <3>1
    <3>3. SubSeq(front, 1, j) = part
      BY <2>2, <3>1, <3>2, SeqEqual
    <3>4. BytesOf[part] <= BytesOf[front]
      BY <1>2, <2>1, <2>4, <3>3
    <3>5. Append(front, x) = t
      <4>1. /\ Append(front, x) \in Seq(Known) /\ Len(Append(front, x)) = k + 1
            /\ \A i \in 1 .. k : Append(front, x)[i] = front[i]
            /\ Append(front, x)[k + 1] = x
        BY <2>1, AppendProperties
      <4>2. \A i \in 1 .. k + 1 : Append(front, x)[i] = t[i]
        <5> SUFFICES ASSUME NEW i \in 1 .. k + 1
                     PROVE  Append(front, x)[i] = t[i]
          OBVIOUS
        <5>1. i \in 1 .. k \/ i = k + 1
          OBVIOUS
        <5> QED
          BY <2>1, <4>1, <5>1 DEF x
      <4> QED
        BY <4>1, <4>2, SeqEqual
    <3>6. BytesOf[t] = BytesOf[front] + SizeOf(x)
      BY <2>1, <3>5, SumAppend
    <3>7. SizeOf(x) \in Nat
      <4>1. x \in 0 .. Len(source)
        BY <2>1, SourceType DEF Known
      <4> QED
        BY <4>1, SourceType
    <3>8. BytesOf[part] \in Nat /\ BytesOf[front] \in Nat
      BY <1>0, <2>1, <2>2
    <3> QED
      BY <3>4, <3>6, <3>7, <3>8
  <2>5. j = k + 1 \/ j \in 0 .. k
    OBVIOUS
  <2>6. BytesOf[part] <= BytesOf[t]
    BY <2>3, <2>4, <2>5
  <2> QED
    BY <2>6 DEF part
<1> HIDE DEF Less
<1>3. \A k \in Nat : k \in Less
  BY <1>1, <1>2, SetInduction
<1>4. Len(s) \in Nat
  BY LenProperties
<1> QED
  BY <1>3, <1>4 DEF Less

\* A chunk whose lines but the last were kept back before it was written.
Fits(c) == Len(c) > 1 => BytesOf[SubSeq(c, 2, Len(c) - 1)] < ChunkSize

\* A chunk fits when its lines but the last are the first of lines below the size.
LEMMA ChunkFits ==
  ASSUME TypeOK, NEW ls \in Seq(Known), BytesOf[ls] < ChunkSize,
         NEW c \in Seq(Nat), Len(c) <= Len(ls) + 2,
         \A m \in 2 .. Len(c) - 1 : c[m] = ls[m - 1]
  PROVE  Fits(c)
<1> SUFFICES ASSUME Len(c) > 1
             PROVE  BytesOf[SubSeq(c, 2, Len(c) - 1)] < ChunkSize
  BY DEF Fits
<1> DEFINE n == Len(c) - 2
           body == SubSeq(c, 2, Len(c) - 1)
           part == SubSeq(ls, 1, n)
<1>1. Len(c) \in Nat /\ Len(ls) \in Nat /\ n \in 0 .. Len(ls)
  BY LenProperties
<1>2. /\ body \in Seq(Nat) /\ Len(body) = n
      /\ \A i \in 1 .. n : body[i] = c[i + 1]
  <2>1. ASSUME NEW i \in 2 .. Len(c) - 1
        PROVE  c[i] \in Nat
    <3>1. i \in 1 .. Len(c)
      BY <1>1
    <3> QED
      BY <3>1, ElementOfSeq
  <2>2. PICK q \in Nat : q = Len(c) - 1 /\ 2 <= q + 1 /\ q - 2 + 1 = n
    <3>1. PICK l \in Nat : l = Len(c)
      BY <1>1
    <3>2. l - 1 \in Nat /\ 2 <= (l - 1) + 1 /\ (l - 1) - 2 + 1 = l - 2
      BY <3>1
    <3> QED
      BY <3>1, <3>2
  <2>3. /\ SubSeq(c, 2, q) \in Seq(Nat)
        /\ Len(SubSeq(c, 2, q)) = IF 2 <= q THEN q - 2 + 1 ELSE 0
        /\ \A i \in 1 .. q - 2 + 1 : SubSeq(c, 2, q)[i] = c[2 + i - 1]
    <3>1. \A i \in 2 .. q : c[i] \in Nat
      BY <2>1, <2>2
    <3>2. 2 \in Int /\ q \in Int
      BY <2>2
    <3> QED
      BY <3>1, <3>2, SubSeqProperties
  <2>4. \A i \in 1 .. n : 2 + i - 1 = i + 1
    BY <1>1
  <2>5. Len(SubSeq(c, 2, q)) = n
    BY <1>1, <2>2, <2>3
  <2> QED
    BY <2>2, <2>3, <2>4, <2>5
<1>3. /\ part \in Seq(Known) /\ Len(part) = n
      /\ \A i \in 1 .. n : part[i] = ls[i]
  BY <1>1, Prefix
<1>4. \A i \in 1 .. n : body[i] = part[i]
  <2> SUFFICES ASSUME NEW i \in 1 .. n
               PROVE  body[i] = part[i]
    OBVIOUS
  <2>1. i + 1 \in 2 .. Len(c) - 1 /\ (i + 1) - 1 = i
    BY <1>1
  <2>2. c[i + 1] = ls[i]
    BY <2>1
  <2> QED
    BY <1>2, <1>3, <2>2
<1>5. BytesOf[part] <= BytesOf[ls] /\ BytesOf[part] \in Nat /\ BytesOf[ls] \in Nat
  <2>1. BytesOf[part] <= BytesOf[ls]
    BY <1>1, SumOfPrefix
  <2>2. \A t \in Seq(Known) : BytesOf[t] \in Nat
    BY SumIsNumber
  <2> QED
    BY <1>3, <2>1, <2>2
<1>6. body = part
  <2>1. part \in Seq(Nat)
    <3>1. Known \subseteq Nat
      BY SourceType DEF Known
    <3> QED
      BY <1>3, <3>1, SeqMonotonic
  <2> HIDE DEF body, part
  <2> QED
    BY <1>1, <1>2, <1>3, <1>4, <2>1, SeqEqual
<1>7. ChunkSize \in Nat
  BY SplitAssumption
<1> HIDE DEF part
<1>8. BytesOf[part] < ChunkSize
  BY <1>5, <1>7
<1> QED
  BY <1>6, <1>8

\* BytesOf of a file that is a parameter: the bytes change only with the source.
BytesIn(src) ==
  LET f[s \in Seq(Nat)] ==
        IF s = <<>> THEN 0 ELSE (IF s[1] = 0 THEN 0 ELSE Size[src[s[1]]]) + f[Tail(s)]
  IN  f

\* A step that leaves the source alone leaves the bytes of every list alone.
LEMMA SameBytes ==
  ASSUME source' = source
  PROVE  BytesOf' = BytesOf
<1>1. BytesOf = BytesIn(source)
  BY DEF BytesOf, BytesIn, SizeOf
<1>2. BytesOf' = BytesIn(source')
  BY DEF BytesOf, BytesIn, SizeOf
<1>3. BytesIn(source') = BytesIn(source)
  OBVIOUS
<1> QED
  BY <1>1, <1>2, <1>3

\* current_bytes_read is no less than the bytes of the lines kept back: it counts the header's
\* bytes, too.
Weighed == BytesOf[lines] <= bytes

\* A chunk may be written when its lines but the last are some kept back that were below
\* the size.
LEMMA WriteKeepsBound ==
  ASSUME TypeOK, ChunksAreBounded, source' = source,
         NEW h \in Nat, NEW t \in Seq(Nat), WriteChunk(Chunk(h, t)),
         NEW ls \in Seq(Known), BytesOf[ls] < ChunkSize, Len(t) <= Len(ls) + 1,
         \A m \in 1 .. Len(t) - 1 : t[m] = ls[m]
  PROVE  ChunksAreBounded'
<1>0. chunks \in Seq(Seq(Nat))
  BY PlainNumbers
<1>1. PICK c \in Seq(Nat) :
        /\ chunks' = Append(chunks, c)
        /\ c # <<>> => c[1] = h
        /\ \A m \in 2 .. Len(c) : m - 1 \in DOMAIN t /\ c[m] = t[m - 1]
        /\ ~MayFail => Len(c) = Len(t) + 1
  BY <1>0, WriteEffect
<1>2. /\ Len(c) \in Nat /\ Len(t) \in Nat /\ Len(ls) \in Nat
      /\ DOMAIN t = 1 .. Len(t)
  BY LenProperties
<1>3. Len(c) <= Len(t) + 1
  <2>1. CASE Len(c) < 2
    BY <1>2, <2>1
  <2>2. CASE Len(c) >= 2
    <3>1. Len(c) \in 2 .. Len(c)
      BY <1>2, <2>2
    <3>2. Len(c) - 1 \in 1 .. Len(t)
      BY <1>1, <1>2, <3>1
    <3> QED
      BY <1>2, <3>2
  <2> QED
    BY <1>2, <2>1, <2>2
<1>4. ASSUME NEW m \in 2 .. Len(c) - 1
      PROVE  c[m] = ls[m - 1]
  <2>1. m \in 2 .. Len(c) /\ m - 1 \in 1 .. Len(t) - 1
    BY <1>2, <1>3
  <2> QED
    BY <1>1, <2>1
<1>5. Fits(c)
  <2>1. Len(c) <= Len(ls) + 2
    BY <1>2, <1>3
  <2>2. \A m \in 2 .. Len(c) - 1 : c[m] = ls[m - 1]
    BY <1>4
  <2> QED
    BY <2>1, <2>2, ChunkFits
<1>6. BytesOf' = BytesOf
  BY SameBytes
<1>7. \A k \in DOMAIN chunks : Fits(chunks[k])
  BY DEF ChunksAreBounded, Fits
<1>8. ASSUME NEW k \in DOMAIN chunks'
      PROVE  Fits(chunks'[k])
  <2>1. /\ DOMAIN chunks' = 1 .. Len(chunks) + 1 /\ Len(chunks) \in Nat
        /\ DOMAIN chunks = 1 .. Len(chunks)
        /\ \A j \in 1 .. Len(chunks) : chunks'[j] = chunks[j]
        /\ chunks'[Len(chunks) + 1] = c
    BY <1>0, <1>1, AppendProperties, LenProperties
  <2>2. k \in 1 .. Len(chunks) \/ k = Len(chunks) + 1
    BY <2>1
  <2> QED
    BY <1>5, <1>7, <2>1, <2>2
<1> QED
  BY <1>6, <1>8 DEF ChunksAreBounded, Fits

\* One turn of the loop keeps the weight and the bound.
LEMMA WeighedRead ==
  ASSUME Typed, Weighed, ChunksAreBounded, ReadLine
  PROVE  Weighed' /\ ChunksAreBounded'
<1> DEFINE n == next + 1
<1>1. /\ TypeOK /\ source' = source /\ n \in Known /\ lines \in Seq(Known)
      /\ Taken(n) \in Seq(Nat) /\ header' \in Nat
  <2>1. /\ TypeOK /\ source' = source /\ n \in 1 .. Len(source) /\ next \in Nat
        /\ Len(source) \in Nat
    BY SourceType, ReadEffect DEF Typed, TypeOK
  <2>2. 1 .. next \subseteq Known /\ 1 .. n \subseteq Nat
    BY <2>1 DEF Known
  <2>3. Seq(1 .. next) \subseteq Seq(Known) /\ Seq(1 .. n) \subseteq Seq(Nat)
    BY <2>2, SeqMonotonic
  <2> QED
    BY <2>1, <2>2, <2>3, ReadEffect DEF TypeOK, Known
<1>2. /\ BytesOf[lines] \in Nat
      /\ BytesOf[Append(lines, n)] = BytesOf[lines] + SizeOf(n)
      /\ SizeOf(n) \in Nat /\ bytes \in Nat /\ ChunkSize \in Nat /\ bytes < ChunkSize
  <2>1. n \in 0 .. Len(source)
    BY <1>1 DEF Known
  <2>2. SizeOf(n) \in Nat
    BY <1>1, <2>1, SourceType
  <2>3. bytes \in Nat /\ ChunkSize \in Nat /\ bytes < ChunkSize
    BY <1>1, SplitAssumption DEF TypeOK
  <2> QED
    BY <1>1, <2>2, <2>3, SumAppend
<1>3. Taken(n) = lines \/ Taken(n) = Append(lines, n)
  BY ReadEffect
<1>4. BytesOf' = BytesOf
  BY <1>1, SameBytes
<1>5. CASE /\ lines' = Taken(n) /\ bytes' = bytes + SizeOf(n) /\ chunks' = chunks
  <2>1. BytesOf[Taken(n)] <= bytes + SizeOf(n)
    <3>1. BytesOf[lines] <= bytes
      BY DEF Weighed
    <3>2. BytesOf[lines] <= bytes + SizeOf(n)
      BY <1>2, <3>1
    <3>3. BytesOf[Append(lines, n)] <= bytes + SizeOf(n)
      BY <1>2, <3>1
    <3> QED
      BY <1>3, <3>2, <3>3
  <2>2. Weighed'
    BY <1>4, <1>5, <2>1 DEF Weighed
  <2>3. ChunksAreBounded'
    BY <1>4, <1>5 DEF ChunksAreBounded
  <2> QED
    BY <2>2, <2>3
<1>6. CASE lines' = <<>> /\ bytes' = 0 /\ WriteChunk(Chunk(header', Taken(n)))
  <2>1. Weighed'
    <3>1. BytesOf[<<>>] = 0
      BY SumStep
    <3>2. BytesOf'[lines'] <= bytes'
      BY <1>4, <1>6, <3>1
    <3> QED
      BY <3>2 DEF Weighed
  <2>2. BytesOf[lines] < ChunkSize
    BY <1>2 DEF Weighed
  <2>3. /\ Len(Taken(n)) <= Len(lines) + 1
        /\ \A m \in 1 .. Len(Taken(n)) - 1 : Taken(n)[m] = lines[m]
    <3>1. Len(lines) \in Nat
      BY <1>1, LenProperties
    <3>2. CASE Taken(n) = lines
      BY <3>1, <3>2
    <3>3. CASE Taken(n) = Append(lines, n)
      <4>1. /\ Len(Append(lines, n)) = Len(lines) + 1
            /\ \A m \in 1 .. Len(lines) : Append(lines, n)[m] = lines[m]
        BY <1>1, AppendProperties
      <4> QED
        BY <3>1, <3>3, <4>1
    <3> QED
      BY <1>3, <3>2, <3>3
  <2>4. ChunksAreBounded'
    <3>1. PICK h \in Nat, t \in Seq(Nat) : h = header' /\ t = Taken(n)
      BY <1>1
    <3> QED
      BY <1>1, <1>6, <2>2, <2>3, <3>1, WriteKeepsBound
  <2> QED
    BY <2>1, <2>4
<1> QED
  BY <1>5, <1>6, ReadEffect

\* The last chunk is of lines that were kept back, all below the size.
LEMMA WeighedFinish ==
  ASSUME Typed, Weighed, ChunksAreBounded, Finish
  PROVE  Weighed' /\ ChunksAreBounded'
<1>1. source' = source /\ BytesOf' = BytesOf
  <2>1. source' = source
    BY DEF Finish
  <2> QED
    BY <2>1, SameBytes
<1>2. CASE lines = <<>>
  <2>1. lines' = lines /\ bytes' = bytes /\ chunks' = chunks
    BY <1>2 DEF Finish
  <2> QED
    BY <1>1, <2>1 DEF Weighed, ChunksAreBounded
<1>3. CASE lines # <<>>
  <2>1. lines' = <<>> /\ bytes' = 0 /\ WriteChunk(Chunk(header, lines))
    BY <1>3 DEF Finish
  <2>2. Weighed'
    <3>1. BytesOf[<<>>] = 0
      BY SumStep
    <3>2. BytesOf'[lines'] <= bytes'
      BY <1>1, <2>1, <3>1
    <3> QED
      BY <3>2 DEF Weighed
  <2>3. /\ TypeOK /\ header \in Nat /\ lines \in Seq(Known) /\ lines \in Seq(Nat)
    <3>1. TypeOK /\ next \in 0 .. Len(source) /\ Len(source) \in Nat
      BY SourceType DEF Typed, TypeOK
    <3>2. 1 .. next \subseteq Known
      BY <3>1 DEF Known
    <3>3. Seq(1 .. next) \subseteq Seq(Known)
      BY <3>2, SeqMonotonic
    <3> QED
      BY <3>1, <3>3, PlainNumbers DEF TypeOK
  <2>4. BytesOf[lines] < ChunkSize
    <3>1. \A t \in Seq(Known) : BytesOf[t] \in Nat
      BY <2>3, SumIsNumber
    <3>2. BytesOf[lines] \in Nat
      BY <2>3, <3>1
    <3>3. bytes \in Nat /\ ChunkSize \in Nat /\ bytes < ChunkSize
      BY <2>3, SplitAssumption DEF TypeOK
    <3> QED
      BY <3>2, <3>3 DEF Weighed
  <2>5. Len(lines) <= Len(lines) + 1
    <3>1. Len(lines) \in Nat
      BY <2>3, LenProperties
    <3> QED
      BY <3>1
  <2>6. ChunksAreBounded'
    <3>1. PICK h \in Nat, t \in Seq(Nat) : h = header /\ t = lines
      BY <2>3
    <3> QED
      BY <1>1, <2>1, <2>3, <2>4, <2>5, <3>1, WriteKeepsBound
  <2> QED
    BY <2>2, <2>6
<1> QED
  BY <1>2, <1>3

\* A chunk in memory is at most chunk_size_in_bytes and one line: without its last line
\* no chunk of split_file_in_chunks_of_size reaches the size.
THEOREM SplitBoundsChunks == Spec => []ChunksAreBounded
<1> DEFINE W == Weighed /\ ChunksAreBounded
<1>1. Init => W
  <2>1. BytesOf[<<>>] = 0
    BY SumStep
  <2> QED
    BY <2>1 DEF Init, Weighed, ChunksAreBounded
<1>2. Typed /\ W /\ [SplitNext]_splitVars => W'
  <2> SUFFICES ASSUME Typed, W, [SplitNext]_splitVars
               PROVE  W'
    OBVIOUS
  <2>1. CASE ReadLine
    BY <2>1, WeighedRead
  <2>2. CASE Finish
    BY <2>2, WeighedFinish
  <2>3. CASE UNCHANGED splitVars
    <3>1. source' = source /\ lines' = lines /\ bytes' = bytes /\ chunks' = chunks
      BY <2>3 DEF splitVars
    <3>2. BytesOf' = BytesOf
      BY <3>1, SameBytes
    <3> QED
      BY <3>1, <3>2 DEF Weighed, ChunksAreBounded
  <2> QED
    BY <2>1, <2>2, <2>3 DEF SplitNext
<1>3. Invariant => Typed
  BY DEF Invariant
<1>4. W => ChunksAreBounded
  OBVIOUS
<1> HIDE DEF W
<1> QED
  BY <1>1, <1>2, <1>3, <1>4, InvariantAlways, PTL DEF Spec
============================================================================
