----------------------------- MODULE CSV_proofs -----------------------------
(***************************************************************************)
(* The parser of CSV splits every line, of any characters, exactly at the  *)
(* commas outside quotes.  The invariant is inductive given the types: one *)
(* more quote changes the parity, and with it whether a comma separates.   *)
(* What std::sort and the merge compare are rows to which the theorems of  *)
(* RowOrder_proofs apply.  And a row without quotes in its fields is read  *)
(* from the file as it was written, because every line has a layout: the   *)
(* places where its fields close, by which each state of the parser is     *)
(* known.                                                                  *)
(***************************************************************************)
EXTENDS CSV, RowOrder_proofs, FiniteSetTheorems, SequenceTheorems, WellFoundedInduction, TLAPS

\* The rows a table may have, and the types in the form that is inductive.
RowType == UNION {[C -> Seq(Char)] : C \in SUBSET Rows(header)}
Types == TypesButRows /\ table \in Seq(RowType)

\* A set of numbers below a bound has a greatest element.
LEMMA HasGreatest ==
  ASSUME NEW n \in Nat, NEW S \in SUBSET (1 .. n), S # {}
  PROVE  \E i \in S : \A j \in S : j <= i
<1> DEFINE T == {m \in Nat : n - m \in S}
<1>1. T \subseteq Nat /\ T # {}
  <2>1. PICK i \in S : TRUE
    OBVIOUS
  <2>2. n - i \in Nat /\ n - (n - i) = i
    BY <2>1
  <2> QED
    BY <2>1, <2>2
<1>2. \E m \in T : \A k \in T : ~(<<k, m>> \in OpToRel(<, Nat))
  BY <1>1, NatLessThanWellFounded, WFMin
<1>3. PICK m \in T : \A k \in T : ~(k < m)
  BY <1>1, <1>2 DEF OpToRel
<1>4. ASSUME NEW j \in S PROVE j <= n - m
  <2>1. n - j \in Nat /\ n - (n - j) = j /\ j \in Int
    OBVIOUS
  <2>2. n - j \in T
    BY <2>1
  <2> QED
    BY <1>1, <1>3, <2>1, <2>2
<1>5. n - m \in S
  BY <1>3
<1> QED
  BY <1>4, <1>5

\* The row of a line has only columns of the header, and fields of the line.
LEMMA RowOfType ==
  ASSUME NEW h \in Seq(Seq(Char)), NEW fs \in Seq(Seq(Char))
  PROVE  RowOf(h, fs) \in UNION {[C -> Seq(Char)] : C \in SUBSET Rows(h)}
<1> DEFINE named == {i \in DOMAIN h : i <= Len(fs)}
           C == {h[i] : i \in named}
           last(c) == CHOOSE i \in named : h[i] = c /\ \A j \in named : h[j] = c => j <= i
<1>1. DOMAIN h = 1 .. Len(h) /\ Len(h) \in Nat /\ DOMAIN fs = 1 .. Len(fs) /\ Len(fs) \in Nat
  BY LenProperties
<1>2. ASSUME NEW c \in C PROVE fs[last(c)] \in Seq(Char)
  <2> DEFINE S == {i \in named : h[i] = c}
  <2>1. S \in SUBSET (1 .. Len(h)) /\ S # {}
    BY <1>1, <1>2
  <2>2. PICK i \in S : \A j \in S : j <= i
    BY <1>1, <2>1, HasGreatest
  <2>3. last(c) \in named
    BY <2>2
  <2>4. last(c) \in 1 .. Len(fs)
    BY <1>1, <2>3
  <2> QED
    BY <1>1, <2>4, LenProperties
<1>3. RowOf(h, fs) \in [C -> Seq(Char)]
  BY <1>2 DEF RowOf
<1>4. C \subseteq Rows(h)
  BY DEF Rows
<1> QED
  BY <1>3, <1>4

\* A column of a row is one of the header, and its field is a text.
LEMMA RowHasTexts ==
  ASSUME NEW h \in Seq(Seq(Char)), NEW r, r \in UNION {[C -> Seq(Char)] : C \in SUBSET Rows(h)},
         NEW c \in DOMAIN r
  PROVE  c \in Rows(h) /\ r[c] \in Seq(Char)
OBVIOUS

\* Every transition on a character keeps fields a sequence of texts.
LEMMA CharType ==
  ASSUME NEW c \in Char, fields \in Seq(Seq(Char)) \ {<<>>}, state \in CSVState,
         \/ EndField(c) \/ OpenQuote(c) \/ CloseQuote(c)
         \/ DoubledQuote(c) \/ Plain(c) \/ LeaveQuote(c)
  PROVE  /\ fields' \in Seq(Seq(Char)) \ {<<>>}
         /\ state' \in CSVState
         /\ Len(fields') = IF EndField(c) THEN Len(fields) + 1 ELSE Len(fields)
<1>1. Len(fields) \in Nat \ {0} /\ DOMAIN fields = 1 .. Len(fields)
  BY EmptySeq, LenProperties
<1>2. CASE EndField(c)
  <2>1. <<>> \in Seq(Char)
    BY EmptySeq
  <2>2. fields' = Append(fields, <<>>) /\ state' \in CSVState
    BY <1>2 DEF EndField, CSVState
  <2>3. fields' \in Seq(Seq(Char)) /\ fields' # <<>> /\ Len(fields') = Len(fields) + 1
    <3>1. \A e \in Seq(Char) : /\ Append(fields, e) \in Seq(Seq(Char))
                               /\ Append(fields, e) # <<>>
                               /\ Len(Append(fields, e)) = Len(fields) + 1
      BY AppendProperties
    <3> QED
      BY <2>1, <2>2, <3>1
  <2> QED
    BY <1>2, <2>2, <2>3
<1>3. CASE ~EndField(c) /\ Put(c) /\ state' \in CSVState
  <2> DEFINE e == Append(fields[Len(fields)], c)
  <2>1. fields[Len(fields)] \in Seq(Char)
    BY <1>1, LenProperties
  <2>2. e \in Seq(Char)
    BY <2>1, AppendProperties
  <2>3. fields' = [fields EXCEPT ![Len(fields)] = e]
    BY <1>3 DEF Put
  <2> HIDE DEF e
  <2>4. fields' \in Seq(Seq(Char)) /\ Len(fields') = Len(fields)
    BY <1>1, <2>2, <2>3, ExceptSeq
  <2> QED
    BY <1>1, <1>3, <2>4, EmptySeq
<1>4. CASE ~EndField(c) /\ UNCHANGED fields /\ state' \in CSVState
  BY <1>4
<1>5. DoubledQuote(c) \/ Plain(c) => ~EndField(c) /\ Put(c) /\ state' \in CSVState
  BY CSVAssumption DEF DoubledQuote, Plain, EndField, CSVState
<1>6. OpenQuote(c) \/ CloseQuote(c) \/ LeaveQuote(c) =>
        ~EndField(c) /\ UNCHANGED fields /\ state' \in CSVState
  BY CSVAssumption DEF OpenQuote, CloseQuote, LeaveQuote, EndField, CSVState
<1> QED
  BY <1>2, <1>3, <1>4, <1>5, <1>6

\* A new line starts with an empty field.
LEMMA LineStart ==
  ASSUME NEW n, StartLine(n)
  PROVE  /\ line' = n /\ at' = 0 /\ state' \in CSVState
         /\ fields' \in Seq(Seq(Char)) \ {<<>>} /\ Len(fields') = 1
<1>1. <<>> \in Seq(Char)
  BY EmptySeq
<1>2. <<<<>>>> \in Seq(Seq(Char)) /\ Len(<<<<>>>>) = 1 /\ <<<<>>>> # <<>>
  BY <1>1
<1> QED
  BY <1>2 DEF StartLine, CSVState

\* A part that is written in place leaves the lines a sequence of texts.
LEMMA WriteType ==
  ASSUME Types, pc = "write", at < Len(header), NEW part \in Seq(Char), Write(part)
  PROVE  Types'
<1>1. line \in 1 .. Len(text) /\ Len(text) \in Nat /\ text[line] \in Seq(Char)
  BY LenProperties DEF Types, TypesButRows
<1>2. Sep \in Seq(Char)
  BY EmptySeq, CSVAssumption DEF Sep
<1>3. text[line] \o Sep \in Seq(Char)
  BY <1>1, <1>2, ConcatProperties
<1> DEFINE e == text[line] \o Sep \o part
<1>4. e \in Seq(Char)
  BY <1>3, ConcatProperties
<1>5. text' = [text EXCEPT ![line] = e]
  BY DEF Write
<1> HIDE DEF e
<1>6. text' \in Seq(Seq(Char)) /\ Len(text') = Len(text)
  BY <1>1, <1>4, <1>5, ExceptSeq DEF Types, TypesButRows
<1>7. Len(header) \in Nat /\ Len(table) \in Nat
  BY LenProperties DEF Types, TypesButRows
<1>8. at' = at + 1 /\ UNCHANGED <<line, state, fields, header, table, loaded, pc>>
  BY DEF Write
<1>9. ~Reading' /\ pc' = "write"
  BY <1>8 DEF Reading
<1>10. at' \in Nat /\ at' <= Len(header')
  BY <1>7, <1>8 DEF Types, TypesButRows
<1> QED
  BY <1>6, <1>8, <1>9, <1>10 DEF Types, TypesButRows, RowType

\* The variables of the reader and the writer keep their types.
LEMMA InitType == Init => Types
<1> SUFFICES ASSUME Init PROVE Types
  OBVIOUS
<1>1. text \in Seq(Seq(Char)) /\ Len(text) \in Nat
  BY CSVAssumption, LenProperties DEF Init
<1>2. <<>> \in Seq(Char) /\ <<>> \in Seq(Seq(Char)) /\ <<>> \in Seq(RowType)
  BY EmptySeq
<1>3. <<<<>>>> \in Seq(Seq(Char)) \ {<<>>}
  BY <1>2
<1>4. Reading => Len(text[line]) \in Nat
  BY <1>1, LenProperties DEF Reading, Init
<1> QED
  BY <1>1, <1>2, <1>3, <1>4 DEF Init, Types, TypesButRows, CSVState

LEMMA NextType == Types /\ [Next]_vars => Types'
<1> SUFFICES ASSUME Types, [Next]_vars PROVE Types'
  OBVIOUS
<1>1. /\ Len(text) \in Nat /\ Len(header) \in Nat /\ Len(table) \in Nat
      /\ \A n \in 1 .. Len(text) : text[n] \in Seq(Char) /\ Len(text[n]) \in Nat
  BY LenProperties DEF Types, TypesButRows
<1>2. ASSUME ReadChar PROVE Types'
  <2>1. line \in 1 .. Len(text) /\ at + 1 \in 1 .. Len(text[line])
    BY <1>1, <1>2 DEF ReadChar, Reading, Types, TypesButRows
  <2>2. text[line][at + 1] \in Char
    BY <1>1, <2>1, LenProperties
  <2>3. fields' \in Seq(Seq(Char)) \ {<<>>} /\ state' \in CSVState
    BY <1>2, <2>2, CharType DEF ReadChar, Types, TypesButRows
  <2>4. at' \in Nat /\ at' <= Len(text[line])
    BY <1>2, <2>1 DEF ReadChar, Types, TypesButRows
  <2>5. UNCHANGED <<text, line, header, table, pc>> /\ pc # "write"
    BY <1>2 DEF ReadChar, Reading
  <2> QED
    BY <2>3, <2>4, <2>5 DEF Types, TypesButRows, RowType
<1>3. ASSUME UNCHANGED <<text, header>>, NEW n \in 2 .. Len(text) + 1, StartLine(n),
             table' \in Seq(RowType), pc' \in {"load", "merge"}
      PROVE  Types'
  <2>1. /\ line' = n /\ at' = 0 /\ state' \in CSVState
        /\ fields' \in Seq(Seq(Char)) \ {<<>>}
    BY <1>3, LineStart
  <2>2. Reading' => at' <= Len(text'[line'])
    BY <1>1, <1>3, <2>1 DEF Reading
  <2> QED
    BY <1>3, <2>1, <2>2 DEF Types, TypesButRows, RowType
<1>4. ASSUME TakeHeader PROVE Types'
  <2>1. /\ header' \in Seq(Seq(Char)) /\ UNCHANGED <<text, table, pc>> /\ pc = "load"
        /\ table = <<>>
    BY <1>4 DEF TakeHeader, Types, TypesButRows
  <2>2. /\ line' = 2 /\ at' = 0 /\ state' \in CSVState
        /\ fields' \in Seq(Seq(Char)) \ {<<>>}
    BY <1>4, LineStart DEF TakeHeader
  <2>3. 2 \in 1 .. Len(text) + 1
    BY <1>1, <1>4 DEF TakeHeader, AtEndOfLine, Reading, Types, TypesButRows
  <2>4. Reading' => at' <= Len(text'[line'])
    BY <1>1, <2>1, <2>2, <2>3 DEF Reading
  <2>5. table' \in Seq(RowType')
    BY <2>1, EmptySeq
  <2> QED
    BY <2>1, <2>2, <2>3, <2>4, <2>5 DEF Types, TypesButRows
<1>5. ASSUME TakeRow PROVE Types'
  <2>1. line + 1 \in 2 .. Len(text) + 1 /\ pc \in {"load", "merge"}
    BY <1>1, <1>5 DEF TakeRow, AtEndOfLine, Reading, Types, TypesButRows
  <2>2. RowOf(header, fields) \in RowType
    BY RowOfType DEF Types, TypesButRows, RowType
  <2>3. table' \in Seq(RowType)
    BY <1>5, <2>2, AppendProperties DEF TakeRow, Types, TypesButRows
  <2> QED
    BY <1>3, <1>5, <2>1, <2>3 DEF TakeRow
<1>6. ASSUME RowTooLong \/ WriteThrows PROVE Types'
  BY <1>6 DEF RowTooLong, WriteThrows, Types, TypesButRows, Reading, RowType
<1>7. ASSUME SortTable PROVE Types'
  <2>1. table' \in [DOMAIN table -> Rows(table)]
    BY <1>7 DEF SortTable, Sorted, Orders
  <2>2. DOMAIN table = 1 .. Len(table) /\ Rows(table) \subseteq RowType
    BY LenProperties DEF Types, TypesButRows, Rows
  <2>3. table' \in Seq(RowType)
    BY <1>1, <2>1, <2>2
  <2>4. <<<<>>>> \in Seq(Seq(Char)) /\ Len(<<<<>>>>) = 1
    BY EmptySeq
  <2>5. /\ text' = <<<<>>>> /\ line' = 1 /\ at' = 0 /\ pc' = "write"
        /\ UNCHANGED <<state, fields, header>>
    BY <1>7 DEF SortTable
  <2>6. Len(table') \in Nat
    BY <2>3, LenProperties
  <2> QED
    BY <1>1, <2>3, <2>4, <2>5, <2>6 DEF Types, TypesButRows, Reading, RowType
<1>8. ASSUME WriteName PROVE Types'
  <2>1. at + 1 \in 1 .. Len(header)
    BY <1>1, <1>8 DEF WriteName, Writing, Types, TypesButRows
  <2>2. header[at + 1] \in Seq(Char)
    BY <2>1, LenProperties DEF Types, TypesButRows
  <2> QED
    BY <1>8, <2>2, WriteType DEF WriteName, Writing
<1>9. ASSUME WriteField PROVE Types'
  <2> DEFINE c == header[at + 1]
             f == table[line - 1][c]
  <2>1. line - 1 \in 1 .. Len(table)
    <3>1. pc = "write" /\ line > 1
      BY <1>9 DEF WriteField, Writing
    <3>2. line \in Nat /\ line <= Len(table) + 1
      BY <1>1, <3>1 DEF Types, TypesButRows
    <3> QED
      BY <1>1, <3>1, <3>2
  <2>2. table[line - 1] \in RowType
    BY <2>1, LenProperties DEF Types, TypesButRows
  <2>3. c \in DOMAIN table[line - 1]
    BY <1>9 DEF WriteField, HasField
  <2>4. f \in Seq(Char)
    BY <2>2, <2>3, RowHasTexts DEF Types, TypesButRows, RowType
  <2>5. <<Quote>> \in Seq(Char)
    BY CSVAssumption
  <2>6. <<Quote>> \o f \in Seq(Char)
    BY <2>4, <2>5, ConcatProperties
  <2>7. Quoted(f) \in Seq(Char)
    BY <2>5, <2>6, ConcatProperties DEF Quoted
  <2> QED
    BY <1>9, <2>7, WriteType DEF WriteField, Writing
<1>10. ASSUME WriteNextLine PROVE Types'
  <2>1. text' \in Seq(Seq(Char)) /\ Len(text') = Len(text) + 1
    <3>1. <<>> \in Seq(Char)
      BY EmptySeq
    <3> QED
      BY <1>10, <3>1, AppendProperties DEF WriteNextLine, Types, TypesButRows
  <2>2. /\ pc = "write" /\ line <= Len(table) /\ line' = line + 1 /\ at' = 0
        /\ UNCHANGED <<state, fields, header, table, pc>>
    BY <1>10 DEF WriteNextLine
  <2> QED
    BY <1>1, <2>1, <2>2 DEF Types, TypesButRows, Reading, RowType
<1>11. ASSUME CloseFile PROVE Types'
  <2>1. <<>> \in Seq(RowType)
    BY EmptySeq
  <2>2. 2 \in 2 .. Len(text) + 1
    BY <1>1, <1>11 DEF CloseFile, Types, TypesButRows
  <2> QED
    BY <1>3, <1>11, <2>1, <2>2 DEF CloseFile
<1>12. ASSUME UNCHANGED vars PROVE Types'
  BY <1>12 DEF vars, Types, TypesButRows, Reading, RowType
<1> QED
  BY <1>2, <1>4, <1>5, <1>6, <1>7, <1>8, <1>9, <1>10, <1>11, <1>12 DEF Next

LEMMA TypesHold == Spec => []Types
BY InitType, NextType, PTL DEF Spec

\* The parser is inside its line, the writer inside the table, and every row has its
\* columns from the header, for files of any length and any characters.
THEOREM CSVTypeCorrect == Spec => []TypeOK
<1>1. Types => TypeOK
  <2> SUFFICES ASSUME Types PROVE TypeOK
    OBVIOUS
  <2>1. DOMAIN table = 1 .. Len(table) /\ \A k \in DOMAIN table : table[k] \in RowType
    BY LenProperties DEF Types
  <2>2. table \in Seq(Rows(table))
    BY <2>1, LenProperties DEF Types, Rows
  <2>3. \A r \in Rows(table) : \E C \in SUBSET Rows(header) : r \in [C -> Seq(Char)]
    BY <2>1 DEF Rows, RowType
  <2> QED
    BY <2>2, <2>3 DEF TypeOK, Types
<1> QED
  BY <1>1, TypesHold, PTL

----------------------------------------------------------------------------
(* Where fields end. *)

\* One more element changes the parity.
LEMMA ParityChanges ==
  ASSUME NEW S, NEW x, IsFiniteSet(S), x \notin S
  PROVE  IsOdd(S \cup {x}) <=> ~IsOdd(S)
<1>1. Cardinality(S) \in Nat /\ Cardinality(S \cup {x}) = Cardinality(S) + 1
  BY FS_CardinalityType, FS_AddElement
<1>2. \A k \in Nat : (k + 1) % 2 = 1 <=> ~(k % 2 = 1)
  OBVIOUS
<1> QED
  BY <1>1, <1>2 DEF IsOdd

\* What the next character adds to the quotes and to the separators of a line.
LEMMA NextCharacter ==
  ASSUME NEW l, NEW n \in Nat
  PROVE  /\ Quotes(l, n + 1) = IF l[n + 1] = Quote THEN Quotes(l, n) \cup {n + 1}
                              ELSE Quotes(l, n)
         /\ n + 1 \notin Quotes(l, n)
         /\ Separators(l, n + 1) =
              IF l[n + 1] = Comma /\ ~IsOdd(Quotes(l, n)) THEN Separators(l, n) \cup {n + 1}
              ELSE Separators(l, n)
         /\ n + 1 \notin Separators(l, n)
         /\ IsFiniteSet(Quotes(l, n))
         /\ IsFiniteSet(Separators(l, n))
<1>1. 1 .. n + 1 = (1 .. n) \cup {n + 1} /\ n + 1 \notin 1 .. n /\ (n + 1) - 1 = n
  OBVIOUS
<1>2. IsFiniteSet(1 .. n)
  BY FS_Interval
<1>3. Quotes(l, n) \subseteq 1 .. n /\ Separators(l, n) \subseteq 1 .. n
  BY DEF Quotes, Separators
<1>4. IsFiniteSet(Quotes(l, n)) /\ IsFiniteSet(Separators(l, n))
  BY <1>2, <1>3, FS_Subset
<1>5. Quotes(l, n + 1) = IF l[n + 1] = Quote THEN Quotes(l, n) \cup {n + 1} ELSE Quotes(l, n)
  BY <1>1 DEF Quotes
<1>6. Separators(l, n + 1) =
        IF l[n + 1] = Comma /\ ~IsOdd(Quotes(l, n)) THEN Separators(l, n) \cup {n + 1}
        ELSE Separators(l, n)
  BY <1>1 DEF Separators
<1> QED
  BY <1>1, <1>3, <1>4, <1>5, <1>6

\* Before the first character there is one field, and no quote.
LEMMA FieldsAreSeparatedAtStart ==
  ASSUME NEW l
  PROVE  ~IsOdd(Quotes(l, 0)) /\ Cardinality(Separators(l, 0)) = 0
<1>1. Quotes(l, 0) = {} /\ Separators(l, 0) = {}
  BY DEF Quotes, Separators
<1> QED
  BY <1>1, FS_EmptySet DEF IsOdd

\* The parser splits every line at the commas outside quotes and at no others.
THEOREM CSVSeparatesFields == Spec => []FieldsAreSeparated
<1>1. Init => FieldsAreSeparated
  <2> SUFFICES ASSUME Init PROVE FieldsAreSeparated
    OBVIOUS
  <2>1. at = 0 /\ state = "UnquotedField" /\ Len(fields) = 1
    BY DEF Init
  <2> QED
    BY <2>1, FieldsAreSeparatedAtStart DEF FieldsAreSeparated
<1>2. Types /\ FieldsAreSeparated /\ [Next]_vars => FieldsAreSeparated'
  <2> SUFFICES ASSUME Types, FieldsAreSeparated, [Next]_vars PROVE FieldsAreSeparated'
    OBVIOUS
  <2>1. ASSUME ReadChar PROVE FieldsAreSeparated'
    <3> DEFINE l == text[line]
               c == l[at + 1]
    <3>1. /\ at \in Nat /\ at' = at + 1 /\ UNCHANGED <<text, line>>
          /\ state = "QuotedField" <=> IsOdd(Quotes(l, at))
          /\ Len(fields) = Cardinality(Separators(l, at)) + 1
      BY <2>1 DEF ReadChar, Reading, FieldsAreSeparated, Types, TypesButRows
    <3>2. \/ EndField(c) \/ OpenQuote(c) \/ CloseQuote(c)
          \/ DoubledQuote(c) \/ Plain(c) \/ LeaveQuote(c)
      BY <2>1 DEF ReadChar
    <3>3. c \in Char
      <4>1. line \in 1 .. Len(text) /\ text[line] \in Seq(Char)
        BY <2>1, LenProperties DEF ReadChar, Reading, Types, TypesButRows
      <4>2. at + 1 \in 1 .. Len(text[line])
        BY <2>1, <4>1, LenProperties DEF ReadChar, Types, TypesButRows
      <4> QED
        BY <4>1, <4>2, LenProperties
    <3>4. Len(fields') = IF EndField(c) THEN Len(fields) + 1 ELSE Len(fields)
      BY <3>2, <3>3, CharType DEF Types, TypesButRows
    <3> HIDE DEF c
    <3>5. state' = "QuotedField" <=> IsOdd(Quotes(l, at + 1))
      <4>1. CASE c = Quote
        <5>1. IsOdd(Quotes(l, at + 1)) <=> ~IsOdd(Quotes(l, at))
          <6>1. /\ Quotes(l, at + 1) = Quotes(l, at) \cup {at + 1}
                /\ IsFiniteSet(Quotes(l, at))
                /\ at + 1 \notin Quotes(l, at)
            BY <3>1, <4>1, NextCharacter DEF c
          <6> QED
            BY <6>1, ParityChanges
        <5>2. state' = "QuotedField" <=> state # "QuotedField"
          BY <3>2, <4>1, CSVAssumption
             DEF EndField, OpenQuote, CloseQuote, DoubledQuote, Plain, LeaveQuote
        <5> QED
          BY <3>1, <5>1, <5>2
      <4>2. CASE c # Quote
        <5>1. Quotes(l, at + 1) = Quotes(l, at)
          BY <3>1, <4>2, NextCharacter DEF c
        <5>2. state' = "QuotedField" <=> state = "QuotedField"
          BY <3>2, <4>2
             DEF EndField, OpenQuote, CloseQuote, DoubledQuote, Plain, LeaveQuote
        <5> QED
          BY <3>1, <5>1, <5>2
      <4> QED
        BY <4>1, <4>2
    <3>6. Len(fields') = Cardinality(Separators(l, at + 1)) + 1
      <4>1. Cardinality(Separators(l, at)) \in Nat
        BY <3>1, NextCharacter, FS_CardinalityType
      <4>2. EndField(c) <=> c = Comma /\ state # "QuotedField"
        BY <3>2, CSVAssumption
           DEF EndField, OpenQuote, CloseQuote, DoubledQuote, Plain, LeaveQuote
      <4>3. CASE EndField(c)
        <5>1. Separators(l, at + 1) = Separators(l, at) \cup {at + 1}
          BY <3>1, <4>2, <4>3, NextCharacter DEF c
        <5>2. Cardinality(Separators(l, at + 1)) = Cardinality(Separators(l, at)) + 1
          BY <3>1, <5>1, NextCharacter, FS_AddElement
        <5> QED
          BY <3>1, <3>4, <4>1, <4>3, <5>2
      <4>4. CASE ~EndField(c)
        <5>1. Separators(l, at + 1) = Separators(l, at)
          BY <3>1, <4>2, <4>4, NextCharacter DEF c
        <5> QED
          BY <3>1, <3>4, <4>4, <5>1
      <4> QED
        BY <4>3, <4>4
    <3> QED
      BY <3>1, <3>5, <3>6 DEF FieldsAreSeparated
  <2>2. ASSUME NEW n, StartLine(n) PROVE FieldsAreSeparated'
    <3>1. at' = 0 /\ state' = "UnquotedField" /\ Len(fields') = 1
      BY <2>2, LineStart DEF StartLine
    <3> QED
      BY <3>1, FieldsAreSeparatedAtStart DEF FieldsAreSeparated
  <2>3. ASSUME TakeHeader \/ TakeRow \/ CloseFile PROVE FieldsAreSeparated'
    BY <2>2, <2>3 DEF TakeHeader, TakeRow, CloseFile
  <2>4. ASSUME pc' \in {"write", "threw", "killed"} PROVE FieldsAreSeparated'
    BY <2>4 DEF FieldsAreSeparated, Reading
  <2>5. ASSUME SortTable \/ RowTooLong \/ WriteThrows \/ WriteNextLine PROVE FieldsAreSeparated'
    BY <2>4, <2>5 DEF SortTable, RowTooLong, WriteThrows, WriteNextLine
  <2>6. ASSUME WriteName \/ WriteField PROVE FieldsAreSeparated'
    BY <2>4, <2>6 DEF WriteName, WriteField, Writing, Write
  <2>7. ASSUME UNCHANGED vars PROVE FieldsAreSeparated'
    BY <2>7 DEF vars, FieldsAreSeparated, Reading
  <2> QED
    BY <2>1, <2>3, <2>5, <2>6, <2>7 DEF Next
<1> QED
  BY <1>1, <1>2, TypesHold, PTL DEF Spec
----------------------------------------------------------------------------
(* The order of the rows. *)

FieldsAreRead == \A f \in Seq(Char) : FieldOf(f) \in Field

\* As the comparison sees them, complete rows are rows of RowOrder.
LEMMA TableRows ==
  ASSUME FieldsAreRead, Types, NEW t \in Seq(RowType), Complete(t)
  PROVE  AsRows(t) \subseteq CompleteRow
<1> SUFFICES ASSUME NEW r \in Rows(t) PROVE AsRow(r) \in CompleteRow
  BY DEF AsRows
<1>1. header \in Seq(Seq(Char)) /\ r \in RowType
  <2>1. DOMAIN t = 1 .. Len(t) /\ \A k \in DOMAIN t : t[k] \in RowType
    BY LenProperties
  <2> QED
    BY <2>1 DEF Rows, Types, TypesButRows
<1>2. DOMAIN AsRow(r) = {"id", "timestamp"}
  BY DEF Complete
<1>3. ASSUME NEW c \in {"id", "timestamp"}
      PROVE  Spelling[c] \in DOMAIN r /\ AsRow(r)[c] = FieldOf(r[Spelling[c]])
  BY <1>2, <1>3 DEF AsRow
<1>4. ASSUME NEW c \in {"id", "timestamp"} PROVE AsRow(r)[c] \in Field
  <2>1. r[Spelling[c]] \in Seq(Char)
    BY <1>1, <1>3, RowHasTexts DEF RowType
  <2> QED
    BY <1>3, <2>1 DEF FieldsAreRead
<1>5. AsRow(r) = [c \in {"id", "timestamp"} |-> AsRow(r)[c]]
  BY <1>2 DEF AsRow
<1> QED
  BY <1>4, <1>5 DEF CompleteRow

\* The comparison given to std::sort is a strict weak order on every chunk of complete rows
\* whose columns hold only numbers or only other text.
THEOREM CSVOrdersChunks == ASSUME FieldsAreRead PROVE Spec => []ChunkOrderIsStrictWeak
<1>1. Types => ChunkOrderIsStrictWeak
  BY TableRows, HomogeneousRowsAreOrdered DEF ChunkOrderIsStrictWeak, Types
<1> QED
  BY <1>1, TypesHold, PTL

\* What the merge parses it compares as the chunks were sorted.
THEOREM CSVMergesAsSorted == ASSUME FieldsAreRead PROVE Spec => []MergeComparesAsChunks
<1>1. Types => MergeComparesAsChunks
  BY TableRows, MergeComparesLikeChunks DEF MergeComparesAsChunks, Types
<1> QED
  BY <1>1, TypesHold, PTL

----------------------------------------------------------------------------
(* A row is written and read again. *)

\* Where the field k of a line opens, when p[k - 1] is where the field before it closed.
Opens(p, k) == p[k - 1] + (IF k = 1 THEN 1 ELSE 2)

\* The field k of the line l is f, written between quotes.
IsWritten(l, p, k, f) ==
  /\ k > 1 => l[p[k - 1] + 1] = Comma
  /\ l[Opens(p, k)] = Quote
  /\ \A i \in 1 .. Len(f) : l[Opens(p, k) + i] = f[i]
  /\ l[p[k]] = Quote

\* The first m fields of the row r, in the order of the header h, are written in the line l
\* and close at p.
Laid(h, l, r, m, p) ==
  /\ p \in [0 .. m -> Nat]
  /\ p[0] = 0
  /\ p[m] = Len(l)
  /\ \A k \in 1 .. m :
       /\ h[k] \in DOMAIN r /\ r[h[k]] \in Seq(Char)
       /\ k < m => p[k] < Len(l)
       /\ p[k] = Opens(p, k) + Len(r[h[k]]) + 1
       /\ IsWritten(l, p, k, r[h[k]])

\* g is the line l, the separator s and the field f between quotes.
Joins(g, l, s, f) ==
  /\ g \in Seq(Char)
  /\ Len(g) = Len(l) + Len(s) + Len(f) + 2
  /\ \A i \in 1 .. Len(l) : g[i] = l[i]
  /\ \A i \in 1 .. Len(s) : g[Len(l) + i] = s[i]
  /\ g[Len(l) + Len(s) + 1] = Quote
  /\ \A i \in 1 .. Len(f) : g[Len(l) + Len(s) + 1 + i] = f[i]
  /\ g[Len(g)] = Quote

\* A separator and a quoted field join a line character by character.
LEMMA PartIsWritten ==
  ASSUME NEW l \in Seq(Char), NEW s \in Seq(Char), NEW f \in Seq(Char),
         NEW g, g = l \o s \o Quoted(f)
  PROVE  Joins(g, l, s, f)
<1> DEFINE q == <<Quote>> \o f
           t == q \o <<Quote>>
           a == l \o s
<1>1. /\ <<Quote>> \in Seq(Char) /\ Len(<<Quote>>) = 1 /\ <<Quote>>[1] = Quote
      /\ Len(l) \in Nat /\ Len(s) \in Nat /\ Len(f) \in Nat
  BY CSVAssumption, LenProperties
<1>2. /\ q \in Seq(Char) /\ Len(q) = 1 + Len(f)
      /\ q[1] = Quote /\ \A i \in 1 .. Len(f) : q[1 + i] = f[i]
  <2>1. q \in Seq(Char) /\ Len(q) = 1 + Len(f)
    BY <1>1, ConcatProperties
  <2>2. \A i \in 1 .. Len(q) : q[i] = IF i <= 1 THEN <<Quote>>[i] ELSE f[i - 1]
    BY <1>1, ConcatProperties
  <2>3. q[1] = Quote
    BY <1>1, <2>1, <2>2
  <2>4. ASSUME NEW i \in 1 .. Len(f) PROVE q[1 + i] = f[i]
    <3>1. 1 + i \in 1 .. Len(q) /\ ~(1 + i <= 1) /\ (1 + i) - 1 = i
      BY <1>1, <2>1
    <3> QED
      BY <2>2, <3>1
  <2> QED
    BY <2>1, <2>3, <2>4
<1> HIDE DEF q
<1>3. /\ t \in Seq(Char) /\ Len(t) = Len(f) + 2
      /\ \A i \in 1 .. 1 + Len(f) : t[i] = q[i]
      /\ t[Len(f) + 2] = Quote
  <2>1. t \in Seq(Char) /\ Len(t) = Len(q) + 1
    BY <1>1, <1>2, ConcatProperties
  <2>2. \A i \in 1 .. Len(t) : t[i] = IF i <= Len(q) THEN q[i] ELSE <<Quote>>[i - Len(q)]
    BY <1>1, <1>2, ConcatProperties
  <2>3. Len(f) + 2 \in 1 .. Len(t) /\ ~(Len(f) + 2 <= Len(q)) /\ Len(f) + 2 - Len(q) = 1
    BY <1>1, <1>2, <2>1
  <2>4. \A i \in 1 .. 1 + Len(f) : i \in 1 .. Len(t) /\ i <= Len(q)
    BY <1>1, <1>2, <2>1
  <2>5. t[Len(f) + 2] = Quote
    BY <1>1, <2>2, <2>3
  <2>6. Len(t) = Len(f) + 2
    BY <1>1, <1>2, <2>1
  <2>7. \A i \in 1 .. 1 + Len(f) : t[i] = q[i]
    BY <2>2, <2>4
  <2> HIDE DEF t
  <2> QED
    BY <2>1, <2>5, <2>6, <2>7
<1>4. t = Quoted(f)
  BY DEF Quoted, q
<1> HIDE DEF t
<1>5. /\ a \in Seq(Char) /\ Len(a) = Len(l) + Len(s)
      /\ \A i \in 1 .. Len(l) : a[i] = l[i]
      /\ \A i \in 1 .. Len(s) : a[Len(l) + i] = s[i]
  <2>1. a \in Seq(Char) /\ Len(a) = Len(l) + Len(s)
    BY ConcatProperties
  <2>2. \A i \in 1 .. Len(a) : a[i] = IF i <= Len(l) THEN l[i] ELSE s[i - Len(l)]
    BY ConcatProperties
  <2>3. \A i \in 1 .. Len(l) : i \in 1 .. Len(a)
    BY <1>1, <2>1
  <2>4. ASSUME NEW i \in 1 .. Len(s) PROVE a[Len(l) + i] = s[i]
    <3>1. Len(l) + i \in 1 .. Len(a) /\ ~(Len(l) + i <= Len(l)) /\ (Len(l) + i) - Len(l) = i
      BY <1>1, <2>1
    <3> QED
      BY <2>2, <3>1
  <2>5. \A i \in 1 .. Len(l) : a[i] = l[i]
    BY <1>1, <2>2, <2>3
  <2> HIDE DEF a
  <2> QED
    BY <2>1, <2>4, <2>5
<1> HIDE DEF a
<1>6. /\ g \in Seq(Char) /\ Len(g) = Len(a) + Len(t)
      /\ \A i \in 1 .. Len(g) : g[i] = IF i <= Len(a) THEN a[i] ELSE t[i - Len(a)]
  <2>1. g = a \o t
    BY <1>4 DEF a
  <2>2. a \in Seq(Char) /\ t \in Seq(Char)
    BY <1>3, <1>5
  <2> QED
    BY <2>1, <2>2, ConcatProperties
<1>8. Len(g) = Len(l) + Len(s) + Len(f) + 2 /\ Len(g) \in Nat
  BY <1>1, <1>3, <1>5, <1>6
<1>9. \A i \in 1 .. Len(a) : g[i] = a[i]
  BY <1>1, <1>5, <1>6, <1>8
<1>10. ASSUME NEW i \in 1 .. Len(t) PROVE g[Len(a) + i] = t[i]
  <2>1. Len(a) + i \in 1 .. Len(g) /\ ~(Len(a) + i <= Len(a)) /\ (Len(a) + i) - Len(a) = i
    BY <1>1, <1>3, <1>5, <1>6
  <2> QED
    BY <1>6, <2>1
<1>11. \A i \in 1 .. Len(l) : g[i] = l[i]
  BY <1>1, <1>5, <1>9
<1>12. \A i \in 1 .. Len(s) : g[Len(l) + i] = s[i]
  <2>1. \A i \in 1 .. Len(s) : Len(l) + i \in 1 .. Len(a)
    BY <1>1, <1>5
  <2> QED
    BY <1>5, <1>9, <2>1
<1>13. g[Len(l) + Len(s) + 1] = Quote
  <2>1. 1 \in 1 .. Len(t) /\ t[1] = Quote
    BY <1>1, <1>2, <1>3
  <2>2. g[Len(a) + 1] = Quote
    BY <1>10, <2>1
  <2> QED
    BY <1>5, <2>2
<1>14. ASSUME NEW i \in 1 .. Len(f) PROVE g[Len(l) + Len(s) + 1 + i] = f[i]
  <2>1. /\ 1 + i \in 1 .. Len(t) /\ 1 + i \in 1 .. 1 + Len(f)
        /\ Len(a) + (1 + i) = Len(l) + Len(s) + 1 + i
    BY <1>1, <1>3, <1>5
  <2>2. t[1 + i] = f[i]
    BY <1>2, <1>3, <2>1
  <2>3. g[Len(a) + (1 + i)] = t[1 + i]
    BY <1>10, <2>1
  <2> QED
    BY <2>1, <2>2, <2>3
<1>15. g[Len(g)] = Quote
  <2>1. Len(f) + 2 \in 1 .. Len(t) /\ Len(a) + (Len(f) + 2) = Len(g)
    BY <1>1, <1>3, <1>5, <1>8
  <2>2. g[Len(a) + (Len(f) + 2)] = t[Len(f) + 2]
    BY <1>10, <2>1
  <2> QED
    BY <1>3, <2>1, <2>2
<1> QED
  BY <1>6, <1>8, <1>11, <1>12, <1>13, <1>14, <1>15 DEF Joins

\* The next field is written behind those that are.
LEMMA LaidExtends ==
  ASSUME NEW h, NEW l \in Seq(Char), NEW m \in Nat, NEW r, NEW p, Laid(h, l, r, m, p),
         h[m + 1] \in DOMAIN r, NEW f \in Seq(Char), r[h[m + 1]] = f,
         NEW s, s \in Seq(Char), Len(s) = (IF m = 0 THEN 0 ELSE 1), m > 0 => s[1] = Comma,
         NEW g, Joins(g, l, s, f)
  PROVE  \E q : Laid(h, g, r, m + 1, q)
<1> DEFINE q == [k \in 0 .. m + 1 |-> IF k <= m THEN p[k] ELSE Len(g)]
<1>1. Len(s) \in Nat /\ (m = 0 => Len(s) = 0) /\ (m > 0 => Len(s) = 1 /\ s[1] = Comma)
  OBVIOUS
<1>2. f \in Seq(Char) /\ Len(f) \in Nat /\ Len(l) \in Nat
  BY LenProperties
<1>3. /\ g \in Seq(Char)
      /\ Len(g) = Len(l) + Len(s) + Len(f) + 2
      /\ \A i \in 1 .. Len(l) : g[i] = l[i]
      /\ \A i \in 1 .. Len(s) : g[Len(l) + i] = s[i]
      /\ g[Len(l) + Len(s) + 1] = Quote
      /\ \A i \in 1 .. Len(f) : g[Len(l) + Len(s) + 1 + i] = f[i]
      /\ g[Len(g)] = Quote
  BY Zenon DEF Joins
<1>4. p \in [0 .. m -> Nat] /\ p[0] = 0 /\ p[m] = Len(l)
  BY DEF Laid
<1>5. Len(g) \in Nat /\ Len(l) < Len(g)
  BY <1>1, <1>2, <1>3
<1>6. q \in [0 .. m + 1 -> Nat] /\ q[0] = 0 /\ q[m + 1] = Len(g) /\ q[m] = Len(l)
      /\ \A k \in 0 .. m : q[k] = p[k]
  BY <1>4, <1>5
<1> HIDE DEF q
<1>7. ASSUME NEW k \in 1 .. m
      PROVE  /\ h[k] \in DOMAIN r
             /\ r[h[k]] \in Seq(Char)
             /\ q[k] < Len(g)
             /\ q[k] = Opens(q, k) + Len(r[h[k]]) + 1
             /\ IsWritten(g, q, k, r[h[k]])
  <2> DEFINE e == r[h[k]]
  <2>1. /\ h[k] \in DOMAIN r /\ e \in Seq(Char)
        /\ k < m => p[k] < Len(l)
        /\ p[k] = Opens(p, k) + Len(e) + 1
        /\ IsWritten(l, p, k, e)
    BY DEF Laid
  <2>2. k \in Nat \ {0} /\ k - 1 \in 0 .. m /\ k \in 0 .. m /\ p[k] \in Nat /\ p[k - 1] \in Nat
    <3>1. k \in Nat \ {0} /\ k - 1 \in 0 .. m /\ k \in 0 .. m
      OBVIOUS
    <3> QED
      BY <1>4, <3>1
  <2>3. Opens(q, k) = Opens(p, k) /\ q[k] = p[k] /\ q[k - 1] = p[k - 1]
        /\ Opens(p, k) \in Nat \ {0} /\ p[k - 1] < Opens(p, k)
    <3>1. q[k] = p[k] /\ q[k - 1] = p[k - 1]
      BY <1>6, <2>2
    <3> QED
      BY <2>2, <3>1 DEF Opens
  <2>4. p[k] <= Len(l)
    BY <1>2, <1>4, <2>1, <2>2
  <2>5. Len(e) \in Nat
    BY LenProperties DEF Laid
  <2> HIDE DEF e
  <2>6. p[k] \in 1 .. Len(l) /\ Opens(p, k) \in 1 .. Len(l)
    BY <1>2, <2>1, <2>2, <2>3, <2>4, <2>5
  <2>7. ASSUME NEW i \in 1 .. Len(e) PROVE g[Opens(p, k) + i] = e[i]
    <3>1. Opens(p, k) + i \in 1 .. Len(l)
      <4>1. i \in Nat \ {0} /\ i <= Len(e)
        BY <2>5
      <4> QED
        BY <1>2, <2>1, <2>2, <2>3, <2>4, <2>5, <4>1
    <3> QED
      BY <1>3, <2>1, <3>1 DEF IsWritten
  <2>8. k > 1 => p[k - 1] + 1 \in 1 .. Len(l)
    BY <1>2, <2>2, <2>3, <2>6
  <2>9. IsWritten(g, q, k, e)
    <3>1. k > 1 => g[q[k - 1] + 1] = Comma
      BY <1>3, <2>1, <2>3, <2>8 DEF IsWritten
    <3>2. g[Opens(q, k)] = Quote /\ g[q[k]] = Quote
      <4>1. l[Opens(p, k)] = Quote /\ l[p[k]] = Quote
        BY <2>1 DEF IsWritten
      <4> QED
        BY <1>3, <2>3, <2>6, <4>1
    <3> QED
      BY <2>3, <2>7, <3>1, <3>2 DEF IsWritten
  <2>10. q[k] < Len(g)
    BY <1>2, <1>5, <2>2, <2>3, <2>4
  <2> QED
    BY <2>1, <2>3, <2>9, <2>10 DEF e
<1>8. /\ h[m + 1] \in DOMAIN r /\ f \in Seq(Char)
      /\ q[m + 1] = Opens(q, m + 1) + Len(f) + 1
      /\ IsWritten(g, q, m + 1, f)
  <2>1. (m + 1) - 1 = m
    OBVIOUS
  <2>2. Opens(q, m + 1) = Len(l) + Len(s) + 1
    <3>1. Opens(q, m + 1) = Len(l) + (IF m + 1 = 1 THEN 1 ELSE 2)
      BY <1>6, <2>1 DEF Opens
    <3>2. CASE m = 0
      BY <1>1, <1>2, <3>1, <3>2
    <3>3. CASE m > 0
      BY <1>1, <1>2, <3>1, <3>3
    <3> QED
      BY <3>2, <3>3
  <2>3. m + 1 > 1 => g[q[m] + 1] = Comma
    <3> SUFFICES ASSUME m > 0 PROVE g[Len(l) + 1] = Comma
      BY <1>6
    <3>1. 1 \in 1 .. Len(s) /\ s[1] = Comma
      BY <1>1
    <3> QED
      BY <1>3, <3>1
  <2>4. q[m + 1] = Opens(q, m + 1) + Len(f) + 1
    BY <1>1, <1>2, <1>3, <1>6, <2>2
  <2>5. IsWritten(g, q, m + 1, f)
    BY <1>3, <1>6, <2>1, <2>2, <2>3 DEF IsWritten
  <2> QED
    BY <1>2, <2>4, <2>5
<1>9. Laid(h, g, r, m + 1, q)
  <2> SUFFICES ASSUME NEW k \in 1 .. m + 1
               PROVE  /\ h[k] \in DOMAIN r
                      /\ r[h[k]] \in Seq(Char)
                      /\ k < m + 1 => q[k] < Len(g)
                      /\ q[k] = Opens(q, k) + Len(r[h[k]]) + 1
                      /\ IsWritten(g, q, k, r[h[k]])
    BY <1>6 DEF Laid
  <2>1. CASE k = m + 1
    BY <1>8, <2>1
  <2>2. CASE k \in 1 .. m
    BY <1>7, <2>2
  <2> QED
    BY <2>1, <2>2
<1> QED
  BY <1>9

\* The rows above the current line are written in whole, and of its row the first at fields.
RowsAreLaid ==
  pc = "write" =>
    /\ table = loaded
    /\ \A i \in 2 .. line - 1 : \E p : Laid(header, text[i], loaded[i - 1], Len(header), p)
    /\ line > 1 => \E p : Laid(header, text[line], loaded[line - 1], at, p)

\* Every step of the writer keeps what is written where it is.
LEMMA RowsAreLaidKept ==
  ASSUME Types, RowsAreLaid, [Next]_vars
  PROVE  RowsAreLaid'
<1>1. /\ Len(text) \in Nat /\ Len(header) \in Nat /\ Len(table) \in Nat
      /\ text \in Seq(Seq(Char)) /\ DOMAIN text = 1 .. Len(text)
      /\ \A n \in 1 .. Len(text) : text[n] \in Seq(Char)
      /\ header \in Seq(Seq(Char)) /\ table \in Seq(RowType) /\ at \in Nat
      /\ line \in Nat \ {0}
  BY LenProperties DEF Types, TypesButRows
<1>2. pc = "write" => at <= Len(header) /\ line = Len(text) /\ line <= Len(table) + 1
  BY DEF Types, TypesButRows
<1>3. CASE SortTable
  <2>1. line' = 1 /\ table' = loaded'
    BY <1>3 DEF SortTable
  <2>2. 2 .. line' - 1 = {} /\ ~(line' > 1)
    BY <2>1
  <2> QED
    BY <2>1, <2>2 DEF RowsAreLaid
<1>4. CASE WriteName
  <2>1. line' = 1 /\ UNCHANGED <<table, loaded, pc>> /\ pc = "write"
    BY <1>4 DEF WriteName, Write, Writing
  <2>2. 2 .. line' - 1 = {} /\ ~(line' > 1)
    BY <2>1
  <2> QED
    BY <2>1, <2>2 DEF RowsAreLaid
<1>5. CASE WriteField
  <2> DEFINE r == table[line - 1]
             c == header[at + 1]
             g == text[line] \o Sep \o Quoted(r[c])
  <2>1. /\ pc = "write" /\ line > 1 /\ at < Len(header) /\ c \in DOMAIN r
        /\ text' = [text EXCEPT ![line] = g]
        /\ at' = at + 1
        /\ UNCHANGED <<line, state, fields, header, table, loaded, pc>>
    BY <1>5 DEF WriteField, Write, Writing, HasField
  <2>2. line \in 1 .. Len(text) /\ line - 1 \in 1 .. Len(table) /\ table = loaded
    BY <1>1, <1>2, <2>1 DEF RowsAreLaid
  <2>3. r \in RowType
    BY <1>1, <2>2, LenProperties
  <2>4. r[c] \in Seq(Char)
    BY <1>1, <2>1, <2>3, RowHasTexts DEF RowType
  <2>5. /\ Sep \in Seq(Char) /\ Len(Sep) = (IF at = 0 THEN 0 ELSE 1)
        /\ at > 0 => Sep[1] = Comma
    <3>1. CASE at = 0
      BY <3>1, EmptySeq DEF Sep
    <3>2. CASE at # 0
      <4>1. Sep = <<Comma>> /\ Comma \in Char
        BY <3>2, CSVAssumption DEF Sep
      <4> QED
        BY <3>2, <4>1
    <3> QED
      BY <3>1, <3>2
  <2>6. Joins(g, text[line], Sep, r[c])
    BY <1>1, <2>2, <2>4, <2>5, PartIsWritten
  <2>7. PICK p : Laid(header, text[line], r, at, p)
    BY <2>1, <2>2 DEF RowsAreLaid
  <2>8. text[line] \in Seq(Char)
    BY <1>1, <2>2
  <2> HIDE DEF g, c
  <2>9. \E q : Laid(header, g, r, at + 1, q)
    BY <1>1, <2>1, <2>4, <2>5, <2>6, <2>7, <2>8, LaidExtends DEF c
  <2>10. /\ text'[line] = g
         /\ \A i \in 2 .. line - 1 : text'[i] = text[i]
    BY <1>1, <2>1, <2>2
  <2> QED
    BY <2>1, <2>2, <2>9, <2>10 DEF RowsAreLaid
<1>6. CASE WriteNextLine
  <2>1. /\ pc = "write" /\ at = Len(header) /\ text' = Append(text, <<>>)
        /\ line' = line + 1 /\ at' = 0
        /\ UNCHANGED <<state, fields, header, table, loaded, pc>>
    BY <1>6 DEF WriteNextLine
  <2>2. line = Len(text) /\ table = loaded
    BY <1>2, <2>1 DEF RowsAreLaid
  <2>3. /\ \A i \in 1 .. line : text'[i] = text[i]
        /\ text'[line + 1] = <<>>
    <3>1. text \in Seq(Seq(Char)) /\ <<>> \in Seq(Char)
      BY <1>1, EmptySeq
    <3> QED
      BY <2>1, <2>2, <3>1, AppendProperties
  <2>4. ASSUME NEW i \in 2 .. line' - 1
        PROVE  \E p : Laid(header, text'[i], loaded[i - 1], Len(header), p)
    <3>1. i \in 1 .. line /\ (i = line \/ i \in 2 .. line - 1)
      BY <1>1, <2>1
    <3>2. text'[i] = text[i]
      BY <2>3, <3>1
    <3>3. CASE i = line
      <4>1. line > 1
        BY <3>3
      <4> QED
        BY <2>1, <3>2, <3>3, <4>1 DEF RowsAreLaid
    <3>4. CASE i \in 2 .. line - 1
      BY <2>1, <3>2, <3>4 DEF RowsAreLaid
    <3> QED
      BY <3>1, <3>3, <3>4
  <2>5. Laid(header, <<>>, loaded[line'- 1], 0, [k \in 0 .. 0 |-> 0])
    BY DEF Laid
  <2> QED
    BY <2>1, <2>2, <2>3, <2>4, <2>5 DEF RowsAreLaid
<1>7. CASE UNCHANGED vars
  BY <1>7 DEF vars, RowsAreLaid
<1>8. ASSUME ReadChar \/ TakeHeader \/ TakeRow \/ RowTooLong \/ WriteThrows \/ CloseFile
      PROVE  pc' # "write"
  BY <1>8
     DEF ReadChar, TakeHeader, TakeRow, RowTooLong, WriteThrows, CloseFile, AtEndOfLine, Reading
<1> QED
  BY <1>3, <1>4, <1>5, <1>6, <1>7, <1>8 DEF Next, RowsAreLaid

\* The parser, at the character a of a line that holds the row r, is in the field k: before
\* its quote, between its quotes, or behind them.
InField(h, r, p, k, a, st, fs) ==
  /\ Len(fs) = k
  /\ \A j \in 1 .. k - 1 : fs[j] = r[h[j]]
  /\ \/ st = "UnquotedField" /\ a = Opens(p, k) - 1 /\ fs[k] = <<>>
     \/ /\ st = "QuotedField" /\ a = Opens(p, k) + Len(fs[k]) /\ Len(fs[k]) <= Len(r[h[k]])
        /\ \A i \in 1 .. Len(fs[k]) : fs[k][i] = r[h[k]][i]
     \/ st = "QuotedQuote" /\ a = p[k] /\ fs[k] = r[h[k]]

\* A field that is written between quotes and has none is read again.
LEMMA CharIsRead ==
  ASSUME NEW h, Len(h) \in Nat, NEW l \in Seq(Char), NEW r, NEW p, Laid(h, l, r, Len(h), p),
         \A c \in DOMAIN r : \A i \in DOMAIN r[c] : r[c][i] # Quote,
         fields \in Seq(Seq(Char)), NEW k \in 1 .. Len(h),
         NEW a \in Nat, a < Len(l), InField(h, r, p, k, a, state, fields),
         NEW c, c = l[a + 1],
         \/ EndField(c) \/ OpenQuote(c) \/ CloseQuote(c)
         \/ DoubledQuote(c) \/ Plain(c) \/ LeaveQuote(c)
  PROVE  \E j \in 1 .. Len(h) : InField(h, r, p, j, a + 1, state', fields')
<1> DEFINE e == r[h[k]]
           d == fields[k]
           n == Len(d)
<1>1. /\ h[k] \in DOMAIN r /\ e \in Seq(Char)
      /\ k < Len(h) => p[k] < Len(l)
      /\ p[k] = Opens(p, k) + Len(e) + 1
      /\ IsWritten(l, p, k, e)
      /\ p \in [0 .. Len(h) -> Nat] /\ p[Len(h)] = Len(l)
  BY DEF Laid
<1>2. Len(fields) = k /\ \A j \in 1 .. k - 1 : fields[j] = r[h[j]]
  BY DEF InField
<1>3. /\ k \in Nat \ {0} /\ d \in Seq(Char) /\ n \in Nat /\ DOMAIN d = 1 .. n
      /\ Len(e) \in Nat /\ DOMAIN e = 1 .. Len(e) /\ Len(l) \in Nat
      /\ DOMAIN fields = 1 .. k
  <2>1. k \in Nat \ {0} /\ DOMAIN fields = 1 .. k
    BY <1>2, LenProperties
  <2>2. d \in Seq(Char)
    BY <1>2, <2>1, LenProperties
  <2> QED
    BY <1>1, <2>1, <2>2, LenProperties
<1>4. Opens(p, k) \in Nat /\ p[k] \in Nat
  <2>1. k - 1 \in 0 .. Len(h) /\ k \in 0 .. Len(h)
    BY <1>3
  <2>2. p[k - 1] \in Nat /\ p[k] \in Nat
    BY <1>1, <2>1
  <2> QED
    BY <2>2 DEF Opens
<1>5. Comma # Quote
  BY CSVAssumption
<1>6. CASE state = "UnquotedField" /\ a = Opens(p, k) - 1 /\ d = <<>>
  <2>1. a + 1 = Opens(p, k) /\ c = Quote
    <3>1. l[Opens(p, k)] = Quote
      BY <1>1 DEF IsWritten
    <3>2. a + 1 = Opens(p, k)
      BY <1>4, <1>6
    <3> QED
      BY <3>1, <3>2
  <2>2. state' = "QuotedField" /\ fields' = fields
    BY <1>5, <1>6, <2>1
       DEF EndField, OpenQuote, CloseQuote, DoubledQuote, Plain, LeaveQuote
  <2>3. Len(d) = 0
    BY <1>6
  <2>4. InField(h, r, p, k, a + 1, state', fields')
    BY <1>2, <1>3, <1>4, <2>1, <2>2, <2>3 DEF InField
  <2> QED
    BY <2>4
<1>7. CASE /\ state = "QuotedField" /\ a = Opens(p, k) + n /\ n <= Len(e)
           /\ \A i \in 1 .. n : d[i] = e[i]
  <2>1. CASE n < Len(e)
    <3>1. n + 1 \in 1 .. Len(e) /\ a + 1 = Opens(p, k) + (n + 1)
      BY <1>3, <1>4, <1>7, <2>1
    <3>2. c = e[n + 1]
      BY <1>1, <3>1 DEF IsWritten
    <3>3. c # Quote
      BY <1>1, <1>3, <3>1, <3>2
    <3>4. state' = "QuotedField" /\ fields' = [fields EXCEPT ![k] = Append(d, c)]
      BY <1>2, <1>7, <3>3
         DEF EndField, OpenQuote, CloseQuote, DoubledQuote, Plain, LeaveQuote, Put
    <3> DEFINE b == Append(d, c)
    <3>5. c \in Char
      BY <1>1, <3>1, <3>2, LenProperties
    <3>6. /\ b \in Seq(Char) /\ Len(b) = n + 1
          /\ \A i \in 1 .. n : b[i] = d[i]
          /\ b[n + 1] = c
      BY <1>3, <3>5, AppendProperties
    <3> HIDE DEF b
    <3>7. \A i \in 1 .. n + 1 : b[i] = e[i]
      <4>1. \A m \in Nat : \A i \in 1 .. m + 1 : i \in 1 .. m \/ i = m + 1
        OBVIOUS
      <4> QED
        BY <1>3, <1>7, <3>2, <3>6, <4>1
    <3>8. /\ fields'[k] = b /\ DOMAIN fields' = 1 .. k
          /\ \A j \in 1 .. k - 1 : fields'[j] = r[h[j]]
      BY <1>2, <1>3, <3>4 DEF b
    <3>9. Len(fields') = k
      <4>1. b \in Seq(Char) /\ fields' = [fields EXCEPT ![k] = b]
        BY <3>4, <3>6 DEF b
      <4>2. fields' \in Seq(Seq(Char)) /\ Len(fields') = Len(fields)
        BY <1>2, <1>3, <4>1
      <4> QED
        BY <1>2, <4>2
    <3>10. a + 1 = Opens(p, k) + Len(b) /\ Len(b) <= Len(e)
      BY <1>3, <3>1, <3>6, <2>1
    <3>11. InField(h, r, p, k, a + 1, state', fields')
      BY <3>4, <3>6, <3>7, <3>8, <3>9, <3>10 DEF InField
    <3> QED
      BY <3>11
  <2>2. CASE n = Len(e)
    <3>1. a + 1 = p[k] /\ c = Quote
      <4>1. l[p[k]] = Quote
        BY <1>1 DEF IsWritten
      <4>2. a + 1 = p[k]
        BY <1>1, <1>3, <1>4, <1>7, <2>2
      <4> QED
        BY <4>1, <4>2
    <3>2. state' = "QuotedQuote" /\ fields' = fields
      BY <1>5, <1>7, <3>1
         DEF EndField, OpenQuote, CloseQuote, DoubledQuote, Plain, LeaveQuote
    <3>3. d = e
      BY <1>1, <1>3, <1>7, <2>2, SeqEqual
    <3>4. InField(h, r, p, k, a + 1, state', fields')
      BY <1>2, <3>1, <3>2, <3>3 DEF InField
    <3> QED
      BY <3>4
  <2> QED
    BY <1>3, <1>7, <2>1, <2>2
<1>8. CASE state = "QuotedQuote" /\ a = p[k] /\ d = e
  <2>1. k + 1 \in 1 .. Len(h) /\ (k + 1) - 1 = k
    BY <1>1, <1>3, <1>8
  <2>2. IsWritten(l, p, k + 1, r[h[k + 1]])
    BY <2>1 DEF Laid
  <2>3. c = Comma
    BY <1>3, <1>8, <2>1, <2>2 DEF IsWritten
  <2>4. state' = "UnquotedField" /\ fields' = Append(fields, <<>>)
    BY <1>5, <1>8, <2>3
       DEF EndField, OpenQuote, CloseQuote, DoubledQuote, Plain, LeaveQuote
  <2>5. /\ Len(fields') = k + 1
        /\ \A j \in 1 .. k : fields'[j] = fields[j]
        /\ fields'[k + 1] = <<>>
    <3>1. <<>> \in Seq(Char)
      BY EmptySeq
    <3> QED
      BY <1>2, <2>4, <3>1, AppendProperties
  <2>6. \A j \in 1 .. (k + 1) - 1 : fields'[j] = r[h[j]]
    BY <1>2, <1>3, <1>8, <2>5
  <2>7. a + 1 = Opens(p, k + 1) - 1
    <3>1. Opens(p, k + 1) = p[k] + 2
      BY <1>3, <2>1 DEF Opens
    <3> QED
      BY <1>4, <1>8, <3>1
  <2>8. InField(h, r, p, k + 1, a + 1, state', fields')
    BY <2>4, <2>5, <2>6, <2>7 DEF InField
  <2> QED
    BY <2>1, <2>8
<1> QED
  BY <1>6, <1>7, <1>8 DEF InField

\* At the end of the line every field of the row was read.
LEMMA LineIsRead ==
  ASSUME NEW h, Len(h) \in Nat, NEW l \in Seq(Char), NEW r, NEW p, Laid(h, l, r, Len(h), p),
         NEW k \in 1 .. Len(h), NEW st, NEW fs \in Seq(Seq(Char)),
         InField(h, r, p, k, Len(l), st, fs)
  PROVE  Len(fs) = Len(h) /\ \A j \in 1 .. Len(h) : fs[j] = r[h[j]]
<1> DEFINE e == r[h[k]]
           d == fs[k]
<1>1. /\ e \in Seq(Char)
      /\ k < Len(h) => p[k] < Len(l)
      /\ p[k] = Opens(p, k) + Len(e) + 1
      /\ p \in [0 .. Len(h) -> Nat] /\ p[Len(h)] = Len(l)
  BY DEF Laid
<1>2. /\ k \in Nat \ {0} /\ k - 1 \in 0 .. Len(h) /\ k \in 0 .. Len(h)
      /\ Len(e) \in Nat /\ Len(l) \in Nat
  BY <1>1, LenProperties
<1>3. p[k - 1] \in Nat /\ p[k] \in Nat /\ p[k] <= Len(l)
  <2>1. p[k - 1] \in Nat /\ p[k] \in Nat
    BY <1>1, <1>2
  <2>2. CASE k < Len(h)
    BY <1>1, <1>2, <2>1, <2>2
  <2>3. CASE k = Len(h)
    BY <1>1, <1>2, <2>1, <2>3
  <2> QED
    BY <2>1, <2>2, <2>3
<1>4. Opens(p, k) \in Nat
  BY <1>3 DEF Opens
<1>5. ~(Len(l) = Opens(p, k) - 1)
  BY <1>1, <1>2, <1>3, <1>4
<1>6. Len(fs) = k /\ d \in Seq(Char) /\ Len(d) \in Nat
  <2>1. Len(fs) = k
    BY DEF InField
  <2>2. d \in Seq(Char)
    BY <1>2, <2>1, LenProperties
  <2> QED
    BY <2>1, <2>2, LenProperties
<1>7. ~(Len(l) = Opens(p, k) + Len(d) /\ Len(d) <= Len(e))
  BY <1>1, <1>2, <1>3, <1>4, <1>6
<1>8. Len(l) = p[k] /\ d = e /\ \A j \in 1 .. k - 1 : fs[j] = r[h[j]]
  BY <1>5, <1>7 DEF InField
<1>9. k = Len(h)
  BY <1>1, <1>2, <1>3, <1>8
<1> QED
  BY <1>2, <1>6, <1>8, <1>9

\* A row with all columns of the header comes out of its fields again.
LEMMA RowComesBack ==
  ASSUME NEW h, Len(h) \in Nat, DOMAIN h = 1 .. Len(h),
         NEW r, r \in UNION {[C -> Seq(Char)] : C \in SUBSET Rows(h)},
         \A j \in 1 .. Len(h) : h[j] \in DOMAIN r,
         NEW fs, Len(fs) \in Nat, Len(fs) >= Len(h),
         \A j \in 1 .. Len(h) : fs[j] = r[h[j]]
  PROVE  RowOf(h, fs) = r
<1> DEFINE named == {i \in DOMAIN h : i <= Len(fs)}
           last(c) == CHOOSE i \in named : h[i] = c /\ \A j \in named : h[j] = c => j <= i
<1>1. named = 1 .. Len(h)
  OBVIOUS
<1>2. DOMAIN r = {h[i] : i \in named}
  <2>1. DOMAIN r \subseteq Rows(h)
    OBVIOUS
  <2>2. Rows(h) = {h[i] : i \in 1 .. Len(h)}
    BY DEF Rows
  <2>3. {h[i] : i \in 1 .. Len(h)} \subseteq DOMAIN r
    OBVIOUS
  <2> QED
    BY <1>1, <2>1, <2>2, <2>3
<1>3. ASSUME NEW c \in DOMAIN r PROVE fs[last(c)] = r[c]
  <2> DEFINE S == {i \in named : h[i] = c}
  <2>1. S \in SUBSET (1 .. Len(h)) /\ S # {}
    BY <1>1, <1>2
  <2>2. PICK i \in S : \A j \in S : j <= i
    BY <2>1, HasGreatest
  <2>3. last(c) \in named /\ h[last(c)] = c
    BY <2>2
  <2> QED
    BY <1>1, <2>3
<1>4. RowOf(h, fs) = [c \in DOMAIN r |-> fs[last(c)]]
  BY <1>2 DEF RowOf
<1>5. r = [c \in DOMAIN r |-> r[c]]
  OBVIOUS
<1> HIDE DEF last
<1> QED
  BY <1>3, <1>4, <1>5

\* Where the parser is in a line that holds the row r.
IsParsed(h, r, p, a, st, fs) ==
  IF h = <<>> THEN a = 0 /\ fs = <<<<>>>>
  ELSE \E k \in 1 .. Len(h) : InField(h, r, p, k, a, st, fs)

\* A line is begun before its first field.
LEMMA StartIsParsed ==
  ASSUME NEW h \in Seq(Seq(Char)), NEW l, NEW r, NEW p, Laid(h, l, r, Len(h), p)
  PROVE  IsParsed(h, r, p, 0, "UnquotedField", <<<<>>>>)
<1>1. CASE h # <<>>
  <2>1. 1 \in 1 .. Len(h)
    BY <1>1, EmptySeq, LenProperties
  <2>2. Opens(p, 1) - 1 = 0
    BY DEF Opens, Laid
  <2>3. Len(<<<<>>>>) = 1 /\ <<<<>>>>[1] = <<>> /\ 1 .. 1 - 1 = {}
    OBVIOUS
  <2>4. InField(h, r, p, 1, 0, "UnquotedField", <<<<>>>>)
    BY <2>2, <2>3 DEF InField
  <2> QED
    BY <1>1, <2>1, <2>4 DEF IsParsed
<1> QED
  BY <1>1 DEF IsParsed

\* The file holds a line for every row, and the merge has read the rows above its line.
RowsComeBack ==
  pc = "merge" =>
    /\ Len(text) = Len(loaded) + 1
    /\ line > 1
    /\ \A i \in 2 .. Len(text) : \E p : Laid(header, text[i], loaded[i - 1], Len(header), p)
    /\ NoQuotes(loaded) =>
         /\ Len(table) = line - 2
         /\ \A k \in 1 .. line - 2 : table[k] = loaded[k]
         /\ line <= Len(text) =>
              \E p : /\ Laid(header, text[line], loaded[line - 1], Len(header), p)
                     /\ IsParsed(header, loaded[line - 1], p, at, state, fields)

\* The rows that were sorted are still rows of the header.
LoadedType == pc \in {"write", "merge"} => loaded \in Seq(RowType)

LEMMA LoadedTypeKept ==
  ASSUME Types, Types', LoadedType, [Next]_vars
  PROVE  LoadedType'
<1>1. CASE SortTable
  BY <1>1 DEF SortTable, LoadedType, Types
<1>2. ASSUME UNCHANGED <<loaded, header>>, pc' \in {"write", "merge"} => pc \in {"write", "merge"}
      PROVE  LoadedType'
  BY <1>2 DEF LoadedType, RowType
<1>3. ASSUME ReadChar \/ TakeRow \/ RowTooLong \/ WriteName \/ WriteField \/ WriteThrows
             \/ WriteNextLine \/ CloseFile \/ UNCHANGED vars
      PROVE  LoadedType'
  BY <1>2, <1>3
     DEF ReadChar, TakeRow, RowTooLong, WriteName, WriteField, WriteThrows, WriteNextLine,
         CloseFile, Write, Writing, vars
<1>4. CASE TakeHeader
  BY <1>4 DEF TakeHeader, LoadedType
<1> QED
  BY <1>1, <1>3, <1>4 DEF Next

\* The merge begins with a parser at the start of every line.
LEMMA MergeStarts ==
  ASSUME Types, RowsAreLaid, CloseFile
  PROVE  RowsComeBack'
<1>1. /\ pc = "write" /\ at = Len(header) /\ line > Len(table)
      /\ table' = <<>> /\ line' = 2 /\ at' = 0 /\ state' = "UnquotedField"
      /\ fields' = <<<<>>>>
      /\ UNCHANGED <<text, header, loaded>>
  BY DEF CloseFile, StartLine
<1>2. /\ Len(text) \in Nat /\ Len(table) \in Nat /\ line = Len(text) /\ line <= Len(table) + 1
      /\ header \in Seq(Seq(Char)) /\ line \in Nat \ {0}
  BY <1>1, LenProperties DEF Types, TypesButRows
<1>3. table = loaded /\ Len(text) = Len(loaded) + 1
  BY <1>1, <1>2 DEF RowsAreLaid
<1>4. ASSUME NEW i \in 2 .. Len(text)
      PROVE  \E p : Laid(header, text[i], loaded[i - 1], Len(header), p)
  <2>1. CASE i = line
    <3>1. line > 1
      BY <1>2, <2>1
    <3> QED
      BY <1>1, <2>1, <3>1 DEF RowsAreLaid
  <2>2. CASE i \in 2 .. line - 1
    BY <1>1, <2>2 DEF RowsAreLaid
  <2> QED
    BY <1>2, <2>1, <2>2
<1>5. ASSUME 2 <= Len(text)
      PROVE  \E p : /\ Laid(header, text[2], loaded[1], Len(header), p)
                    /\ IsParsed(header, loaded[1], p, 0, "UnquotedField", <<<<>>>>)
  <2>1. 2 \in 2 .. Len(text) /\ 2 - 1 = 1
    BY <1>2, <1>5
  <2> QED
    BY <1>2, <1>4, <2>1, StartIsParsed
<1>6. Len(<<>>) = 0 /\ 2 - 2 = 0 /\ 1 .. 0 = {} /\ 2 - 1 = 1 /\ 2 > 1
  OBVIOUS
<1>7. Len(table') = line' - 2 /\ 1 .. line' - 2 = {}
  BY <1>1, <1>6
<1> QED
  BY <1>1, <1>3, <1>4, <1>5, <1>6, <1>7 DEF RowsComeBack

\* The rows of a file without quotes have none in any field.
LEMMA RowWithoutQuotes ==
  ASSUME NoQuotes(loaded), NEW k \in DOMAIN loaded
  PROVE  \A c \in DOMAIN loaded[k] : \A i \in DOMAIN loaded[k][c] : loaded[k][c][i] # Quote
BY DEF NoQuotes, Rows

\* A character takes the parser on in its field, or to the next.
LEMMA MergeReadsChar ==
  ASSUME Types, LoadedType, RowsComeBack, ReadChar, pc = "merge"
  PROVE  RowsComeBack'
<1> DEFINE l == text[line]
           r == loaded[line - 1]
<1>1. /\ line <= Len(text) /\ at < Len(l) /\ at' = at + 1
      /\ UNCHANGED <<text, line, header, table, loaded, pc>>
      /\ LET c == l[at + 1] IN
           \/ EndField(c) \/ OpenQuote(c) \/ CloseQuote(c)
           \/ DoubledQuote(c) \/ Plain(c) \/ LeaveQuote(c)
  BY DEF ReadChar, Reading
<1>2. /\ Len(text) \in Nat /\ line \in 1 .. Len(text) /\ l \in Seq(Char) /\ Len(l) \in Nat
      /\ at \in Nat
      /\ header \in Seq(Seq(Char)) /\ Len(header) \in Nat /\ fields \in Seq(Seq(Char))
  BY <1>1, LenProperties DEF Types, TypesButRows
<1>3. ASSUME NoQuotes(loaded), NEW p, Laid(header, l, r, Len(header), p),
             IsParsed(header, r, p, at, state, fields)
      PROVE  IsParsed(header, r, p, at', state', fields')
  <2>1. header # <<>>
    <3>1. ASSUME header = <<>> PROVE FALSE
      <4>1. Len(header) = 0 /\ at = 0
        BY <1>3, <3>1 DEF IsParsed
      <4>2. Len(l) = 0
        BY <1>3, <4>1 DEF Laid
      <4> QED
        BY <1>1, <4>1, <4>2
    <3> QED
      BY <3>1
  <2>2. PICK k \in 1 .. Len(header) : InField(header, r, p, k, at, state, fields)
    BY <1>3, <2>1 DEF IsParsed
  <2>3. loaded \in Seq(RowType) /\ Len(text) = Len(loaded) + 1 /\ line > 1
    BY DEF LoadedType, RowsComeBack
  <2>4. line - 1 \in DOMAIN loaded
    BY <1>2, <2>3, LenProperties
  <2>5. \A c \in DOMAIN r : \A i \in DOMAIN r[c] : r[c][i] # Quote
    BY <1>3, <2>4, RowWithoutQuotes
  <2> HIDE DEF l, r
  <2>6. \E k2 \in 1 .. Len(header) : InField(header, r, p, k2, at + 1, state', fields')
    BY <1>1, <1>2, <1>3, <2>2, <2>5, CharIsRead
  <2> QED
    BY <1>1, <2>1, <2>6 DEF IsParsed
<1>4. CASE NoQuotes(loaded)
  <2>1. PICK p : Laid(header, l, r, Len(header), p) /\ IsParsed(header, r, p, at, state, fields)
    BY <1>1, <1>4 DEF RowsComeBack
  <2>2. IsParsed(header, r, p, at', state', fields')
    BY <1>3, <1>4, <2>1
  <2> QED
    BY <1>1, <2>1, <2>2 DEF RowsComeBack
<1>5. CASE ~NoQuotes(loaded)
  <2>1. ~NoQuotes(loaded)' /\ loaded' = loaded
    BY <1>1, <1>5 DEF NoQuotes, Rows
  <2> QED
    BY <1>1, <2>1 DEF RowsComeBack
<1> QED
  BY <1>4, <1>5

\* The row read at the end of a line is the one that was written there.
LEMMA MergeReadsRow ==
  ASSUME Types, LoadedType, RowsComeBack, TakeRow, pc = "merge"
  PROVE  RowsComeBack'
<1> DEFINE l == text[line]
           r == loaded[line - 1]
<1>1. /\ line <= Len(text) /\ line > 1 /\ at = Len(l)
      /\ table' = Append(table, RowOf(header, fields))
      /\ line' = line + 1 /\ at' = 0 /\ state' = "UnquotedField" /\ fields' = <<<<>>>>
      /\ UNCHANGED <<text, header, loaded, pc>>
  BY DEF TakeRow, AtEndOfLine, Reading, StartLine
<1>2. /\ Len(text) \in Nat /\ line \in 1 .. Len(text) /\ l \in Seq(Char) /\ Len(l) \in Nat
      /\ at \in Nat /\ table \in Seq(RowType)
      /\ header \in Seq(Seq(Char)) /\ Len(header) \in Nat /\ fields \in Seq(Seq(Char))
      /\ DOMAIN header = 1 .. Len(header) /\ Len(fields) \in Nat /\ line \in Nat
  BY <1>1, LenProperties DEF Types, TypesButRows
<1>3. /\ loaded \in Seq(RowType) /\ Len(text) = Len(loaded) + 1
      /\ \A i \in 2 .. Len(text) : \E p : Laid(header, text[i], loaded[i - 1], Len(header), p)
  BY DEF LoadedType, RowsComeBack
<1>4. r \in RowType
  <2>1. line - 1 \in 1 .. Len(loaded) /\ Len(loaded) \in Nat
    BY <1>1, <1>2, <1>3, LenProperties
  <2> QED
    BY <1>3, <2>1, LenProperties
<1>5. ASSUME NEW p, Laid(header, l, r, Len(header), p), IsParsed(header, r, p, at, state, fields)
      PROVE  RowOf(header, fields) = r
  <2>1. \A j \in 1 .. Len(header) : header[j] \in DOMAIN r
    BY <1>5 DEF Laid
  <2>2. Len(fields) >= Len(header) /\ \A j \in 1 .. Len(header) : fields[j] = r[header[j]]
    <3>1. CASE header = <<>>
      BY <1>2, <3>1
    <3>2. CASE header # <<>>
      <4>1. PICK k \in 1 .. Len(header) : InField(header, r, p, k, Len(l), state, fields)
        BY <1>1, <1>5, <3>2 DEF IsParsed
      <4> HIDE DEF l, r
      <4>2. Len(fields) = Len(header) /\ \A j \in 1 .. Len(header) : fields[j] = r[header[j]]
        BY <1>2, <1>5, <4>1, LineIsRead
      <4> QED
        BY <1>2, <4>2
    <3> QED
      BY <3>1, <3>2
  <2> HIDE DEF r
  <2> QED
    BY <1>2, <1>4, <2>1, <2>2, RowComesBack DEF RowType
<1>6. CASE NoQuotes(loaded)
  <2>1. PICK p : Laid(header, l, r, Len(header), p) /\ IsParsed(header, r, p, at, state, fields)
    BY <1>1, <1>6 DEF RowsComeBack
  <2>2. RowOf(header, fields) = r
    BY <1>5, <2>1
  <2>3. /\ Len(table) = line - 2 /\ \A k \in 1 .. line - 2 : table[k] = loaded[k]
    BY <1>6 DEF RowsComeBack
  <2>4. r \in RowType /\ table' = Append(table, r)
    BY <1>1, <1>4, <2>2
  <2> HIDE DEF r
  <2>5. /\ Len(table') = Len(table) + 1 /\ table'[Len(table) + 1] = r
        /\ \A k \in 1 .. Len(table) : table'[k] = table[k]
    BY <1>2, <2>4, AppendProperties
  <2>6. Len(table') = line' - 2
    BY <1>1, <1>2, <2>3, <2>5
  <2>7. ASSUME NEW k \in 1 .. line' - 2 PROVE table'[k] = loaded[k]
    <3>1. k \in 1 .. line - 2 \/ k = line - 1
      BY <1>1, <1>2
    <3>2. CASE k \in 1 .. line - 2
      BY <2>3, <2>5, <3>2
    <3>3. CASE k = line - 1
      <4>1. k = Len(table) + 1
        BY <1>2, <2>3, <3>3
      <4> QED
        BY <2>5, <3>3, <4>1 DEF r
    <3> QED
      BY <3>1, <3>2, <3>3
  <2>8. ASSUME line' <= Len(text)
        PROVE  \E q : /\ Laid(header, text[line'], loaded[line' - 1], Len(header), q)
                      /\ IsParsed(header, loaded[line' - 1], q, at', state', fields')
    <3>1. line' \in 2 .. Len(text)
      BY <1>1, <1>2, <2>8
    <3>2. PICK q : Laid(header, text[line'], loaded[line' - 1], Len(header), q)
      BY <1>3, <3>1
    <3>3. IsParsed(header, loaded[line' - 1], q, 0, "UnquotedField", <<<<>>>>)
      BY <1>2, <3>2, StartIsParsed
    <3> QED
      BY <1>1, <3>2, <3>3
  <2>9. line' > 1
    BY <1>1, <1>2
  <2> QED
    BY <1>1, <1>3, <2>6, <2>7, <2>8, <2>9 DEF RowsComeBack
<1>7. CASE ~NoQuotes(loaded)
  <2>1. ~NoQuotes(loaded)' /\ line' > 1
    BY <1>1, <1>2, <1>7 DEF NoQuotes, Rows
  <2> QED
    BY <1>1, <1>3, <2>1 DEF RowsComeBack
<1> QED
  BY <1>6, <1>7

LEMMA RowsComeBackKept ==
  ASSUME Types, LoadedType, RowsAreLaid, RowsComeBack, [Next]_vars
  PROVE  RowsComeBack'
<1>1. CASE pc' # "merge"
  BY <1>1 DEF RowsComeBack
<1>2. CASE pc' = "merge" /\ CloseFile
  BY <1>2, MergeStarts
<1>3. CASE pc' = "merge" /\ ReadChar
  BY <1>3, MergeReadsChar DEF ReadChar
<1>4. CASE pc' = "merge" /\ TakeRow
  BY <1>4, MergeReadsRow DEF TakeRow
<1>5. CASE UNCHANGED vars
  BY <1>5 DEF vars, RowsComeBack, NoQuotes, Rows
<1>6. ASSUME pc' = "merge", TakeHeader \/ RowTooLong \/ SortTable \/ WriteName \/ WriteField
                            \/ WriteThrows \/ WriteNextLine
      PROVE  FALSE
  BY <1>6 DEF TakeHeader, RowTooLong, SortTable, WriteName, WriteField, WriteThrows,
              WriteNextLine, Write, Writing
<1> QED
  BY <1>1, <1>2, <1>3, <1>4, <1>5, <1>6 DEF Next

\* A row on its way through the file.
Trip == LoadedType /\ RowsAreLaid /\ RowsComeBack

LEMMA TripHolds == Spec => [](Types /\ Trip)
<1>1. Init => Trip
  BY DEF Init, Trip, LoadedType, RowsAreLaid, RowsComeBack
<1>2. Types /\ Types' /\ Trip /\ [Next]_vars => Trip'
  BY LoadedTypeKept, RowsAreLaidKept, RowsComeBackKept DEF Trip
<1> QED
  BY <1>1, <1>2, TypesHold, PTL DEF Spec

\* Every row without quotes in its fields comes back from the file it was written to, in its
\* place, whatever else is in its fields and whatever the header.
THEOREM CSVRowsSurvive == Spec => []RowsSurviveRewriting
<1>1. Types /\ Trip => RowsSurviveRewriting
  <2> SUFFICES ASSUME Types, Trip, pc = "merge", NoQuotes(loaded) PROVE MergeReads(loaded)
    BY DEF RowsSurviveRewriting
  <2>1. /\ Len(text) = Len(loaded) + 1 /\ Len(table) = line - 2
        /\ \A k \in 1 .. line - 2 : table[k] = loaded[k]
    BY DEF Trip, RowsComeBack
  <2>2. /\ Len(loaded) \in Nat /\ DOMAIN loaded = 1 .. Len(loaded)
        /\ DOMAIN table = 1 .. Len(table)
        /\ Len(text) \in Nat /\ line \in 1 .. Len(text) + 1
    BY LenProperties DEF Trip, LoadedType, Types, TypesButRows
  <2>3. ASSUME NEW k \in DOMAIN table PROVE k \in DOMAIN loaded /\ table[k] = loaded[k]
    BY <2>1, <2>2
  <2>4. line > Len(text) => Len(table) = Len(loaded)
    BY <2>1, <2>2
  <2> QED
    BY <2>3, <2>4 DEF MergeReads
<1> QED
  BY <1>1, TripHolds, PTL

\* An order of the rows has all of them.
LEMMA OrdersHaveAll ==
  ASSUME Types, NEW t \in Orders
  PROVE  Rows(table) \subseteq Rows(t)
<1> SUFFICES ASSUME NEW r \in Rows(table) PROVE r \in Rows(t)
  OBVIOUS
<1> DEFINE K == {k \in DOMAIN table : table[k] = r}
           L == {k \in DOMAIN t : t[k] = r}
<1>1. DOMAIN table = 1 .. Len(table) /\ Len(table) \in Nat /\ DOMAIN t = DOMAIN table
  BY LenProperties DEF Types, Orders
<1>2. IsFiniteSet(K) /\ K # {}
  <2>1. IsFiniteSet(1 .. Len(table)) /\ K \subseteq 1 .. Len(table)
    BY <1>1, FS_Interval
  <2>2. K # {}
    BY DEF Rows
  <2> QED
    BY <2>1, <2>2, FS_Subset
<1>3. Cardinality(K) # 0
  BY <1>2, FS_EmptySet
<1>4. Cardinality(L) = Cardinality(K)
  BY DEF Orders, Times
<1>5. L # {}
  BY <1>3, <1>4, FS_EmptySet
<1> QED
  BY <1>5 DEF Rows

\* The rows stay in the order they were sorted in.
LoadedSorted ==
  pc \in {"write", "merge"} /\ StrictWeakOrderOn(Rows(loaded), Smaller) =>
    \A i, j \in DOMAIN loaded : i < j => ~Smaller(loaded[j], loaded[i])

LEMMA LoadedSortedKept ==
  ASSUME Types, LoadedSorted, [Next]_vars
  PROVE  LoadedSorted'
<1>1. CASE SortTable
  <2>1. loaded' \in Sorted
    BY <1>1 DEF SortTable
  <2>2. loaded' \in Orders /\ (StrictWeakOrderOn(Rows(table), Smaller) =>
          \A i, j \in DOMAIN loaded' : i < j => ~Smaller(loaded'[j], loaded'[i]))
    BY <2>1 DEF Sorted
  <2>3. Rows(table) \subseteq Rows(loaded')
    BY <2>2, OrdersHaveAll
  <2>4. StrictWeakOrderOn(Rows(loaded'), Smaller) => StrictWeakOrderOn(Rows(table), Smaller)
    BY <2>3 DEF StrictWeakOrderOn
  <2> QED
    BY <2>2, <2>4 DEF LoadedSorted, Rows, StrictWeakOrderOn
<1>2. ASSUME loaded' = loaded, pc' \in {"write", "merge"} => pc \in {"write", "merge"}
      PROVE  LoadedSorted'
  BY <1>2 DEF LoadedSorted, Rows, StrictWeakOrderOn
<1>3. ASSUME ReadChar \/ TakeRow \/ RowTooLong \/ WriteName \/ WriteField \/ WriteThrows
             \/ WriteNextLine \/ CloseFile \/ UNCHANGED vars
      PROVE  LoadedSorted'
  BY <1>2, <1>3
     DEF ReadChar, TakeRow, RowTooLong, WriteName, WriteField, WriteThrows, WriteNextLine,
         CloseFile, Write, Writing, vars
<1>4. CASE TakeHeader
  BY <1>4 DEF TakeHeader, LoadedSorted
<1> QED
  BY <1>1, <1>3, <1>4 DEF Next

\* What the merge reads of a chunk without quotes, with numbers or text in each column, is
\* in the order that the merge compares by.
THEOREM CSVMergesSorted == ASSUME FieldsAreRead PROVE Spec => []MergeReadsSortedChunk
<1>1. Init => LoadedSorted
  BY DEF Init, LoadedSorted
<1>2. Types /\ LoadedSorted /\ [Next]_vars => LoadedSorted'
  BY LoadedSortedKept
<1>3. Types /\ Trip /\ LoadedSorted => MergeReadsSortedChunk
  <2> SUFFICES ASSUME Types, Trip, LoadedSorted, pc = "merge", NoQuotes(loaded),
                      Complete(loaded), Homogeneous(AsRows(loaded)),
                      NEW i \in DOMAIN table, NEW j \in DOMAIN table, i < j
               PROVE  ~MergeSmaller(AsRow(table[j]), AsRow(table[i]))
    BY DEF MergeReadsSortedChunk
  <2>1. loaded \in Seq(RowType) /\ Len(text) = Len(loaded) + 1 /\ Len(table) = line - 2
        /\ \A k \in 1 .. line - 2 : table[k] = loaded[k]
    BY DEF Trip, LoadedType, RowsComeBack
  <2>2. /\ Len(loaded) \in Nat /\ DOMAIN loaded = 1 .. Len(loaded)
        /\ DOMAIN table = 1 .. Len(table)
        /\ Len(text) \in Nat /\ line \in 1 .. Len(text) + 1
    BY <2>1, LenProperties DEF Types, TypesButRows
  <2>3. /\ i \in DOMAIN loaded /\ table[i] = loaded[i]
        /\ j \in DOMAIN loaded /\ table[j] = loaded[j]
    BY <2>1, <2>2
  <2>4. AsRows(loaded) \subseteq CompleteRow
    BY <2>1, TableRows
  <2>5. StrictWeakOrderOn(AsRows(loaded), CSVSmaller)
    BY <2>4, HomogeneousRowsAreOrdered
  <2>6. StrictWeakOrderOn(Rows(loaded), Smaller)
    BY <2>5 DEF StrictWeakOrderOn, AsRows, Smaller
  <2>7. ~CSVSmaller(AsRow(loaded[j]), AsRow(loaded[i]))
    BY <2>3, <2>6 DEF LoadedSorted, Smaller
  <2>8. AsRow(loaded[i]) \in CompleteRow /\ AsRow(loaded[j]) \in CompleteRow
    BY <2>3, <2>4 DEF AsRows, Rows
  <2> QED
    BY <2>3, <2>7, <2>8, MergeComparesLikeChunks
<1> QED
  BY <1>1, <1>2, <1>3, TypesHold, TripHolds, PTL DEF Spec
============================================================================
