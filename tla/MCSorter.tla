------------------------------ MODULE MCSorter ------------------------------
(* Sorter on batches of one or two small files. *)
EXTENDS Sorter

CONSTANTS Files, MaxBatch

\* Lines of one byte each, except for blank ones.  x and y have the same fields; short
\* lacks a field and long has one too many; the header of benchmark/generate ends with a
\* comma, which makes a third, empty column.
MCContent ==
  [g \in Files |->
     CASE g = "plain"     -> <<"header", "z", "x", "w", "y">>
       [] g = "twins"     -> <<"header", "y", "x", "x">>
       [] g = "pair"      -> <<"header", "z", "x">>
       [] g = "single"    -> <<"header", "x">>
       [] g = "headless"  -> <<"header">>
       [] g = "empty"     -> <<>>
       [] g = "blank"     -> <<"", "header", "z", "x", "w">>
       [] g = "swapped"   -> <<"swappedHeader", "z", "x", "w">>
       [] g = "wide"      -> <<"wideHeader", "long", "longer">>
       [] g = "shifted"   -> <<"shiftedHeader", "long", "longer">>
       [] g = "overlong"  -> <<"header", "x", "long">>
       [] g = "gap"       -> <<"header", "short", "z", "w">>
       [] g = "bad"       -> <<"header", "short">>
       [] g = "generated" -> <<"generatedHeader", "z", "x">>]

MCLine == {""} \cup UNION {Range(MCContent[g]) : g \in Files}
MCSize == [l \in MCLine |-> IF l = "" THEN 0 ELSE 1]

\* What the fields of a line say; those of a header are never asked for.
MCRow(l) ==
  CASE l = "w" -> <<1, 2>> [] l \in {"x", "y"} -> <<2, 1>> [] l = "z" -> <<3, 1>>
    [] l = "long" -> <<2, 2, 1>> [] l = "longer" -> <<1, 2, 0>>
    [] l \in {"wideHeader", "generatedHeader", "shiftedHeader"} -> <<0, 0, 0>>
    [] l \in {"short", ""} -> <<0>>
    [] OTHER -> <<0, 0>>
MCFields == [l \in MCLine |-> Len(MCRow(l))]

\* The places of id and timestamp among the columns of h, 0 for a column it does not name.
Places(h) ==
  CASE h \in {"header", "wideHeader", "generatedHeader"} -> <<1, 2>>
    [] h = "swappedHeader" -> <<2, 1>>
    [] h = "shiftedHeader" -> <<2, 3>>
    [] OTHER -> <<0, 0>>
MCNamed == {l \in MCLine : Places(l) # <<0, 0>>}

Has(h, l, c) == Places(h)[c] \in DOMAIN MCRow(l)
Value(h, l, c) == IF Has(h, l, c) THEN MCRow(l)[Places(h)[c]] ELSE 0
MCThrows(h, a, b) ==
  \/ ~Has(h, a, 1) \/ ~Has(h, b, 1)
  \/ Value(h, a, 1) = Value(h, b, 1) /\ (~Has(h, a, 2) \/ ~Has(h, b, 2))
MCSmaller(h, a, b) ==
  \/ Value(h, a, 1) < Value(h, b, 1)
  \/ Value(h, a, 1) = Value(h, b, 1) /\ Value(h, a, 2) < Value(h, b, 2)

MCEarlier == {NoColumns} \cup {FirstLine(g) : g \in Files}
OnlyNone == {NoColumns}

MCBatches == BoundedSeq(Files, MaxBatch) \ {<<>>}

\* With faults: a file of two chunks alone, files of one chunk also with another or twice.
MCFaultBatches == {b \in MCBatches : "pair" \in Range(b) => Len(b) = 1}
============================================================================
