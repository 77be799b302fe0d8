------------------------------- MODULE MCCSV -------------------------------
(* CSV on small files.  Characters are numbered in their byte order. *)
EXTENDS CSV, SequencesExt

CONSTANTS MaxLength, Ids, Timestamps

\*  "  ,  0 .. 9  a  b
MCComma == 2
MCQuote == 1
Digits == 3 .. 12
a == 13
b == 14
MCChar == {MCQuote, MCComma} \cup Digits \cup {a, b}
D(n) == n + 3

MCSpelling == ("id" :> <<a>>) @@ ("timestamp" :> <<b>>)

\* Util::is_number, stod, and the place of a text of up to seven characters among all.
Number(f) == FoldLeft(LAMBDA v, c : 10 * v + c - 3, 0, f)
Place7(f) == FoldLeft(LAMBDA v, c : 16 * v + c, 0, [i \in 1 .. 7 |-> IF i <= Len(f) THEN f[i] ELSE 0])
MCFieldOf(f) ==
  LET isNumber == f # <<>> /\ \A i \in DOMAIN f : f[i] \in Digits IN
  [digits |-> isNumber, value |-> IF isNumber THEN Number(f) ELSE 0, text |-> Place7(f)]

\* 7, 07, 10, 1a, 9, b
MCIds == {<<D(7)>>, <<D(0), D(7)>>, <<D(1), D(0)>>, <<D(1), a>>, <<D(9)>>, <<b>>}
MCTimestamps == {<<D(7)>>, <<D(1), D(0)>>}
MCField == {MCFieldOf(f) : f \in MCIds \cup MCTimestamps}

\* a,b   "a",b   a,b,   a   b,a
Headers == {<<a, Comma, b>>, <<Quote, a, Quote, Comma, b>>, <<a, Comma, b, Comma>>, <<a>>,
            <<b, Comma, a>>}

\* All lines of some characters, below each header; and three rows with ids and timestamps.
OneRow == {<<h, l>> : h \in Headers, l \in BoundedSeq({Quote, Comma, a, D(7)}, MaxLength)}
IdRow == {i \o <<Comma>> \o t : i \in Ids, t \in Timestamps}
ThreeRows == {<<<<a, Comma, b>>, x, y, z>> : x \in IdRow, y \in IdRow, z \in IdRow}

\* "a,7",7   "7",7   ,"   """,",7
QuotedRow == {<<Quote, a, Comma, D(7), Quote, Comma, D(7)>>,
              <<Quote, D(7), Quote, Comma, D(7)>>,
              <<Comma, Quote>>,
              <<Quote, Quote, Quote, Comma, Quote, Comma, D(7)>>}
TwoRows == {<<h, x, y>> : h \in Headers, x \in QuotedRow \cup {<<>>}, y \in QuotedRow}

MCFiles == OneRow \cup TwoRows \cup ThreeRows \cup {<<>>}
============================================================================
