------------------------------- MODULE MCYak -------------------------------
(* The program with batches of three and up to four files of the user. *)
EXTENDS Yak

CONSTANT Letters  \* the user's files, named by the number of their first letter

\* A path is the sequence of its parts, numbered in the order of their first bytes:
\* "-" < ".csv" < "_r" < letters.
Dash == 1
Csv == 2
R == 3
MCInput == {<<l, Csv>> : l \in Letters}

RECURSIVE MCBefore(_, _)
MCBefore(p, q) ==
  /\ q # <<>>
  /\ \/ p = <<>>
     \/ p # <<>> /\ Head(p) < Head(q)
     \/ p # <<>> /\ Head(p) = Head(q) /\ MCBefore(Tail(p), Tail(q))

\* remove_extension cuts from the last dot on.
MCMergedPath(p, q) == Front(p) \o <<Dash>> \o q
MCResultPath(p) == p \o <<R, Csv>>
MCPath == Seq({Dash, Csv, R} \cup Letters)
============================================================================
