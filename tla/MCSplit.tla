------------------------------ MODULE MCSplit ------------------------------
(* Every file of up to five lines of blank, short and long lines. *)
EXTENDS Split, SequencesExt

CONSTANT MaxLines

MCSize == [l \in {"blank", "short", "medium", "long"} |->
             CASE l = "blank" -> 0 [] l = "short" -> 1 [] l = "medium" -> 2 [] l = "long" -> 4]
MCSources == BoundedSeq(DOMAIN MCSize, MaxLines)
============================================================================
