--------------------------- MODULE MCScrollMarks ---------------------------
(* A short list, of which one row at a time is in view, and few writes: two  *)
(* are a mark and its undoing, or two that overtake one another.             *)
EXTENDS ScrollMarks

\* The last row, which nothing makes room for, starts unread.
MCInit == Init /\ server[Entries] = "unread"
MCSpec == MCInit /\ [][Next]_vars /\ Fairness
=============================================================================
