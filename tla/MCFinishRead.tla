---------------------------- MODULE MCFinishRead ----------------------------
(* Two articles to go back and forth between, and few writes: two are a mark *)
(* and its undoing, or a failed mark and another one.                        *)
EXTENDS FinishRead
=============================================================================
