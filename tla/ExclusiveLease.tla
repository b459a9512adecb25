--------------------------- MODULE ExclusiveLease ---------------------------
(***************************************************************************)
(* What a window lease promises its clients, without table, rows, tokens   *)
(* or time to live: a window is claimed only while nobody claims it; a     *)
(* claim may end at any time (given back, lapsed, or its owner is gone).   *)
(***************************************************************************)

CONSTANTS Owner,   \* who may claim a window
          Scope    \* the windows

VARIABLE claims    \* <<o, s>> : o is at work on window s, and protected

Init == claims = {}

Claim(o, s) ==
    /\ \A q \in Owner : <<q, s>> \notin claims
    /\ claims' = claims \cup {<<o, s>>}

\* Any number of claims end at once when the clock moves.
End == claims' \in SUBSET claims

Next == End \/ \E o \in Owner, s \in Scope : Claim(o, s)

Spec == Init /\ [][Next]_claims
=============================================================================
