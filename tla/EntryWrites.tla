---------------------------- MODULE EntryWrites ----------------------------
(***************************************************************************)
(* Writes of the read state of an entry: mutate and mutateAsync of         *)
(* useEntryStateMutation (apps/web/src/api/queries.ts).  Nothing is        *)
(* changed in the browser before the answer and no write waits for another *)
(* one: they reach the server, and come back, in any order.                *)
(*                                                                         *)
(* ScrollMarks and FinishRead say what the two detectors make of it.       *)
(***************************************************************************)
EXTENDS Naturals

CONSTANTS
  Entries,  \* number of entries; in a list, from the top
  MaxCalls  \* bound: writes

ASSUME HasEntries == Entries \in Nat \ {0}
ASSUME MaxCallsIsNatural == MaxCalls \in Nat

Entry == 1 .. Entries
Flag == {"read", "unread"}
Cached == Flag \cup {"absent"}
CallId == 1 .. MaxCalls

\* Where a write comes from: someone's hand, a row scrolled past, an article
\* read to its end, or the button the reader shows about the article.
Origin == {"user", "scroll", "dwell", "button"}
Call == [ref : Entry, flag : Flag, from : Origin,
         at : {"unused", "sent", "served", "over"}]
Blank(at) == [ref |-> 1, flag |-> "read", from |-> "user", at |-> at]

VARIABLES
  server,  \* the state of each entry
  calls    \* PATCH .../state

WritesTypeOK == server \in [Entry -> Flag] /\ calls \in [CallId -> Call]

InFlight(i) == calls[i].at \in {"sent", "served"}
Busy(e) == \E i \in CallId : InFlight(i) /\ calls[i].ref = e
NoCallLeft == \A i \in CallId : calls[i].at # "unused"

\* mutationFn: the next write leaves.
Send(e, f, from) ==
  \E i \in CallId :
    /\ calls[i].at = "unused" /\ \A j \in 1 .. i - 1 : calls[j].at # "unused"
    /\ calls' = [calls EXCEPT ![i] = [ref |-> e, flag |-> f, from |-> from,
                                      at |-> "sent"]]

\* The server carries a write out.
Carry(i) ==
  /\ calls[i].at = "sent"
  /\ server' = [server EXCEPT ![calls[i].ref] = calls[i].flag]
  /\ calls' = [calls EXCEPT ![i].at = "served"]

\* The answer comes back.
Settle(i) ==
  /\ calls[i].at = "served"
  /\ calls' = [calls EXCEPT ![i] = Blank("over")] /\ UNCHANGED server

\* The write, or only its answer, is lost.
Lose(i) ==
  /\ InFlight(i)
  /\ calls' = [calls EXCEPT ![i] = Blank("over")] /\ UNCHANGED server

InitWrites == server \in [Entry -> Flag] /\ calls = [i \in CallId |-> Blank("unused")]

=============================================================================
