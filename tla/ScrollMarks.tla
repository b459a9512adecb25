---------------------------- MODULE ScrollMarks ----------------------------
(***************************************************************************)
(* The list of entries: its cache, patched by every write and fetched      *)
(* again (apps/web/src/api/queries.ts), and the observer that marks a row  *)
(* as read when it was scrolled past (components/EntryList.tsx).           *)
(*                                                                         *)
(* A change of the cache, the render with its effects, a report of the     *)
(* observer and the end of a timer are separate tasks of the page.         *)
(***************************************************************************)
EXTENDS EntryWrites

VARIABLES
  view,        \* the list shows all entries or the unread ones
  listed,      \* ['entries', ...]
  fetch,       \* its fetch: none, sent, served
  carried,     \* what the server answered it
  top,         \* the row in the list's viewport
  gone,        \* rows above the browser's viewport; those between are only
               \* behind the header and the toolbar, at whose edge the list ends
  known,       \* readState: the list as it was last rendered
  told,        \* what the present observer has reported of each row
  seen, dispatched,
  guarded,     \* manuallyUnread
  inView,      \* intersecting
  settling,    \* settleTimers
  \* History.
  loose,       \* entries of which the cache may have missed a write
  crossed      \* entries of which the present fetch may miss a write

writes == <<server, calls>>
cache == <<view, listed, fetch, carried>>
place == <<top, gone>>
marks == <<known, told, seen, dispatched, guarded, inView, settling>>
rows == <<place, marks>>
missed == <<loose, crossed>>
vars == <<writes, cache, rows, missed>>

TypeOK ==
  /\ WritesTypeOK
  /\ view \in {"all", "unread"} /\ listed \in [Entry -> Cached]
  /\ fetch \in {"none", "sent", "served"} /\ carried \in [Entry -> Flag]
  /\ top \in Entry /\ gone \in 0 .. top - 1 /\ known \in [Entry -> Cached]
  /\ told \in [Entry -> {"nothing", "in", "out", "gone"}]
  /\ seen \subseteq Entry /\ dispatched \subseteq Entry /\ guarded \subseteq Entry
  /\ inView \subseteq Entry /\ settling \subseteq Entry
  /\ loose \subseteq Entry /\ crossed \subseteq Entry

-----------------------------------------------------------------------------
(* The cache. *)

\* What the view shows of an entry with this state.
Row(f) == IF view = "unread" /\ f = "read" THEN "absent" ELSE f

NothingCarried == [e \in Entry |-> "read"]

\* History: a write that overlaps another write of the entry with the other
\* state may be answered after it, and one that overlaps a fetch before it.
Contradicted(e, f) ==
  \E i \in CallId : InFlight(i) /\ calls[i].ref = e /\ calls[i].flag # f

SendFrom(e, f, from) ==
  /\ Send(e, f, from)
  /\ loose' = IF Contradicted(e, f) THEN loose \cup {e} ELSE loose
  /\ crossed' = IF fetch # "none" THEN crossed \cup {e} ELSE crossed

\* A fetch of the list starts, and the one that is under way is abandoned.
FetchList(busy) ==
  fetch' = "sent" /\ carried' = NothingCarried /\ crossed' = busy

Serve(i) == Carry(i) /\ UNCHANGED <<cache, rows, missed>>

\* Fault: a row is patched and never inserted.
AnswerPatchesOnly(i) ==
  /\ Settle(i)
  /\ listed' = [listed EXCEPT ![calls[i].ref] =
                  IF @ = "absent" THEN @ ELSE Row(calls[i].flag)]
  /\ UNCHANGED <<view, fetch, carried, rows, missed>>

\* onSuccess: the row is patched; one that may have to be inserted has the list
\* fetched again.
Answer(i) ==
  LET e == calls[i].ref  f == calls[i].flag IN
  /\ Settle(i)
  /\ listed' = [listed EXCEPT ![e] = IF @ = "absent" THEN @ ELSE Row(f)]
  /\ IF f = "unread"
     THEN FetchList({calls[j].ref : j \in {k \in CallId \ {i} : InFlight(k)}})
     ELSE UNCHANGED <<fetch, carried, crossed>>
  /\ UNCHANGED <<view, rows, loose>>

Refuse(i) ==
  /\ Lose(i) /\ loose' = loose \cup {calls[i].ref}
  /\ UNCHANGED <<cache, rows, crossed>>

\* Fault: the answer is cut down to the view twice, before and after it is carried.
ListServedFiltered ==
  /\ fetch = "sent" /\ fetch' = "served" /\ carried' = [e \in Entry |-> Row(server[e])]
  /\ UNCHANGED <<writes, view, listed, rows, missed>>

ListServed ==
  /\ fetch = "sent" /\ fetch' = "served" /\ carried' = server
  /\ UNCHANGED <<writes, view, listed, rows, missed>>

ListAnswered ==
  /\ fetch = "served" /\ fetch' = "none"
  /\ listed' = [e \in Entry |-> Row(carried[e])] /\ carried' = NothingCarried
  /\ loose' = crossed /\ crossed' = {}
  /\ UNCHANGED <<writes, view, rows>>

\* The fetch fails and the old list stays.  A row it does not show may be one
\* that waited to be inserted.
ListFails ==
  /\ fetch # "none" /\ fetch' = "none" /\ carried' = NothingCarried
  /\ loose' = loose \cup {e \in Entry : listed[e] = "absent"} /\ crossed' = {}
  /\ UNCHANGED <<writes, view, listed, rows>>

\* The list is pulled down, the page is online again, or a subscription changes.
Refresh ==
  /\ FetchList({e \in Entry : Busy(e)})
  /\ UNCHANGED <<writes, view, listed, rows, loose>>

\* A write from somewhere else on this page: the swipe on a row, the reader's
\* header, a menu.
Mark(e, f) ==
  /\ SendFrom(e, f, "user") /\ UNCHANGED <<server, cache, rows>>

\* Another device writes: one of the bounded writes, of which no answer comes
\* here.
MarkElsewhere(e, f) ==
  /\ server[e] # f /\ server' = [server EXCEPT ![e] = f]
  /\ \E i \in CallId :
       /\ calls[i].at = "unused" /\ \A j \in 1 .. i - 1 : calls[j].at # "unused"
       /\ calls' = [calls EXCEPT ![i] = Blank("over")]
  /\ loose' = loose \cup {e}
  /\ crossed' = IF fetch = "served" THEN crossed \cup {e} ELSE crossed
  /\ UNCHANGED <<cache, rows>>

-----------------------------------------------------------------------------
(* The observer. *)

\* The list's viewport holds one row.
Where(e) == IF e = top THEN "in" ELSE IF e <= gone THEN "gone" ELSE "out"

\* However far: a row may stop on its way behind the header.
Scroll(e, g) ==
  /\ <<e, g>> # place /\ g < e /\ top' = e /\ gone' = g
  /\ UNCHANGED <<writes, cache, marks, missed>>

\* Fault: the rows are not observed anew, though the timers are cleared.
ListRendersUnobserved ==
  /\ known # listed /\ known' = listed
  /\ guarded' = guarded \cup {e \in Entry : known[e] = "read" /\ listed[e] = "unread"}
  /\ settling' = {}
  /\ UNCHANGED <<writes, cache, place, told, seen, dispatched, inView, missed>>

\* The effects of a render: rows that the list showed as read and shows as
\* unread now are guarded; the observer is replaced and the timers are cleared.
ListRenders ==
  /\ known # listed /\ known' = listed
  /\ guarded' = guarded \cup {e \in Entry : known[e] = "read" /\ listed[e] = "unread"}
  /\ told' = [e \in Entry |-> "nothing"] /\ settling' = {}
  /\ UNCHANGED <<writes, cache, place, seen, dispatched, inView, missed>>

MayMark(e) == e \notin dispatched \cup guarded /\ known[e] = "unread"

\* Rows that have come into the list's viewport or left it since they were
\* reported, and all rows when the observer is new.  One that goes on from behind
\* the header is not among them.
Reported ==
  {e \in Entry : /\ known[e] # "absent"
                 /\ told[e] = "nothing" \/ (told[e] = "in") # (e = top)}
Entering == Reported \cap {top}
Leaving == Reported \ {top}

\* Above the browser's viewport by the time of the report: the timer may start.
Passed == {e \in Leaving : e <= gone /\ e \in seen /\ MayMark(e)}

\* The observer's callback gets all reports at once.
Notify ==
  /\ Reported # {}
  /\ told' = [e \in Entry |-> IF e \in Reported THEN Where(e) ELSE told[e]]
  /\ inView' = (inView \ Leaving) \cup Entering /\ seen' = seen \cup Entering
  /\ guarded' = guarded \ Entering
  /\ settling' = (settling \ Entering) \cup Passed
  /\ UNCHANGED <<writes, cache, place, known, dispatched, missed>>

\* SETTLE_MS after the row has left, everything is checked again.
SettleEnds(e) ==
  /\ e \in settling /\ settling' = settling \ {e}
  /\ IF e \notin inView /\ MayMark(e)
     THEN dispatched' = dispatched \cup {e} /\ SendFrom(e, "read", "scroll")
     ELSE UNCHANGED <<calls, dispatched, missed>>
  /\ UNCHANGED <<server, cache, place, known, told, seen, guarded, inView>>

-----------------------------------------------------------------------------
Init ==
  /\ InitWrites
  /\ view \in {"all", "unread"} /\ listed = [e \in Entry |-> Row(server[e])]
  /\ fetch = "none" /\ carried = NothingCarried
  /\ top = 1 /\ gone = 0 /\ known = listed /\ told = [e \in Entry |-> "nothing"]
  /\ seen = {} /\ dispatched = {} /\ guarded = {} /\ inView = {} /\ settling = {}
  /\ loose = {} /\ crossed = {}

Network ==
  \/ \E i \in CallId : Serve(i) \/ Answer(i) \/ Refuse(i)
  \/ ListServed \/ ListAnswered \/ ListFails

Page == ListRenders \/ Notify \/ \E e \in Entry : SettleEnds(e)

Person ==
  \/ Refresh
  \/ \E e \in Entry, g \in 0 .. Entries - 1 : Scroll(e, g)
  \/ \E e \in Entry, f \in Flag : Mark(e, f) \/ MarkElsewhere(e, f)

Next == Network \/ Page \/ Person

\* A render follows a change of the cache, the observer reports and the timers
\* run down.  Of the network nothing is assumed.
Fairness ==
  /\ WF_vars(ListRenders) /\ WF_vars(Notify)
  /\ \A e \in Entry : WF_vars(SettleEnds(e))

Spec == Init /\ [][Next]_vars
FairSpec == Spec /\ Fairness

-----------------------------------------------------------------------------
(* Properties. *)

\* While no fetch of the list and no write of an entry is on its way, the list
\* shows the entry as the server holds it.  An entry is excepted, until a fetch
\* succeeds, when another device wrote it, when its write was lost or overlapped a
\* contrary one or the last fetch, or when it waited for a fetch that failed.
ListAgrees ==
  fetch = "none" => \A e \in Entry \ loose : Busy(e) \/ listed[e] = Row(server[e])

\* A row that was seen, is unread and stays above the browser's viewport is marked
\* in the end, however often the list is drawn again in between: unless the
\* observer last reported it while it was still behind the header.
ScrollMarksAreMade ==
  \A e \in Entry :
    LET passed == e \in seen /\ e <= gone /\ told[e] # "out" /\ MayMark(e)
    IN passed ~> ~passed \/ NoCallLeft

=============================================================================
