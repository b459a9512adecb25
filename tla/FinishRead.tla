----------------------------- MODULE FinishRead -----------------------------
(***************************************************************************)
(* The reader: the cache of the open article (useEntryDetail of            *)
(* apps/web/src/api/queries.ts) and the detector that marks an article     *)
(* read when its end stayed in view after enough reading (useFinishRead of *)
(* lib/finish-read.ts, as components/Reader.tsx uses it).                  *)
(*                                                                         *)
(* The selection of another article, a change of the cache, the render     *)
(* with its effects, an observer, a scroll event and the end of the timer  *)
(* are separate tasks of the page.                                         *)
(***************************************************************************)
EXTENDS EntryWrites

CONSTANT None

ASSUME NoneIsNoEntry == None \notin Entry

VARIABLES
  detail,    \* ['entry', ref]: the read state
  fetch,     \* its fetch: none, sent, or what the server answered
  open,      \* selectedEntryRef
  article,   \* entryRefRef: the article that was last rendered
  wasRead,   \* prevReadRef, which is the read flag that was last rendered
  reached,   \* endVisibleRef, and someone has scrolled far enough
  visible,   \* the page is in the foreground
  done,      \* dispatchedRef
  failed,    \* autoError
  dwelling,  \* dwellTimerRef: the article the timer was started for
  suspended, \* sessionSuspended
  undone     \* history: articles that became unread again while they were open

writes == <<server, calls>>
cache == <<detail, fetch>>
verdict == <<done, failed, dwelling>>
reader == <<article, wasRead, reached, visible, verdict, suspended>>
vars == <<writes, cache, open, reader, undone>>

Opened == Entry \cup {None}

TypeOK ==
  /\ WritesTypeOK
  /\ detail \in [Entry -> Cached]
  /\ fetch \in [Entry -> Flag \cup {"none", "sent"}]
  /\ open \in Opened /\ article \in Opened /\ dwelling \in Opened
  /\ wasRead \in Flag
  /\ reached \in BOOLEAN /\ visible \in BOOLEAN
  /\ done \in BOOLEAN /\ failed \in BOOLEAN
  /\ suspended \subseteq Entry /\ undone \subseteq Entry

-----------------------------------------------------------------------------
(* The writes and the cache. *)

Serve(i) == Carry(i) /\ UNCHANGED <<cache, open, reader, undone>>

\* onSuccess: the article is patched, of the write and not of the selection.
Answer(i) ==
  /\ Settle(i)
  /\ detail' = [detail EXCEPT ![calls[i].ref] =
                  IF @ = "absent" THEN @ ELSE calls[i].flag]
  /\ UNCHANGED <<fetch, open, reader, undone>>

\* A write of the detector that fails is reported to whichever article is open.
Refuse(i) ==
  /\ Lose(i)
  /\ IF calls[i].from \in {"dwell", "button"} THEN done' = FALSE /\ failed' = TRUE
                                              ELSE UNCHANGED <<done, failed>>
  /\ UNCHANGED <<cache, open, article, wasRead, reached, visible, dwelling, suspended,
                 undone>>

FetchServed(e) ==
  /\ fetch[e] = "sent" /\ fetch' = [fetch EXCEPT ![e] = server[e]]
  /\ UNCHANGED <<writes, detail, open, reader, undone>>

\* Fault: an answer is taken before there is one.
FetchAnsweredUnchecked(e) ==
  /\ fetch[e] # "none" /\ fetch' = [fetch EXCEPT ![e] = "none"]
  /\ detail' = [detail EXCEPT ![e] = fetch[e]]
  /\ UNCHANGED <<writes, open, reader, undone>>

FetchAnswered(e) ==
  /\ fetch[e] \in Flag /\ fetch' = [fetch EXCEPT ![e] = "none"]
  /\ detail' = [detail EXCEPT ![e] = fetch[e]]
  /\ UNCHANGED <<writes, open, reader, undone>>

\* selectEntry and useEntryDetail: what is not cached is fetched, what is
\* cached may be stale; the fetch of the article that is left is abandoned.
Open(e) ==
  /\ open # e /\ open' = e
  /\ \E stale \in BOOLEAN :
       fetch' = [f \in Entry |-> IF f = e /\ (stale \/ detail[f] = "absent")
                                 THEN "sent" ELSE "none"]
  /\ UNCHANGED <<writes, detail, reader, undone>>

\* A write from elsewhere: the reader's header, the list, a menu.
Mark(e, f) ==
  Send(e, f, "user") /\ UNCHANGED <<server, cache, open, reader, undone>>

-----------------------------------------------------------------------------
(* The detector. *)

\* data?.read ?? false
ReadOf(o) == IF o \in Entry /\ detail[o] = "read" THEN "read" ELSE "unread"

\* The text of the article is on the page.
Loaded == article # None /\ article = open /\ detail[article] # "absent"

\* Fault: the timer survives the switch to another article.
ReaderRendersTimed ==
  LET back == wasRead = "read" /\ ReadOf(open) = "unread" /\ open # None
      same == open = article
  IN
  /\ ~same \/ ReadOf(open) # wasRead
  /\ article' = open /\ wasRead' = ReadOf(open)
  /\ suspended' = IF back THEN suspended \cup {open} ELSE suspended
  /\ done' = (done /\ same /\ ~back)
  /\ dwelling' = IF back THEN None ELSE dwelling
  /\ reached' = (reached /\ same) /\ failed' = (failed /\ same)
  /\ undone' = IF back /\ same THEN undone \cup {open} ELSE undone
  /\ UNCHANGED <<writes, cache, open, visible>>

\* The effects of a render, in the order in which the hook declares them: an
\* article that became unread is suspended, then another article resets all.
ReaderRenders ==
  LET back == wasRead = "read" /\ ReadOf(open) = "unread" /\ open # None
      same == open = article
  IN
  /\ ~same \/ ReadOf(open) # wasRead
  /\ article' = open /\ wasRead' = ReadOf(open)
  /\ suspended' = IF back THEN suspended \cup {open} ELSE suspended
  /\ done' = (done /\ same /\ ~back)
  /\ dwelling' = IF same /\ ~back THEN dwelling ELSE None
  /\ reached' = (reached /\ same) /\ failed' = (failed /\ same)
  /\ undone' = IF back /\ same THEN undone \cup {open} ELSE undone
  /\ UNCHANGED <<writes, cache, open, visible>>

\* shouldDwell; enabled is set.
ShouldDwell(e, unread, end, shown) == unread /\ e \notin suspended /\ end /\ shown

\* evaluate: the timer is started, left running, or cleared.
Evaluate(end, shown) ==
  LET on == /\ article # None /\ ~done
            /\ ShouldDwell(article, wasRead = "unread", end, shown)
  IN dwelling' = IF ~on THEN None ELSE IF dwelling = None THEN article ELSE dwelling

\* The observer of the end of the text and onScroll.
Progress ==
  /\ Loaded /\ reached' = ~reached /\ Evaluate(~reached, visible)
  /\ UNCHANGED <<writes, cache, open, article, wasRead, visible, done, failed,
                 suspended, undone>>

\* Fault: nothing is evaluated when the page comes back.
HideShowSilently ==
  /\ visible' = ~visible /\ dwelling' = IF visible THEN None ELSE dwelling
  /\ UNCHANGED <<writes, cache, open, article, wasRead, reached, done, failed,
                 suspended, undone>>

\* onVisibility
HideShow ==
  /\ visible' = ~visible
  /\ IF visible THEN dwelling' = None ELSE Evaluate(reached, TRUE)
  /\ UNCHANGED <<writes, cache, open, article, wasRead, reached, done, failed,
                 suspended, undone>>

Dispatch(from) ==
  /\ done' = TRUE /\ failed' = FALSE /\ dwelling' = None
  /\ Send(article, "read", from)

\* The timer checks again, with the article and the read flag of the render
\* that started it; the mark goes to the article that is open.
DwellEnds ==
  /\ dwelling # None
  /\ IF ShouldDwell(dwelling, TRUE, reached, visible) /\ ~done
     THEN Dispatch("dwell")
     ELSE dwelling' = None /\ UNCHANGED <<calls, done, failed>>
  /\ UNCHANGED <<server, cache, open, article, wasRead, reached, visible, suspended,
                 undone>>

\* confirmFinished, the button of an article too short to scroll, and retry.
Confirm ==
  /\ \/ Loaded /\ wasRead = "unread"
     \/ failed /\ article # None
  /\ ~done /\ Dispatch("button")
  /\ UNCHANGED <<server, cache, open, article, wasRead, reached, visible, suspended,
                 undone>>

-----------------------------------------------------------------------------
Init ==
  /\ InitWrites
  /\ detail = [e \in Entry |-> "absent"] /\ fetch = [e \in Entry |-> "none"]
  /\ open = None /\ article = None /\ wasRead = "unread"
  /\ reached = FALSE /\ visible = TRUE
  /\ done = FALSE /\ failed = FALSE /\ dwelling = None
  /\ suspended = {} /\ undone = {}

Network ==
  \/ \E i \in CallId : Serve(i) \/ Answer(i) \/ Refuse(i)
  \/ \E e \in Entry : FetchServed(e) \/ FetchAnswered(e)

Person ==
  \/ \E e \in Opened : Open(e)
  \/ \E e \in Entry, f \in Flag : Mark(e, f)
  \/ Progress \/ HideShow \/ Confirm

Next == Network \/ ReaderRenders \/ DwellEnds \/ Person

\* A render follows a change and the timer runs down.
Fairness == WF_vars(ReaderRenders) /\ WF_vars(DwellEnds)

Spec == Init /\ [][Next]_vars
FairSpec == Spec /\ Fairness

-----------------------------------------------------------------------------
(* Properties. *)

\* The detector marks the article whose end it has watched and no other one,
\* and none that became unread again under the reader's eyes.
FinishMarksAreEarned ==
  [][\A i \in CallId :
       calls[i].at = "unused" /\ calls'[i].at = "sent" /\ calls'[i].from = "dwell"
       => calls'[i].ref = dwelling /\ calls'[i].ref \notin undone]_vars

\* An article whose end stays in view after enough reading is marked.
FinishMarksAreMade ==
  LET finished == /\ article # None /\ ~done /\ ~failed
                  /\ ShouldDwell(article, wasRead = "unread", reached, visible)
  IN finished ~> ~finished \/ NoCallLeft

\* What the comment on sessionSuspended says of it: the articles that someone
\* marked as unread, or whose automatic mark was taken back, in this visit.
OnlyUndoneIsSuspended == suspended \subseteq undone

=============================================================================
