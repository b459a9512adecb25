------------------------- MODULE ScrollMarksProofs -------------------------
(***************************************************************************)
(* Proofs about ScrollMarks, for a list of any length and any number of    *)
(* writes: its types, and that the list agrees with the server when        *)
(* nothing is on its way.                                                  *)
(***************************************************************************)
EXTENDS ScrollMarks, TLAPS

-----------------------------------------------------------------------------
(* Writes: their types, and which of them a step touches. *)

\* One unused write becomes the one that is sent, and no other changes.
LEMMA SendTouchesOne ==
    ASSUME WritesTypeOK, NEW e \in Entry, NEW f \in Flag, NEW from \in Origin,
           Send(e, f, from)
    PROVE  \E i \in CallId :
             /\ calls[i].at = "unused"
             /\ calls'[i] = [ref |-> e, flag |-> f, from |-> from, at |-> "sent"]
             /\ \A j \in CallId \ {i} : calls'[j] = calls[j]
             /\ calls' \in [CallId -> Call]
<1>1. PICK i \in CallId :
        /\ calls[i].at = "unused"
        /\ calls' = [calls EXCEPT ![i] = [ref |-> e, flag |-> f, from |-> from,
                                          at |-> "sent"]]
  BY DEF Send
<1>2. [ref |-> e, flag |-> f, from |-> from, at |-> "sent"] \in Call
  BY DEF Call
<1> QED
  BY <1>1, <1>2 DEF WritesTypeOK

LEMMA BlankIsCall == Blank("over") \in Call /\ Blank("unused") \in Call
<1>1. 1 \in Entry
  BY HasEntries DEF Entry
<1> QED
  BY <1>1 DEF Blank, Call, Flag, Origin

LEMMA CarryTouchesOne ==
    ASSUME WritesTypeOK, NEW i \in CallId, Carry(i)
    PROVE  /\ server' = [server EXCEPT ![calls[i].ref] = calls[i].flag]
           /\ calls'[i].at = "served"
           /\ calls'[i].ref = calls[i].ref /\ calls'[i].flag = calls[i].flag
           /\ \A j \in CallId \ {i} : calls'[j] = calls[j]
           /\ WritesTypeOK'
<1>1. calls[i] \in Call /\ calls' = [calls EXCEPT ![i].at = "served"]
  BY DEF Carry, WritesTypeOK
<1>2. [calls[i] EXCEPT !.at = "served"] \in Call
  BY <1>1 DEF Call
<1>3. server' \in [Entry -> Flag]
  BY <1>1 DEF Carry, WritesTypeOK, Call
<1> QED
  BY <1>1, <1>2, <1>3 DEF Carry, WritesTypeOK, Call

LEMMA OverTouchesOne ==
    ASSUME WritesTypeOK, NEW i \in CallId, Settle(i) \/ Lose(i)
    PROVE  /\ server' = server
           /\ calls'[i] = Blank("over") /\ calls'[i].at = "over"
           /\ \A j \in CallId \ {i} : calls'[j] = calls[j]
           /\ WritesTypeOK'
<1>1. calls' = [calls EXCEPT ![i] = Blank("over")] /\ server' = server
  BY DEF Settle, Lose
<1>2. Blank("over").at = "over"
  BY DEF Blank
<1> QED
  BY <1>1, <1>2, BlankIsCall DEF WritesTypeOK

LEMMA InitWritesTyped == InitWrites => WritesTypeOK
  BY BlankIsCall DEF InitWrites, WritesTypeOK

LEMMA CallFields ==
    ASSUME WritesTypeOK, NEW i \in CallId
    PROVE  /\ calls[i].ref \in Entry /\ calls[i].flag \in Flag
           /\ calls[i].from \in Origin
           /\ calls[i].at \in {"unused", "sent", "served", "over"}
  BY DEF WritesTypeOK, Call

-----------------------------------------------------------------------------
(* The inductive invariant. *)

\* Only the view of the unread entries leaves one out.
Shown == view = "all" => \A e \in Entry : listed[e] # "absent"

Flies(i, e) == InFlight(i) /\ calls[i].ref = e
Served(i, e) == calls[i].at = "served" /\ calls[i].ref = e

\* An entry of which the cache missed nothing: the writes on their way agree, and
\* the row is right, about to be patched, or waiting to be inserted.
Synced(e) ==
  /\ \A i, j \in CallId : Flies(i, e) /\ Flies(j, e) => calls[i].flag = calls[j].flag
  /\ \A i \in CallId : Served(i, e) => server[e] = calls[i].flag
  /\ \/ listed[e] = Row(server[e])
     \/ \E i \in CallId : Served(i, e)
     \/ fetch # "none" /\ listed[e] = "absent"

\* An entry of which the present fetch misses nothing.
Fetched(e) ==
  /\ fetch # "none" => \A i \in CallId : ~Flies(i, e)
  /\ fetch = "served" => carried[e] = server[e]

Inv ==
  /\ TypeOK /\ Shown
  /\ \A e \in Entry \ loose : Synced(e)
  /\ \A e \in Entry \ crossed : Fetched(e)

-----------------------------------------------------------------------------
(* Types. *)

LEMMA RowIsCached == \A f \in Flag : Row(f) \in Cached
  BY DEF Row, Cached

LEMMA SendFromTyped ==
    ASSUME TypeOK, NEW e \in Entry, NEW f \in Flag, NEW from \in Origin,
           SendFrom(e, f, from), UNCHANGED server
    PROVE  WritesTypeOK' /\ loose' \subseteq Entry /\ crossed' \subseteq Entry
<1>1. calls' \in [CallId -> Call]
  BY SendTouchesOne DEF TypeOK, SendFrom
<1> QED
  BY <1>1 DEF TypeOK, WritesTypeOK, SendFrom

\* The busy entries of a fetch that starts are entries.
LEMMA FetchListTyped ==
    ASSUME TypeOK, NEW busy \in SUBSET Entry, FetchList(busy)
    PROVE  /\ fetch' \in {"none", "sent", "served"} /\ carried' \in [Entry -> Flag]
           /\ crossed' \subseteq Entry
  BY DEF FetchList, NothingCarried, Flag

LEMMA InitTyped == Init => TypeOK
<1> SUFFICES ASSUME Init PROVE TypeOK
  OBVIOUS
<1>1. WritesTypeOK
  BY InitWritesTyped DEF Init
<1>2. listed \in [Entry -> Cached]
  BY <1>1, RowIsCached DEF Init, WritesTypeOK
<1>3. carried \in [Entry -> Flag] /\ top \in Entry /\ gone \in 0 .. top - 1
  BY HasEntries DEF Init, NothingCarried, Flag, Entry
<1> QED
  BY <1>1, <1>2, <1>3 DEF Init, TypeOK

LEMMA AnswerTyped == ASSUME TypeOK, NEW i \in CallId, Answer(i) PROVE TypeOK'
<1> DEFINE e == calls[i].ref  f == calls[i].flag
<1>1. WritesTypeOK'
  BY OverTouchesOne DEF Answer, TypeOK
<1>2. e \in Entry /\ f \in Flag
  BY CallFields DEF TypeOK
<1>3. listed' \in [Entry -> Cached]
  <2>1. Row(f) \in Cached
    BY <1>2, RowIsCached
  <2> QED
    BY <1>2, <2>1 DEF Answer, TypeOK
<1>4. /\ fetch' \in {"none", "sent", "served"} /\ carried' \in [Entry -> Flag]
      /\ crossed' \subseteq Entry
  <2>1. {calls[j].ref : j \in {k \in CallId \ {i} : InFlight(k)}} \in SUBSET Entry
    BY CallFields DEF TypeOK
  <2>2. CASE f = "unread"
    BY <2>1, <2>2, FetchListTyped DEF Answer
  <2>3. CASE f # "unread"
    BY <2>3 DEF Answer, TypeOK
  <2> QED
    BY <2>2, <2>3
<1> QED
  BY <1>1, <1>3, <1>4 DEF Answer, TypeOK, rows, place, marks

\* A write of another device comes and goes at once.
LEMMA ElsewhereTouchesOne ==
    ASSUME WritesTypeOK, NEW d \in Entry, NEW f \in Flag, MarkElsewhere(d, f)
    PROVE  /\ server' = [server EXCEPT ![d] = f] /\ WritesTypeOK'
           /\ \E i \in CallId :
                /\ calls[i].at = "unused" /\ calls'[i].at = "over"
                /\ \A j \in CallId \ {i} : calls'[j] = calls[j]
<1>1. PICK i \in CallId :
        calls[i].at = "unused" /\ calls' = [calls EXCEPT ![i] = Blank("over")]
  BY DEF MarkElsewhere
<1>2. server' = [server EXCEPT ![d] = f] /\ Blank("over").at = "over"
  BY DEF MarkElsewhere, Blank
<1> QED
  BY <1>1, <1>2, BlankIsCall DEF WritesTypeOK

LEMMA StepTyped == ASSUME TypeOK, [Next]_vars PROVE TypeOK'
<1> USE DEF rows, place, marks, missed
<1>1. ASSUME NEW i \in CallId, Serve(i) PROVE TypeOK'
  <2>1. WritesTypeOK'
    BY <1>1, CarryTouchesOne DEF Serve, TypeOK
  <2> QED
    BY <1>1, <2>1 DEF Serve, TypeOK, cache
<1>2. ASSUME NEW i \in CallId, Answer(i) PROVE TypeOK'
  BY <1>2, AnswerTyped
<1>3. ASSUME NEW i \in CallId, Refuse(i) PROVE TypeOK'
  <2>1. WritesTypeOK' /\ calls[i].ref \in Entry
    BY <1>3, OverTouchesOne, CallFields DEF Refuse, TypeOK
  <2> QED
    BY <1>3, <2>1 DEF Refuse, TypeOK, cache
<1>4. CASE ListServed
  BY <1>4 DEF ListServed, TypeOK, WritesTypeOK, writes
<1>5. CASE ListAnswered
  <2>1. listed' \in [Entry -> Cached] /\ carried' \in [Entry -> Flag]
    BY <1>5, RowIsCached DEF ListAnswered, TypeOK, NothingCarried, Flag
  <2> QED
    BY <1>5, <2>1 DEF ListAnswered, TypeOK, WritesTypeOK, writes
<1>6. CASE ListFails
  <2>1. carried' \in [Entry -> Flag]
    BY <1>6 DEF ListFails, NothingCarried, Flag
  <2> QED
    BY <1>6, <2>1 DEF ListFails, TypeOK, WritesTypeOK, writes
<1>7. CASE Refresh
  <2>1. {e \in Entry : Busy(e)} \in SUBSET Entry
    OBVIOUS
  <2>2. /\ fetch' \in {"none", "sent", "served"} /\ carried' \in [Entry -> Flag]
        /\ crossed' \subseteq Entry
    BY <1>7, <2>1, FetchListTyped DEF Refresh
  <2> QED
    BY <1>7, <2>2 DEF Refresh, TypeOK, WritesTypeOK, writes
<1>8. ASSUME NEW e \in Entry, NEW f \in Flag, Mark(e, f) PROVE TypeOK'
  <2>1. WritesTypeOK' /\ loose' \subseteq Entry /\ crossed' \subseteq Entry
    BY <1>8, SendFromTyped DEF Mark, Origin
  <2> QED
    BY <1>8, <2>1 DEF Mark, TypeOK, cache
<1>9. ASSUME NEW e \in Entry, NEW f \in Flag, MarkElsewhere(e, f) PROVE TypeOK'
  <2>1. WritesTypeOK'
    BY <1>9, ElsewhereTouchesOne DEF TypeOK
  <2> QED
    BY <1>9, <2>1 DEF MarkElsewhere, TypeOK, cache
<1>10. ASSUME NEW e \in Entry, NEW g \in 0 .. Entries - 1, Scroll(e, g) PROVE TypeOK'
  <2>1. top' \in Entry /\ gone' \in 0 .. top' - 1
    BY <1>10, HasEntries DEF Scroll, Entry
  <2> QED
    BY <1>10, <2>1 DEF Scroll, TypeOK, WritesTypeOK, writes, cache
<1>11. CASE ListRenders
  BY <1>11 DEF ListRenders, TypeOK, WritesTypeOK, writes, cache
<1>12. CASE Notify
  <2>1. told' \in [Entry -> {"nothing", "in", "out", "gone"}]
    BY <1>12 DEF Notify, TypeOK, Where
  <2>2. Entering \subseteq Entry /\ Passed \subseteq Entry
    BY DEF Entering, Passed, Leaving, Reported
  <2> QED
    BY <1>12, <2>1, <2>2 DEF Notify, TypeOK, WritesTypeOK, writes, cache
<1>13. ASSUME NEW e \in Entry, SettleEnds(e) PROVE TypeOK'
  <2>1. /\ WritesTypeOK' /\ dispatched' \subseteq Entry
        /\ loose' \subseteq Entry /\ crossed' \subseteq Entry
    <3>1. CASE e \notin inView /\ MayMark(e)
      BY <1>13, <3>1, SendFromTyped DEF SettleEnds, TypeOK, Origin, Flag
    <3>2. CASE ~(e \notin inView /\ MayMark(e))
      BY <1>13, <3>2 DEF SettleEnds, TypeOK, WritesTypeOK
    <3> QED
      BY <3>1, <3>2
  <2> QED
    BY <1>13, <2>1 DEF SettleEnds, TypeOK, cache
<1>14. CASE UNCHANGED vars
  BY <1>14 DEF vars, writes, cache, TypeOK, WritesTypeOK
<1> QED
  BY <1>1, <1>2, <1>3, <1>4, <1>5, <1>6, <1>7, <1>8, <1>9, <1>10, <1>11, <1>12,
     <1>13, <1>14
     DEF Next, Network, Page, Person

-----------------------------------------------------------------------------
(* The cache and the server. *)

\* The step leaves the writes of an entry as they are.
Untouched(e) ==
  \A j \in CallId :
    \/ calls'[j] = calls[j]
    \/ /\ ~(calls[j].at \in {"sent", "served"} /\ calls[j].ref = e)
       /\ ~(calls'[j].at \in {"sent", "served"} /\ calls'[j].ref = e)

\* A write of another entry changes nothing of this one's.
LEMMA WritesOfOthers ==
    ASSUME NEW e \in Entry, NEW i \in CallId, ~Flies(i, e), ~(Flies(i, e))',
           \A j \in CallId \ {i} : calls'[j] = calls[j]
    PROVE  Untouched(e)
  BY DEF Untouched, Flies, InFlight

\* A step that leaves an entry, its writes and its row alone, and the fetch that
\* the row may wait for.
LEMMA SyncedFrame ==
    ASSUME NEW e \in Entry, Synced(e), Untouched(e),
           server'[e] = server[e], listed'[e] = listed[e], view' = view,
           fetch # "none" => fetch' # "none"
    PROVE  Synced(e)'
<1>1. Row(server[e])' = Row(server[e])
  BY DEF Row
<1>2. \A i \in CallId : (Flies(i, e))' => Flies(i, e) /\ calls'[i] = calls[i]
  BY DEF Untouched, Flies, InFlight
<1>3. \A i \in CallId : (Served(i, e))' <=> Served(i, e)
  BY DEF Untouched, Served
<1>4. \A i \in CallId : Served(i, e) => calls'[i] = calls[i]
  BY DEF Untouched, Served
<1> QED
  BY <1>1, <1>2, <1>3, <1>4 DEF Synced

LEMMA FetchedFrame ==
    ASSUME NEW e \in Entry, Fetched(e), Untouched(e),
           server'[e] = server[e], carried'[e] = carried[e], fetch' = fetch
    PROVE  Fetched(e)'
<1>1. \A i \in CallId : (Flies(i, e))' => Flies(i, e)
  BY DEF Untouched, Flies, InFlight
<1> QED
  BY <1>1 DEF Fetched

\* What a write that is sent touches, and what it makes of the histories.
LEMMA SentFrom ==
    ASSUME TypeOK, NEW d \in Entry, NEW f \in Flag, NEW from \in Origin,
           SendFrom(d, f, from), NEW e \in Entry
    PROVE  /\ e # d => Untouched(e)
           /\ e = d /\ e \notin loose'
                => \A j \in CallId : Flies(j, e) => calls[j].flag = f
           /\ e \notin loose' => e \notin loose
           /\ e \notin crossed' => e \notin crossed /\ (e # d \/ fetch = "none")
           /\ \E i \in CallId :
                /\ calls[i].at = "unused" /\ calls'[i].at = "sent"
                /\ calls'[i].flag = f
                /\ \A j \in CallId \ {i} : calls'[j] = calls[j]
<1>1. PICK i \in CallId :
        /\ calls[i].at = "unused"
        /\ calls'[i] = [ref |-> d, flag |-> f, from |-> from, at |-> "sent"]
        /\ \A j \in CallId \ {i} : calls'[j] = calls[j]
  BY SendTouchesOne DEF SendFrom, TypeOK
<1>2. ASSUME e # d PROVE Untouched(e)
  <2>1. ~Flies(i, e) /\ ~(Flies(i, e))'
    BY <1>1, <1>2 DEF Flies, InFlight
  <2> QED
    BY <1>1, <2>1, WritesOfOthers
<1>3. ASSUME e = d, e \notin loose' PROVE \A j \in CallId : Flies(j, e) => calls[j].flag = f
  BY <1>3 DEF SendFrom, Contradicted, Flies
<1>4. /\ e \notin loose' => e \notin loose
      /\ e \notin crossed' => e \notin crossed /\ (e # d \/ fetch = "none")
  BY DEF SendFrom
<1>5. calls'[i].at = "sent" /\ calls'[i].flag = f
  BY <1>1
<1> QED
  BY <1>1, <1>2, <1>3, <1>4, <1>5

LEMMA SyncedUnderSend ==
    ASSUME TypeOK, NEW d \in Entry, NEW f \in Flag, NEW from \in Origin,
           SendFrom(d, f, from), UNCHANGED <<server, cache>>,
           NEW e \in Entry, e \notin loose', \A x \in Entry \ loose : Synced(x)
    PROVE  Synced(e)'
<1>1. Synced(e) /\ UNCHANGED <<view, listed, fetch, carried>>
  BY SentFrom DEF cache
<1>2. CASE e # d
  BY <1>1, <1>2, SentFrom, SyncedFrame
<1>3. CASE e = d
  <2>1. PICK i \in CallId :
          /\ calls[i].at = "unused" /\ calls'[i].at = "sent" /\ calls'[i].flag = f
          /\ \A j \in CallId \ {i} : calls'[j] = calls[j]
    BY SentFrom
  <2>2. \A j \in CallId : Flies(j, e) => calls[j].flag = f
    BY <1>3, SentFrom
  <2>3. \A j \in CallId : (Flies(j, e))' => calls'[j].flag = f
    BY <2>1, <2>2 DEF Flies, InFlight
  <2>4. \A j \in CallId : (Served(j, e))' <=> Served(j, e)
    BY <2>1 DEF Served
  <2>5. \A j \in CallId : Served(j, e) => calls'[j] = calls[j]
    BY <2>1 DEF Served
  <2>6. Row(server[e])' = Row(server[e])
    BY <1>1 DEF Row
  <2> QED
    BY <1>1, <2>3, <2>4, <2>5, <2>6 DEF Synced
<1> QED
  BY <1>2, <1>3

LEMMA SyncedUnderServe ==
    ASSUME TypeOK, NEW i \in CallId, Serve(i), NEW e \in Entry, Synced(e)
    PROVE  Synced(e)'
<1>1. /\ server' = [server EXCEPT ![calls[i].ref] = calls[i].flag]
      /\ calls[i].at = "sent" /\ calls'[i].at = "served"
      /\ calls'[i].ref = calls[i].ref /\ calls'[i].flag = calls[i].flag
      /\ \A j \in CallId \ {i} : calls'[j] = calls[j]
      /\ calls[i].ref \in Entry /\ server \in [Entry -> Flag]
  BY CarryTouchesOne, CallFields DEF Serve, Carry, TypeOK, WritesTypeOK
<1>2. CASE calls[i].ref # e
  <2>1. ~Flies(i, e) /\ ~(Flies(i, e))' /\ server'[e] = server[e]
    BY <1>1, <1>2 DEF Flies
  <2>2. Untouched(e)
    BY <1>1, <2>1, WritesOfOthers
  <2> QED
    BY <2>1, <2>2, SyncedFrame DEF Serve, cache
<1>3. CASE calls[i].ref = e
  <2>1. \A j \in CallId : (Flies(j, e))' => Flies(j, e)
    BY <1>1, <1>3 DEF Flies, InFlight
  <2>2. \A j \in CallId : calls'[j].flag = calls[j].flag
    BY <1>1
  <2>3. Flies(i, e) /\ server'[e] = calls[i].flag /\ (Served(i, e))'
    BY <1>1, <1>3 DEF Flies, InFlight, Served
  <2>4. \A j \in CallId : (Served(j, e))' => (Flies(j, e))'
    BY DEF Flies, InFlight, Served
  <2>5. \A j \in CallId : (Served(j, e))' => server'[e] = calls'[j].flag
    BY <2>1, <2>2, <2>3, <2>4 DEF Synced
  <2>6. \A j, k \in CallId :
          (Flies(j, e))' /\ (Flies(k, e))' => calls'[j].flag = calls'[k].flag
    BY <2>1, <2>2 DEF Synced
  <2> QED
    BY <2>3, <2>5, <2>6 DEF Synced
<1> QED
  BY <1>2, <1>3

\* A write that is over: the others stay, and the entry is right when its row is.
LEMMA SyncedWhenOver ==
    ASSUME TypeOK, NEW i \in CallId, Settle(i) \/ Lose(i), NEW e \in Entry, Synced(e),
           \/ listed'[e] = Row(server[e])'
           \/ fetch' # "none" /\ listed'[e] = "absent"
    PROVE  Synced(e)'
<1>1. /\ server' = server /\ calls'[i].at = "over"
      /\ \A j \in CallId \ {i} : calls'[j] = calls[j]
  BY OverTouchesOne DEF TypeOK
<1>2. \A j \in CallId : (Flies(j, e))' => Flies(j, e) /\ calls'[j] = calls[j]
  BY <1>1 DEF Flies, InFlight
<1>3. \A j \in CallId : (Served(j, e))' => Served(j, e) /\ calls'[j] = calls[j]
  BY <1>1 DEF Served
<1> QED
  BY <1>1, <1>2, <1>3 DEF Synced

LEMMA SyncedUnderAnswer ==
    ASSUME TypeOK, Shown, NEW i \in CallId, Answer(i), NEW e \in Entry, Synced(e)
    PROVE  Synced(e)'
<1> DEFINE d == calls[i].ref  f == calls[i].flag
<1>1. /\ server' = server /\ calls[i].at = "served" /\ calls'[i].at = "over"
      /\ \A j \in CallId \ {i} : calls'[j] = calls[j]
      /\ d \in Entry /\ f \in Flag /\ listed \in [Entry -> Cached]
      /\ view' = view
  BY OverTouchesOne, CallFields DEF Answer, Settle, TypeOK
<1>2. f = "unread" => fetch' = "sent"
  BY DEF Answer, FetchList
<1>3. f # "unread" => fetch' = fetch
  BY DEF Answer
<1>4. CASE e # d
  <2>1. listed'[e] = listed[e] /\ ~Flies(i, e) /\ ~(Flies(i, e))'
    BY <1>1, <1>4 DEF Answer, Flies, InFlight
  <2>2. Untouched(e)
    BY <1>1, <2>1, WritesOfOthers
  <2> QED
    BY <1>1, <1>2, <1>3, <2>1, <2>2, SyncedFrame
<1>5. CASE e = d
  <2>1. Served(i, e) /\ server[e] = f
    BY <1>1, <1>5 DEF Served, Synced
  <2>2. listed'[e] = IF listed[e] = "absent" THEN "absent" ELSE Row(f)
    BY <1>1, <1>5 DEF Answer
  <2>3. Row(server[e])' = Row(f)
    BY <1>1, <2>1 DEF Row
  <2>4. CASE f = "unread"
    BY <1>2, <2>2, <2>3, <2>4, SyncedWhenOver DEF Answer
  <2>5. CASE f # "unread"
    <3>1. f = "read" /\ (listed[e] = "absent" => view = "unread")
      BY <1>1, <2>5 DEF Flag, Shown, TypeOK
    <3>2. listed'[e] = Row(server[e])'
      BY <2>2, <2>3, <3>1 DEF Row
    <3> QED
      BY <3>2, SyncedWhenOver DEF Answer
  <2> QED
    BY <2>4, <2>5
<1> QED
  BY <1>4, <1>5

\* No write of the entry on its way, and its row right.
LEMMA SyncedAtRest ==
    ASSUME NEW e \in Entry, \A j \in CallId : ~Flies(j, e), UNCHANGED calls,
           listed'[e] = Row(server[e])'
    PROVE  Synced(e)'
<1>1. \A j \in CallId : ~(Flies(j, e))' /\ ~(Served(j, e))'
  BY DEF Flies, InFlight, Served
<1> QED
  BY <1>1 DEF Synced

LEMMA StepSynced ==
    ASSUME Inv, [Next]_vars, NEW e \in Entry, e \notin loose'
    PROVE  Synced(e)'
<1>0. TypeOK /\ Shown /\ \A x \in Entry \ loose : Synced(x)
  BY DEF Inv
<1> DEFINE Same == UNCHANGED <<server, calls, view, listed, fetch, carried, loose>>
<1>1. ASSUME Same PROVE Synced(e)'
  <2>1. Synced(e) /\ UNCHANGED <<server, calls, view, listed, fetch, carried>>
    BY <1>0, <1>1
  <2>2. Untouched(e)
    BY <2>1 DEF Untouched
  <2> QED
    BY <2>1, <2>2, SyncedFrame
<1>2. ASSUME NEW i \in CallId, Serve(i) PROVE Synced(e)'
  BY <1>0, <1>2, SyncedUnderServe DEF Serve, missed
<1>3. ASSUME NEW i \in CallId, Answer(i) PROVE Synced(e)'
  BY <1>0, <1>3, SyncedUnderAnswer DEF Answer
<1>4. ASSUME NEW i \in CallId, Refuse(i) PROVE Synced(e)'
  <2>1. /\ server' = server /\ calls'[i].at = "over" /\ Synced(e)
        /\ \A j \in CallId \ {i} : calls'[j] = calls[j]
        /\ calls[i].ref # e /\ UNCHANGED cache
    BY <1>0, <1>4, OverTouchesOne DEF Refuse, TypeOK
  <2>2. ~Flies(i, e) /\ ~(Flies(i, e))'
    BY <2>1 DEF Flies, InFlight
  <2>3. Untouched(e)
    BY <2>1, <2>2, WritesOfOthers
  <2> QED
    BY <2>1, <2>3, SyncedFrame DEF cache
<1>5. CASE ListServed
  <2>1. /\ Synced(e) /\ fetch' # "none" /\ UNCHANGED <<server, calls, view, listed>>
    BY <1>0, <1>5 DEF ListServed, missed, writes
  <2>2. Untouched(e)
    BY <2>1 DEF Untouched
  <2> QED
    BY <2>1, <2>2, SyncedFrame
<1>6. CASE ListAnswered
  <2>1. /\ Fetched(e) /\ fetch = "served" /\ UNCHANGED <<server, calls, view>>
        /\ listed'[e] = Row(carried[e])
    BY <1>6 DEF ListAnswered, writes, Inv
  <2>2. \A j \in CallId : ~Flies(j, e)
    BY <2>1 DEF Fetched
  <2>3. listed'[e] = Row(server[e])'
    BY <2>1 DEF Fetched, Row
  <2> QED
    BY <2>1, <2>2, <2>3, SyncedAtRest
<1>7. CASE ListFails
  <2>1. /\ Synced(e) /\ listed[e] # "absent" /\ UNCHANGED <<server, calls, view, listed>>
    BY <1>0, <1>7 DEF ListFails, writes
  <2>2. Row(server[e])' = Row(server[e])
    BY <2>1 DEF Row
  <2> QED
    BY <2>1, <2>2 DEF Synced, Flies, Served, InFlight
<1>8. CASE Refresh
  <2>1. /\ Synced(e) /\ fetch' # "none" /\ UNCHANGED <<server, calls, view, listed>>
    BY <1>0, <1>8 DEF Refresh, FetchList, writes
  <2>2. Untouched(e)
    BY <2>1 DEF Untouched
  <2> QED
    BY <2>1, <2>2, SyncedFrame
<1>9. ASSUME NEW d \in Entry, NEW f \in Flag, Mark(d, f) PROVE Synced(e)'
  BY <1>0, <1>9, SyncedUnderSend DEF Mark, Origin
<1>10. ASSUME NEW d \in Entry, NEW f \in Flag, MarkElsewhere(d, f) PROVE Synced(e)'
  <2>1. Synced(e) /\ e # d /\ UNCHANGED cache
    BY <1>0, <1>10 DEF MarkElsewhere
  <2>2. server'[e] = server[e]
    BY <2>1, <1>0, <1>10, ElsewhereTouchesOne DEF TypeOK, WritesTypeOK
  <2>3. Untouched(e)
    BY <1>0, <1>10, ElsewhereTouchesOne DEF TypeOK, Untouched
  <2> QED
    BY <2>1, <2>2, <2>3, SyncedFrame DEF cache
<1>11. ASSUME NEW d \in Entry, NEW g \in 0 .. Entries - 1, Scroll(d, g) PROVE Synced(e)'
  BY <1>1, <1>11 DEF Scroll, writes, cache, missed
<1>12. CASE ListRenders \/ Notify
  BY <1>1, <1>12 DEF ListRenders, Notify, writes, cache, missed
<1>13. ASSUME NEW d \in Entry, SettleEnds(d) PROVE Synced(e)'
  <2>1. CASE d \notin inView /\ MayMark(d)
    BY <1>0, <1>13, <2>1, SyncedUnderSend DEF SettleEnds, Origin, Flag
  <2>2. CASE ~(d \notin inView /\ MayMark(d))
    BY <1>1, <1>13, <2>2 DEF SettleEnds, cache, missed
  <2> QED
    BY <2>1, <2>2
<1>14. CASE UNCHANGED vars
  BY <1>1, <1>14 DEF vars, writes, cache, missed
<1> QED
  BY <1>2, <1>3, <1>4, <1>5, <1>6, <1>7, <1>8, <1>9, <1>10, <1>11, <1>12, <1>13,
     <1>14
     DEF Next, Network, Page, Person

\* No write of the entry is on its way when a fetch of the list starts.
LEMMA FetchedAtStart ==
    ASSUME NEW e \in Entry, \A j \in CallId : ~(Flies(j, e))', fetch' = "sent"
    PROVE  Fetched(e)'
  BY DEF Fetched

LEMMA StepFetched ==
    ASSUME Inv, [Next]_vars, NEW e \in Entry, e \notin crossed'
    PROVE  Fetched(e)'
<1>0. TypeOK /\ \A x \in Entry \ crossed : Fetched(x)
  BY DEF Inv
<1> DEFINE Same == UNCHANGED <<server, calls, fetch, carried, crossed>>
<1>1. ASSUME Same PROVE Fetched(e)'
  <2>1. Fetched(e) /\ UNCHANGED <<server, calls, fetch, carried>>
    BY <1>0, <1>1
  <2>2. Untouched(e)
    BY <2>1 DEF Untouched
  <2> QED
    BY <2>1, <2>2, FetchedFrame
<1>2. ASSUME NEW d \in Entry, NEW f \in Flag, NEW from \in Origin, SendFrom(d, f, from),
             UNCHANGED <<server, cache>>
      PROVE  Fetched(e)'
  <2>1. Fetched(e) /\ (e # d \/ fetch = "none") /\ UNCHANGED <<fetch, carried>>
    BY <1>0, <1>2, SentFrom DEF cache
  <2>2. CASE fetch = "none"
    BY <2>1, <2>2 DEF Fetched
  <2>3. CASE e # d
    <3>1. Untouched(e)
      BY <1>0, <1>2, <2>3, SentFrom
    <3> QED
      BY <1>2, <2>1, <3>1, FetchedFrame
  <2> QED
    BY <2>1, <2>2, <2>3
<1>3. ASSUME NEW i \in CallId, Serve(i) PROVE Fetched(e)'
  <2>1. Fetched(e) /\ UNCHANGED <<fetch, carried>>
    BY <1>0, <1>3 DEF Serve, cache, missed
  <2>2. CASE fetch = "none"
    BY <2>1, <2>2 DEF Fetched
  <2>3. CASE fetch # "none"
    <3>1. ~Flies(i, e)
      BY <2>1, <2>3 DEF Fetched
    <3>2. /\ server' = [server EXCEPT ![calls[i].ref] = calls[i].flag]
          /\ calls'[i].ref = calls[i].ref /\ calls[i].ref # e
          /\ \A j \in CallId \ {i} : calls'[j] = calls[j]
      BY <1>0, <1>3, <3>1, CarryTouchesOne
         DEF Serve, Carry, TypeOK, Flies, InFlight
    <3>3. server'[e] = server[e] /\ ~(Flies(i, e))'
      BY <1>0, <3>2 DEF TypeOK, WritesTypeOK, Flies
    <3>4. Untouched(e)
      BY <3>1, <3>2, <3>3, WritesOfOthers
    <3> QED
      BY <2>1, <3>3, <3>4, FetchedFrame
  <2> QED
    BY <2>2, <2>3
<1>4. ASSUME NEW i \in CallId, Answer(i) \/ Refuse(i) PROVE Fetched(e)'
  <2>1. /\ server' = server /\ calls'[i].at = "over"
        /\ \A j \in CallId \ {i} : calls'[j] = calls[j]
    BY <1>0, <1>4, OverTouchesOne DEF Answer, Refuse, TypeOK
  <2>2. \A j \in CallId : (Flies(j, e))' => j # i /\ Flies(j, e)
    BY <2>1 DEF Flies, InFlight
  <2>3. CASE UNCHANGED <<fetch, carried, crossed>>
    BY <1>0, <2>1, <2>2, <2>3 DEF Fetched
  <2>4. CASE FetchList({calls[j].ref : j \in {k \in CallId \ {i} : InFlight(k)}})
    <3>1. \A j \in CallId : ~(Flies(j, e))'
      BY <2>2, <2>4 DEF FetchList, Flies
    <3> QED
      BY <2>4, <3>1, FetchedAtStart DEF FetchList
  <2> QED
    BY <1>4, <2>3, <2>4 DEF Answer, Refuse, cache
<1>5. CASE ListServed
  <2>1. /\ Fetched(e) /\ fetch # "none" /\ carried' = server
        /\ UNCHANGED <<server, calls>>
    BY <1>0, <1>5 DEF ListServed, missed, writes
  <2> QED
    BY <2>1 DEF Fetched, Flies, InFlight
<1>6. CASE ListAnswered \/ ListFails
  BY <1>6 DEF ListAnswered, ListFails, Fetched
<1>7. CASE Refresh
  <2>1. fetch' = "sent" /\ ~Busy(e) /\ calls' = calls
    BY <1>7 DEF Refresh, FetchList, writes
  <2>2. \A j \in CallId : ~(Flies(j, e))'
    BY <2>1 DEF Busy, Flies, InFlight
  <2> QED
    BY <2>1, <2>2, FetchedAtStart
<1>8. ASSUME NEW d \in Entry, NEW f \in Flag, Mark(d, f) PROVE Fetched(e)'
  BY <1>2, <1>8 DEF Mark, Origin
<1>9. ASSUME NEW d \in Entry, NEW f \in Flag, MarkElsewhere(d, f) PROVE Fetched(e)'
  <2>1. /\ Fetched(e) /\ (fetch = "served" => e # d) /\ UNCHANGED <<fetch, carried>>
    BY <1>0, <1>9 DEF MarkElsewhere, cache
  <2>2. e # d => server'[e] = server[e]
    BY <1>0, <1>9, ElsewhereTouchesOne DEF TypeOK, WritesTypeOK
  <2>3. \A j \in CallId : (Flies(j, e))' => Flies(j, e)
    BY <1>0, <1>9, ElsewhereTouchesOne DEF TypeOK, Flies, InFlight
  <2> QED
    BY <2>1, <2>2, <2>3 DEF Fetched
<1>10. ASSUME NEW d \in Entry, NEW g \in 0 .. Entries - 1, Scroll(d, g) PROVE Fetched(e)'
  BY <1>1, <1>10 DEF Scroll, writes, cache, missed
<1>11. CASE ListRenders \/ Notify
  BY <1>1, <1>11 DEF ListRenders, Notify, writes, cache, missed
<1>12. ASSUME NEW d \in Entry, SettleEnds(d) PROVE Fetched(e)'
  <2>1. CASE d \notin inView /\ MayMark(d)
    BY <1>2, <1>12, <2>1 DEF SettleEnds, Origin, Flag
  <2>2. CASE ~(d \notin inView /\ MayMark(d))
    BY <1>1, <1>12, <2>2 DEF SettleEnds, cache, missed
  <2> QED
    BY <2>1, <2>2
<1>13. CASE UNCHANGED vars
  BY <1>1, <1>13 DEF vars, writes, cache, missed
<1> QED
  BY <1>3, <1>4, <1>5, <1>6, <1>7, <1>8, <1>9, <1>10, <1>11, <1>12, <1>13
     DEF Next, Network, Page, Person

LEMMA StepShown == ASSUME TypeOK, Shown, [Next]_vars PROVE Shown'
<1>1. ASSUME NEW i \in CallId, Serve(i) \/ Refuse(i) PROVE Shown'
  BY <1>1 DEF Serve, Refuse, cache, Shown
<1>2. ASSUME NEW i \in CallId, Answer(i) PROVE Shown'
  <2>1. calls[i].flag \in Flag
    BY CallFields DEF TypeOK
  <2> QED
    BY <1>2, <2>1 DEF Answer, Shown, Row, Flag, TypeOK
<1>3. CASE ListAnswered
  BY <1>3 DEF ListAnswered, Shown, Row, TypeOK, Flag
<1>4. CASE ListServed \/ ListFails \/ Refresh
  BY <1>4 DEF ListServed, ListFails, Refresh, Shown
<1>5. ASSUME NEW e \in Entry, NEW f \in Flag, Mark(e, f) \/ MarkElsewhere(e, f) PROVE Shown'
  BY <1>5 DEF Mark, MarkElsewhere, cache, Shown
<1>6. ASSUME NEW e \in Entry, NEW g \in 0 .. Entries - 1, Scroll(e, g) PROVE Shown'
  BY <1>6 DEF Scroll, cache, Shown
<1>7. ASSUME NEW e \in Entry, ListRenders \/ Notify \/ SettleEnds(e) PROVE Shown'
  BY <1>7 DEF ListRenders, Notify, SettleEnds, cache, Shown
<1>8. CASE UNCHANGED vars
  BY <1>8 DEF vars, cache, Shown
<1>9. 1 \in Entry
  BY HasEntries DEF Entry
<1> QED
  BY <1>1, <1>2, <1>3, <1>4, <1>5, <1>6, <1>7, <1>8, <1>9 DEF Next, Network, Page, Person

LEMMA InitInv == Init => Inv
<1> SUFFICES ASSUME Init PROVE Inv
  OBVIOUS
<1>1. TypeOK
  BY InitTyped
<1>2. Shown
  BY <1>1 DEF Init, Shown, Row, TypeOK, WritesTypeOK, Flag
<1>3. ASSUME NEW e \in Entry PROVE Synced(e) /\ Fetched(e)
  <2>1. \A i \in CallId : ~InFlight(i) /\ calls[i].at # "served"
    BY DEF Init, InitWrites, InFlight, Blank
  <2> QED
    BY <2>1 DEF Init, Synced, Fetched, Flies, Served
<1> QED
  BY <1>1, <1>2, <1>3 DEF Inv

LEMMA Invariance == Spec => []Inv
<1>1. Inv /\ [Next]_vars => Inv'
  <2> SUFFICES ASSUME Inv, [Next]_vars PROVE Inv'
    OBVIOUS
  <2>1. TypeOK' /\ Shown'
    BY StepTyped, StepShown DEF Inv
  <2>2. \A e \in Entry \ loose' : Synced(e)'
    BY StepSynced
  <2>3. \A e \in Entry \ crossed' : Fetched(e)'
    BY StepFetched
  <2> QED
    BY <2>1, <2>2, <2>3 DEF Inv
<1> QED
  BY InitInv, <1>1, PTL DEF Spec

-----------------------------------------------------------------------------
(* Theorems. *)

\* The variables keep their types, in every list and with any number of writes.
THEOREM ScrollTypeCorrect == Spec => []TypeOK
<1>1. Inv => TypeOK
  BY DEF Inv
<1> QED
  BY <1>1, Invariance, PTL

\* While no fetch is on its way the list shows what the server holds of every
\* entry without a write on its way, whatever writes, fetches and failures came
\* before: save the entries of which the cache is known to have missed something,
\* until a fetch succeeds.
THEOREM ListsAgree == Spec => []ListAgrees
<1>1. Inv => ListAgrees
  <2> SUFFICES ASSUME Inv, fetch = "none", NEW e \in Entry \ loose, ~Busy(e)
               PROVE  listed[e] = Row(server[e])
    BY DEF ListAgrees
  <2>1. Synced(e) /\ \A i \in CallId : ~Served(i, e)
    BY DEF Inv, Served, Busy, InFlight
  <2> QED
    BY <2>1 DEF Synced
<1> QED
  BY <1>1, Invariance, PTL

=============================================================================
