-------------------------- MODULE FinishReadProofs --------------------------
(***************************************************************************)
(* Proofs about FinishRead, for any number of articles and writes: its     *)
(* types, and that the detector marks the article whose end it has watched *)
(* and none that became unread again while it was open.                    *)
(***************************************************************************)
EXTENDS FinishRead, TLAPS

-----------------------------------------------------------------------------
(* Writes: their types, and which of them a step touches. *)

\* One unused write becomes the one that is sent, and no other changes.
LEMMA SendTouchesOne ==
    ASSUME WritesTypeOK, NEW e \in Entry, NEW f \in Flag, NEW from \in Origin,
           Send(e, f, from)
    PROVE  \E i \in CallId :
             /\ calls[i].at = "unused"
             /\ calls'[i] = [ref |-> e, flag |-> f, from |-> from, at |-> "sent"]
             /\ \A j \in CallId \ {i} : calls'[j] = calls[j]
             /\ calls' \in [CallId -> Call]
<1>1. PICK i \in CallId :
        /\ calls[i].at = "unused"
        /\ calls' = [calls EXCEPT ![i] = [ref |-> e, flag |-> f, from |-> from,
                                          at |-> "sent"]]
  BY DEF Send
<1>2. [ref |-> e, flag |-> f, from |-> from, at |-> "sent"] \in Call
  BY DEF Call
<1> QED
  BY <1>1, <1>2 DEF WritesTypeOK

LEMMA BlankIsCall == Blank("over") \in Call /\ Blank("unused") \in Call
<1>1. 1 \in Entry
  BY HasEntries DEF Entry
<1> QED
  BY <1>1 DEF Blank, Call, Flag, Origin

LEMMA CarryTouchesOne ==
    ASSUME WritesTypeOK, NEW i \in CallId, Carry(i)
    PROVE  /\ server' = [server EXCEPT ![calls[i].ref] = calls[i].flag]
           /\ calls'[i].at = "served"
           /\ calls'[i].ref = calls[i].ref /\ calls'[i].flag = calls[i].flag
           /\ \A j \in CallId \ {i} : calls'[j] = calls[j]
           /\ WritesTypeOK'
<1>1. calls[i] \in Call /\ calls' = [calls EXCEPT ![i].at = "served"]
  BY DEF Carry, WritesTypeOK
<1>2. [calls[i] EXCEPT !.at = "served"] \in Call
  BY <1>1 DEF Call
<1>3. server' \in [Entry -> Flag]
  BY <1>1 DEF Carry, WritesTypeOK, Call
<1> QED
  BY <1>1, <1>2, <1>3 DEF Carry, WritesTypeOK, Call

LEMMA OverTouchesOne ==
    ASSUME WritesTypeOK, NEW i \in CallId, Settle(i) \/ Lose(i)
    PROVE  /\ server' = server
           /\ calls'[i] = Blank("over") /\ calls'[i].at = "over"
           /\ \A j \in CallId \ {i} : calls'[j] = calls[j]
           /\ WritesTypeOK'
<1>1. calls' = [calls EXCEPT ![i] = Blank("over")] /\ server' = server
  BY DEF Settle, Lose
<1>2. Blank("over").at = "over"
  BY DEF Blank
<1> QED
  BY <1>1, <1>2, BlankIsCall DEF WritesTypeOK

LEMMA InitWritesTyped == InitWrites => WritesTypeOK
  BY BlankIsCall DEF InitWrites, WritesTypeOK

LEMMA CallFields ==
    ASSUME WritesTypeOK, NEW i \in CallId
    PROVE  /\ calls[i].ref \in Entry /\ calls[i].flag \in Flag
           /\ calls[i].from \in Origin
           /\ calls[i].at \in {"unused", "sent", "served", "over"}
  BY DEF WritesTypeOK, Call

-----------------------------------------------------------------------------
\* The timer belongs to the article that was rendered last.
Timed == dwelling # None => dwelling = article

\* Whatever became unread while it was open is suspended.
Undone == undone \subseteq suspended

Inv == TypeOK /\ Timed /\ Undone

LEMMA ReadOfIsFlag == ASSUME NEW o PROVE ReadOf(o) \in Flag
  BY DEF ReadOf, Flag

LEMMA SendTyped ==
    ASSUME TypeOK, NEW e \in Entry, NEW f \in Flag, NEW from \in Origin,
           Send(e, f, from), UNCHANGED server
    PROVE  WritesTypeOK'
<1>1. calls' \in [CallId -> Call]
  BY SendTouchesOne DEF TypeOK
<1> QED
  BY <1>1 DEF TypeOK, WritesTypeOK

LEMMA InitInv == Init => Inv
<1> SUFFICES ASSUME Init PROVE Inv
  OBVIOUS
<1>1. WritesTypeOK
  BY InitWritesTyped DEF Init
<1>2. TypeOK
  BY <1>1 DEF Init, TypeOK, Opened, Cached, Flag
<1> QED
  BY <1>2 DEF Init, Inv, Timed, Undone

LEMMA EvaluateTimes ==
    ASSUME TypeOK, Timed, NEW end, NEW shown, Evaluate(end, shown), article' = article
    PROVE  dwelling' \in Opened /\ Timed'
  BY DEF Evaluate, TypeOK, Timed, Opened

LEMMA DispatchTyped ==
    ASSUME TypeOK, article # None, NEW from \in Origin, Dispatch(from), UNCHANGED server
    PROVE  /\ WritesTypeOK' /\ done' \in BOOLEAN /\ failed' \in BOOLEAN
           /\ dwelling' = None
<1>1. article \in Entry /\ "read" \in Flag /\ Send(article, "read", from)
  BY DEF TypeOK, Opened, Dispatch, Flag
<1> QED
  BY <1>1, SendTyped DEF Dispatch

LEMMA StepInv == ASSUME Inv, [Next]_vars PROVE Inv'
<1>0. TypeOK /\ Timed /\ Undone
  BY DEF Inv
<1>1. ASSUME NEW i \in CallId, Serve(i) PROVE Inv'
  <2>1. WritesTypeOK'
    BY <1>0, <1>1, CarryTouchesOne DEF Serve, TypeOK
  <2> QED
    BY <1>0, <1>1, <2>1
       DEF Serve, Inv, TypeOK, Timed, Undone, cache, reader, verdict
<1>2. ASSUME NEW i \in CallId, Answer(i) PROVE Inv'
  <2>1. WritesTypeOK' /\ calls[i].flag \in Flag
    BY <1>0, <1>2, OverTouchesOne, CallFields DEF Answer, TypeOK
  <2>2. detail' \in [Entry -> Cached]
    BY <1>0, <1>2, <2>1 DEF Answer, TypeOK, Cached
  <2> QED
    BY <1>0, <1>2, <2>1, <2>2 DEF Answer, Inv, TypeOK, Timed, Undone, reader, verdict
<1>3. ASSUME NEW i \in CallId, Refuse(i) PROVE Inv'
  <2>1. WritesTypeOK'
    BY <1>0, <1>3, OverTouchesOne DEF Refuse, TypeOK
  <2> QED
    BY <1>0, <1>3, <2>1 DEF Refuse, Inv, TypeOK, Timed, Undone, cache
<1>4. ASSUME NEW e \in Entry, FetchServed(e) \/ FetchAnswered(e) PROVE Inv'
  <2>1. /\ fetch' \in [Entry -> Flag \cup {"none", "sent"}]
        /\ detail' \in [Entry -> Cached]
    BY <1>0, <1>4 DEF FetchServed, FetchAnswered, TypeOK, WritesTypeOK, Cached
  <2>2. WritesTypeOK'
    BY <1>0, <1>4 DEF FetchServed, FetchAnswered, TypeOK, WritesTypeOK, writes
  <2> QED
    BY <1>0, <1>4, <2>1, <2>2
       DEF FetchServed, FetchAnswered, Inv, TypeOK, Timed, Undone, reader, verdict
<1>5. ASSUME NEW e \in Opened, Open(e) PROVE Inv'
  <2>1. fetch' \in [Entry -> Flag \cup {"none", "sent"}] /\ open' \in Opened
    BY <1>5 DEF Open
  <2>2. WritesTypeOK'
    BY <1>0, <1>5 DEF Open, TypeOK, WritesTypeOK, writes
  <2> QED
    BY <1>0, <1>5, <2>1, <2>2 DEF Open, Inv, TypeOK, Timed, Undone, reader, verdict
<1>6. ASSUME NEW e \in Entry, NEW f \in Flag, Mark(e, f) PROVE Inv'
  <2>1. WritesTypeOK'
    BY <1>0, <1>6, SendTyped DEF Mark, Origin
  <2> QED
    BY <1>0, <1>6, <2>1 DEF Mark, Inv, TypeOK, Timed, Undone, cache, reader, verdict
<1>7. ASSUME ReaderRenders PROVE Inv'
  <2>1. wasRead' \in Flag /\ article' \in Opened
    BY <1>0, <1>7, ReadOfIsFlag DEF ReaderRenders, TypeOK
  <2>2. suspended' \subseteq Entry /\ undone' \subseteq Entry /\ Undone'
    BY <1>0, <1>7 DEF ReaderRenders, TypeOK, Undone, Opened
  <2>3. dwelling' \in Opened /\ Timed'
    BY <1>0, <1>7 DEF ReaderRenders, TypeOK, Timed, Opened
  <2>4. done' \in BOOLEAN /\ failed' \in BOOLEAN /\ reached' \in BOOLEAN
    BY <1>0, <1>7, Zenon DEF ReaderRenders, TypeOK
  <2>5. WritesTypeOK' /\ UNCHANGED <<detail, fetch, open, visible>>
    BY <1>0, <1>7 DEF ReaderRenders, TypeOK, WritesTypeOK, writes, cache
  <2> QED
    BY <1>0, <2>1, <2>2, <2>3, <2>4, <2>5 DEF Inv, TypeOK
<1>8. ASSUME Progress PROVE Inv'
  <2>1. dwelling' \in Opened /\ Timed'
    BY <1>0, <1>8, EvaluateTimes DEF Progress
  <2> QED
    BY <1>0, <1>8, <2>1 DEF Progress, Inv, TypeOK, WritesTypeOK, Undone, writes, cache
<1>9. ASSUME HideShow PROVE Inv'
  <2>1. dwelling' \in Opened /\ Timed'
    <3>1. CASE visible
      BY <1>0, <1>9, <3>1 DEF HideShow, Timed, Opened
    <3>2. CASE ~visible
      BY <1>0, <1>9, <3>2, EvaluateTimes DEF HideShow
    <3> QED
      BY <3>1, <3>2
  <2> QED
    BY <1>0, <1>9, <2>1 DEF HideShow, Inv, TypeOK, WritesTypeOK, Undone, writes, cache
<1>10. ASSUME DwellEnds PROVE Inv'
  <2>1. /\ WritesTypeOK' /\ done' \in BOOLEAN /\ failed' \in BOOLEAN
        /\ dwelling' = None
    <3>1. CASE ShouldDwell(dwelling, TRUE, reached, visible) /\ ~done
      <4>1. article # None /\ Dispatch("dwell") /\ UNCHANGED server /\ "dwell" \in Origin
        BY <1>0, <1>10, <3>1 DEF DwellEnds, Timed, Origin
      <4> QED
        BY <1>0, <4>1, DispatchTyped
    <3>2. CASE ~(ShouldDwell(dwelling, TRUE, reached, visible) /\ ~done)
      BY <1>0, <1>10, <3>2 DEF DwellEnds, TypeOK, WritesTypeOK
    <3> QED
      BY <3>1, <3>2
  <2> QED
    BY <1>0, <1>10, <2>1 DEF DwellEnds, Inv, TypeOK, Timed, Undone, cache, Opened
<1>11. ASSUME Confirm PROVE Inv'
  <2>1. article # None /\ Dispatch("button") /\ UNCHANGED server /\ "button" \in Origin
    BY <1>11 DEF Confirm, Loaded, Origin
  <2>2. /\ WritesTypeOK' /\ done' \in BOOLEAN /\ failed' \in BOOLEAN
        /\ dwelling' = None
    BY <1>0, <2>1, DispatchTyped
  <2> QED
    BY <1>0, <1>11, <2>2 DEF Confirm, Inv, TypeOK, Timed, Undone, cache, Opened
<1>12. CASE UNCHANGED vars
  BY <1>0, <1>12 DEF vars, writes, cache, reader, verdict, Inv, TypeOK, WritesTypeOK,
                     Timed, Undone
<1> QED
  BY <1>1, <1>2, <1>3, <1>4, <1>5, <1>6, <1>7, <1>8, <1>9, <1>10, <1>11, <1>12
     DEF Next, Network, Person

LEMMA Invariance == Spec => []Inv
<1>1. Inv /\ [Next]_vars => Inv'
  BY StepInv
<1> QED
  BY InitInv, <1>1, PTL DEF Spec

-----------------------------------------------------------------------------
(* Theorems. *)

\* The variables keep their types, for any number of articles and writes.
THEOREM FinishTypeCorrect == Spec => []TypeOK
<1>1. Inv => TypeOK
  BY DEF Inv
<1> QED
  BY <1>1, Invariance, PTL

\* A mark the reader sends on its own is for the article whose end it has
\* watched, and that article did not become unread again while it was open.
THEOREM FinishMarksEarned == Spec => FinishMarksAreEarned
<1> DEFINE Earned == \A i \in CallId :
       calls[i].at = "unused" /\ calls'[i].at = "sent" /\ calls'[i].from = "dwell"
       => calls'[i].ref = dwelling /\ calls'[i].ref \notin undone
<1>1. ASSUME Inv, [Next]_vars PROVE Earned
  <2> SUFFICES ASSUME NEW k \in CallId, calls[k].at = "unused", calls'[k].at = "sent",
                      calls'[k].from = "dwell"
               PROVE  calls'[k].ref = dwelling /\ calls'[k].ref \notin undone
    OBVIOUS
  <2>0. TypeOK /\ Timed /\ Undone
    BY <1>1 DEF Inv
  <2>1. ASSUME NEW i \in CallId, Serve(i) \/ Answer(i) \/ Refuse(i) PROVE FALSE
    <3>1. \A j \in CallId \ {i} : calls'[j] = calls[j]
      BY <2>0, <2>1, CarryTouchesOne, OverTouchesOne DEF Serve, Answer, Refuse, TypeOK
    <3>2. calls[i].at # "unused"
      BY <2>1 DEF Serve, Answer, Refuse, Carry, Settle, Lose, InFlight
    <3> QED
      BY <3>1, <3>2
  <2>2. ASSUME NEW e \in Entry, NEW f \in Flag, NEW from \in Origin,
               Send(e, f, from)
        PROVE  from = "dwell" /\ calls'[k].ref = e
    <3>1. PICK i \in CallId :
            /\ calls'[i] = [ref |-> e, flag |-> f, from |-> from, at |-> "sent"]
            /\ \A j \in CallId \ {i} : calls'[j] = calls[j]
      BY <2>0, <2>2, SendTouchesOne DEF TypeOK
    <3>2. i = k
      BY <3>1
    <3> QED
      BY <3>1, <3>2
  <2>3. ASSUME NEW e \in Entry, NEW f \in Flag, Mark(e, f) PROVE FALSE
    BY <2>2, <2>3 DEF Mark, Origin
  <2>4. ASSUME Confirm PROVE FALSE
    BY <2>0, <2>2, <2>4 DEF Confirm, Dispatch, Loaded, TypeOK, Opened, Origin, Flag
  <2>5. ASSUME DwellEnds
        PROVE  calls'[k].ref = dwelling /\ calls'[k].ref \notin undone
    <3>1. ShouldDwell(dwelling, TRUE, reached, visible) /\ Send(article, "read", "dwell")
      BY <2>5 DEF DwellEnds, Dispatch
    <3>2. dwelling = article /\ article \in Entry /\ dwelling \notin suspended
      BY <2>0, <2>5, <3>1 DEF DwellEnds, Timed, TypeOK, Opened, ShouldDwell
    <3>3. calls'[k].ref = article
      BY <2>2, <3>1, <3>2 DEF Origin, Flag
    <3> QED
      BY <2>0, <3>2, <3>3 DEF Undone
  <2>6. ASSUME NEW e \in Entry, FetchServed(e) \/ FetchAnswered(e) PROVE FALSE
    BY <2>6 DEF FetchServed, FetchAnswered, writes
  <2>7. ASSUME NEW e \in Opened, Open(e) PROVE FALSE
    BY <2>7 DEF Open, writes
  <2>8. CASE ReaderRenders \/ Progress \/ HideShow \/ UNCHANGED vars
    BY <2>8 DEF ReaderRenders, Progress, HideShow, vars, writes
  <2> QED
    BY <1>1, <2>1, <2>3, <2>4, <2>5, <2>6, <2>7, <2>8 DEF Next, Network, Person
<1>2. Inv /\ [Next]_vars => [Earned]_vars
  BY <1>1
<1> QED
  BY <1>2, Invariance, PTL DEF Spec, FinishMarksAreEarned

=============================================================================
