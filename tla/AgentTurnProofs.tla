--------------------------- MODULE AgentTurnProofs ---------------------------
(***************************************************************************)
(* What holds of AgentTurn for any number of messages, handlers and        *)
(* streams, and for every bound.                                           *)
(***************************************************************************)
EXTENDS AgentTurn, TLAPS

\* The lock: one turn at a time is between "mark" and the end of its task.
OneLive == \A t, u \in Turn : Live(t) /\ Live(u) => t = u

\* Only a turn that is finishing has an ending.
Late == {"note", "clear", "publish"}
EndingsAreLate == \A t \in Turn : run[t].ending # "none" => run[t].at \in Late

\* A flag that a live turn would find was raised while it was live.
FlagsWereAsked ==
  /\ cancelReq /\ AnyLive => "cancel" \in asked
  /\ pauseReq /\ AnyLive => "pause" \in asked
  /\ hard => "cancel" \in asked

\* Nothing is queued, runs or has a marker before the sweep is done, and the
\* sweep is at work only as long as it is not.
SweepComesFirst ==
  /\ \A t \in Turn : run[t].at = "queued" \/ Live(t) => swept
  /\ marker = "ours" => swept
  /\ sweep = "clear" => ~swept

\* A turn that publishes has deleted its marker.
PublisherHasCleared == \A t \in Turn : run[t].at = "publish" => marker # "ours"

\* A handler carries a frozen approval only together with its turn.
HandlersWellFormed ==
  \A h \in Handler : req[h].snap.approval => req[h].snap.turn # 0

\* What concerns turns and marker, and the variables it is about.
Core == /\ OneLive /\ EndingsAreLate /\ FlagsWereAsked /\ SweepComesFirst
        /\ PublisherHasCleared /\ StopsWereAsked /\ MarkerIsExplained
coreVars == <<run, cancelReq, pauseReq, hard, marker, swept, sweep, asked, broken>>

IInv == TypeOK /\ HandlersWellFormed /\ Core /\ WaitingStreamHasPublisher

-----------------------------------------------------------------------------
(* Types. *)

LEMMA Tasks ==
  /\ NoTask \in Task /\ Gone \in Task
  /\ \A p \in Place, e \in Ending, c \in BOOLEAN : Finishing(p, e, c) \in Task
BY DEF NoTask, Gone, Finishing, Task, Place, Ending

\* A turn that goes on keeps its ending, and no other turn moves.
LEMMA GoesTo ==
  ASSUME run \in [Turn -> Task], NEW t \in Turn, NEW p \in Place, Goto(t, p)
  PROVE  /\ run' \in [Turn -> Task]
         /\ run'[t].at = p /\ run'[t].ending = run[t].ending
         /\ run'[t].covered = run[t].covered
         /\ \A u \in Turn \ {t} : run'[u] = run[u]
BY DEF Goto, Task

LEMMA Finishes ==
  ASSUME run \in [Turn -> Task], NEW t \in Turn, NEW p \in Place,
         NEW e \in Ending, NEW c \in BOOLEAN, Finish(t, p, e, c)
  PROVE  /\ run' \in [Turn -> Task]
         /\ run'[t].at = p /\ run'[t].ending = e /\ run'[t].covered = c
         /\ \A u \in Turn \ {t} : run'[u] = run[u]
BY DEF Finish, Finishing, Task

\* turn_done changes what the open streams have been told, and nothing else.
LEMMA Announces ==
  ASSUME TypeOK, Announce
  PROVE  /\ stream' \in [Stream -> Reader] /\ faults' \in 0 .. MaxFaults
         /\ \A s \in Stream :
              /\ stream'[s].at = stream[s].at /\ stream'[s].deaf = stream[s].deaf
              /\ stream[s].at # "closed" => stream'[s].done # "no"
<1>1. ASSUME NEW d, stream' = Told(d)
      PROVE  /\ stream' \in [Stream -> Reader]
             /\ \A s \in Stream :
                  /\ stream'[s].at = stream[s].at
                  /\ stream'[s].deaf = stream[s].deaf
                  /\ stream[s].at # "closed" => stream'[s].done # "no"
  <2>1. \A s \in Stream : stream[s] \in Reader
    BY DEF TypeOK
  <2> QED
    BY <1>1, <2>1 DEF Told, Reader
<1>2. faults' \in 0 .. MaxFaults
  BY BoundsAreNaturals DEF TypeOK, Announce
<1> QED
  BY <1>1, <1>2 DEF Announce

-----------------------------------------------------------------------------
(* Steps that keep the core. *)

\* A live turn goes on; it stops only for a request, and it publishes only
\* without its marker.
LEMMA TurnGoesOn ==
  ASSUME TypeOK, Core, NEW t \in Turn, Live(t), Live(t)',
         \A u \in Turn \ {t} : run'[u] = run[u],
         UNCHANGED <<cancelReq, pauseReq, swept, sweep, asked>>, hard' => hard,
         run'[t].ending # "none" => run'[t].at \in Late,
         run'[t].ending = "cancelled" =>
           cancelReq \/ hard \/ run[t].ending = "cancelled",
         run'[t].ending = "paused" => pauseReq \/ run[t].ending = "paused",
         marker' \in {marker, "none", "ours"}, broken' \in BOOLEAN,
         run'[t].at = "publish" =>
           marker' = "none" \/ (run[t].at = "publish" /\ marker' = marker)
  PROVE  Core'
<1>1. \A u \in Turn : Live(u)' <=> Live(u)
  BY DEF Live
<1>2. AnyLive /\ AnyLive'
  BY DEF AnyLive
<1>3. swept /\ swept' /\ marker' # "old"
  BY DEF Core, SweepComesFirst, MarkerIsExplained
<1>4. OneLive' /\ \A u \in Turn \ {t} : ~Live(u) /\ ~Live(u)'
  BY <1>1 DEF Core, OneLive
<1>5. EndingsAreLate' /\ PublisherHasCleared'
  BY <1>4 DEF Core, EndingsAreLate, PublisherHasCleared, Live, Inside
<1>6. FlagsWereAsked' /\ StopsWereAsked'
  BY <1>2 DEF Core, FlagsWereAsked, StopsWereAsked
<1>7. SweepComesFirst' /\ MarkerIsExplained'
  BY <1>2, <1>3 DEF Core, SweepComesFirst, MarkerIsExplained
<1> QED
  BY <1>4, <1>5, <1>6, <1>7 DEF Core

\* A live turn ends: it has cleared its marker, or leaves a broken process.
LEMMA TurnEnds ==
  ASSUME TypeOK, Core, NEW t \in Turn, Live(t), run'[t] = Gone,
         \A u \in Turn \ {t} : run'[u] = run[u],
         UNCHANGED <<cancelReq, swept, sweep, asked>>,
         ~hard', pauseReq' => pauseReq, marker' \in {marker, "none"},
         (marker' # "ours" /\ broken' = broken) \/ broken'
  PROVE  Core' /\ ~AnyLive'
<1>1. \A u \in Turn \ {t} : ~Live(u)
  BY DEF Core, OneLive
<1>2. \A u \in Turn : ~Live(u)'
  BY <1>1 DEF Live, Gone, Inside
<1>3. swept /\ swept' /\ marker' # "old"
  BY DEF Core, SweepComesFirst, MarkerIsExplained
<1>4. OneLive' /\ ~AnyLive'
  BY <1>2 DEF OneLive, AnyLive
<1>5. EndingsAreLate' /\ PublisherHasCleared'
  BY <1>2 DEF Core, EndingsAreLate, PublisherHasCleared, Gone, Live, Inside
<1>6. FlagsWereAsked' /\ StopsWereAsked'
  BY <1>4 DEF Core, FlagsWereAsked, StopsWereAsked, Gone
<1>7. SweepComesFirst' /\ MarkerIsExplained'
  BY <1>2, <1>3 DEF Core, SweepComesFirst, MarkerIsExplained
<1> QED
  BY <1>4, <1>5, <1>6, <1>7 DEF Core

LEMMA CoreUntouched ==
  ASSUME Core, UNCHANGED coreVars
  PROVE  Core' /\ (AnyLive' <=> AnyLive)
BY DEF coreVars, Core, OneLive, EndingsAreLate, FlagsWereAsked, SweepComesFirst,
       PublisherHasCleared, StopsWereAsked, MarkerIsExplained, AnyLive, Live

-----------------------------------------------------------------------------
(* Interrupted statements and exceptions. *)

LEMMA PartlyTyped ==
  ASSUME TypeOK, NEW t \in Turn, Partly(t)
  PROVE  /\ snap' \in Snapshot /\ (snap'.approval => snap'.turn # 0)
         /\ pending' \subseteq Turn
<1>1. NoSnap \in Snapshot /\ ~NoSnap.approval
  BY BoundsAreNaturals DEF NoSnap, Snapshot
<1>2. snap \in Snapshot /\ (snap.approval => snap.turn # 0) /\ pending \subseteq Turn
  BY DEF TypeOK
<1> QED
  BY <1>1, <1>2 DEF Partly

LEMMA AbandonTyped ==
  ASSUME TypeOK, NEW t \in Turn, Abandon(t)
  PROVE  stray' \subseteq Statement /\ faults' \in 0 .. MaxFaults
<1>1. Awaited(t) \subseteq Statement
  BY DEF Awaited
<1>2. stray' \subseteq Statement
  BY <1>1 DEF Abandon, TypeOK
<1>3. faults' \in 0 .. MaxFaults
  BY BoundsAreNaturals DEF Abandon, TypeOK
<1> QED
  BY <1>2, <1>3

LEMMA Raises ==
  ASSUME TypeOK, NEW t \in Turn, NEW e \in {"cancelled", "failed"}, Raised(t, e)
  PROVE  /\ run' \in [Turn -> Task] /\ broken' \in BOOLEAN
         /\ \A u \in Turn \ {t} : run'[u] = run[u]
         /\ \/ run'[t].at = "note" /\ run'[t].ending = e /\ broken' = broken
            \/ ~Covered(t) /\ run'[t] = Gone /\ broken'
<1>1. CASE Covered(t)
  <2>1. "note" \in Place /\ e \in Ending /\ FALSE \in BOOLEAN
    BY DEF Place, Ending
  <2>2. Finish(t, "note", e, FALSE) /\ broken' = broken
    BY <1>1 DEF Raised
  <2> QED
    BY <2>1, <2>2, Finishes DEF TypeOK
<1>2. CASE ~Covered(t)
  <2>1. run' = [run EXCEPT ![t] = Gone] /\ broken' = TRUE
    BY <1>2 DEF Raised
  <2> QED
    BY <1>2, <2>1, Tasks DEF TypeOK
<1> QED
  BY <1>1, <1>2

\* An exception in a live turn, whatever else its statement left behind.
LEMMA RaisedKeepsCore ==
  ASSUME TypeOK, Core, NEW t \in Turn, Live(t),
         NEW e \in {"cancelled", "failed"}, Raised(t, e),
         e = "cancelled" => hard, ~hard',
         UNCHANGED <<cancelReq, pauseReq, swept, sweep, asked>>,
         marker' = marker
  PROVE  Core' /\ (AnyLive' \/ broken')
<1>1. CASE run'[t].at = "note" /\ run'[t].ending = e /\ broken' = broken
  <2>1. Live(t)' /\ AnyLive'
    BY <1>1 DEF Live, AnyLive, Inside
  <2> QED
    BY <1>1, <2>1, Raises, TurnGoesOn DEF Late, TypeOK
<1>2. CASE ~Covered(t) /\ run'[t] = Gone /\ broken'
  BY <1>2, Raises, TurnEnds
<1> QED
  BY <1>1, <1>2, Raises

-----------------------------------------------------------------------------
(* The invariant: at first, and step by step. *)

LEMMA InitIInv == Init => IInv
<1> SUFFICES ASSUME Init PROVE IInv
  OBVIOUS
<1>1. TypeOK
  <2>1. NoSnap \in Snapshot /\ ~NoSnap.approval
    BY BoundsAreNaturals DEF NoSnap, Snapshot
  <2>2. Idle \in Request /\ Closed \in Reader
    BY <2>1 DEF Idle, Request, Closed, Reader, Listening
  <2>3. run \in [Turn -> Task] /\ req \in [Handler -> Request]
          /\ stream \in [Stream -> Reader]
    BY <2>2, Tasks DEF Init
  <2>4. snap \in Snapshot /\ ~snap.approval
    BY <2>1 DEF Init
  <2>5. cancels \in 0 .. MaxCancels /\ faults \in 0 .. MaxFaults
    BY BoundsAreNaturals DEF Init
  <2> QED
    BY <2>3, <2>4, <2>5 DEF Init, TypeOK, Marker
<1>2. HandlersWellFormed /\ WaitingStreamHasPublisher
  BY DEF Init, HandlersWellFormed, WaitingStreamHasPublisher, Idle, NoSnap, Closed
<1>3. \A t \in Turn : run[t] = NoTask /\ ~Live(t)
  BY DEF Init, Live, NoTask, Inside
<1>4. Core
  BY <1>3 DEF Init, Core, OneLive, EndingsAreLate, FlagsWereAsked, SweepComesFirst,
     PublisherHasCleared, StopsWereAsked, MarkerIsExplained, NoTask
<1> QED
  BY <1>1, <1>2, <1>4 DEF IInv

LEMMA PostInv == ASSUME IInv, NEW t \in Turn, Post(t) PROVE IInv'
<1>1. /\ run' \in [Turn -> Task]
      /\ run'[t].at = "queued" /\ run'[t].ending = run[t].ending
      /\ \A u \in Turn \ {t} : run'[u] = run[u]
  BY GoesTo DEF IInv, TypeOK, Post, Place
<1>2. run[t].ending = "none"
  BY DEF Post, IInv, Core, EndingsAreLate, Late
<1>3. \A u \in Turn : Live(u)' <=> Live(u)
  BY <1>1 DEF Live, Inside, Post
<1>4. AnyLive' <=> AnyLive
  BY <1>3 DEF AnyLive
<1>5. TypeOK'
  BY <1>1, <1>4 DEF IInv, TypeOK, Post, AnyLive, Live
<1>6. OneLive' /\ EndingsAreLate' /\ PublisherHasCleared'
  BY <1>1, <1>2, <1>3 DEF IInv, Core, OneLive, EndingsAreLate, PublisherHasCleared, Post
<1>7. FlagsWereAsked' /\ StopsWereAsked' /\ MarkerIsExplained' /\ SweepComesFirst'
  BY <1>1, <1>2, <1>3, <1>4 DEF IInv, Core, FlagsWereAsked, StopsWereAsked,
     MarkerIsExplained, SweepComesFirst, Post
<1>8. HandlersWellFormed' /\ WaitingStreamHasPublisher'
  BY <1>4 DEF IInv, HandlersWellFormed, WaitingStreamHasPublisher, Post
<1> QED
  BY <1>5, <1>6, <1>7, <1>8 DEF IInv, Core

LEMMA StartInv == ASSUME IInv, NEW t \in Turn, Start(t) PROVE IInv'
<1>1. /\ run' \in [Turn -> Task]
      /\ run'[t].at = "mark" /\ run'[t].ending = run[t].ending
      /\ \A u \in Turn \ {t} : run'[u] = run[u]
  BY GoesTo DEF IInv, TypeOK, Start, Place
<1>2. \A u \in Turn : run[u].ending = "none" /\ ~Live(u)
  BY DEF Start, AnyLive, Live, Inside, IInv, Core, EndingsAreLate, Late
<1>3. Live(t)' /\ AnyLive' /\ \A u \in Turn \ {t} : ~Live(u)'
  BY <1>1, <1>2 DEF Live, Inside, AnyLive
<1>4. ~hard /\ ~hard' /\ swept /\ swept'
  BY <1>2 DEF Start, IInv, TypeOK, Live, Core, SweepComesFirst
<1>5. TypeOK'
  BY <1>1, <1>4 DEF IInv, TypeOK, Start
<1>6. OneLive' /\ EndingsAreLate' /\ PublisherHasCleared'
  BY <1>1, <1>2, <1>3 DEF OneLive, EndingsAreLate, PublisherHasCleared, Live, Inside
<1>7. FlagsWereAsked' /\ StopsWereAsked' /\ MarkerIsExplained' /\ SweepComesFirst'
  BY <1>1, <1>2, <1>3, <1>4 DEF IInv, Core, FlagsWereAsked, StopsWereAsked,
     MarkerIsExplained, SweepComesFirst, Start
<1>8. HandlersWellFormed' /\ WaitingStreamHasPublisher'
  BY <1>3 DEF IInv, HandlersWellFormed, WaitingStreamHasPublisher, Start
<1> QED
  BY <1>5, <1>6, <1>7, <1>8 DEF IInv, Core

\* Handlers and streams notice nothing of a turn that goes on.
LEMMA OthersUntouched ==
  ASSUME IInv, UNCHANGED <<req, stream>>, AnyLive' \/ broken'
  PROVE  HandlersWellFormed' /\ WaitingStreamHasPublisher'
BY DEF IInv, HandlersWellFormed, WaitingStreamHasPublisher

LEMMA MarkInv == ASSUME IInv, NEW t \in Turn, Mark(t) PROVE IInv'
<1>1. /\ run' \in [Turn -> Task]
      /\ run'[t].at = "open" /\ run'[t].ending = run[t].ending
      /\ \A u \in Turn \ {t} : run'[u] = run[u]
  BY GoesTo DEF IInv, TypeOK, Mark, Place
<1>2. Live(t) /\ Live(t)' /\ AnyLive' /\ run[t].ending = "none"
  BY <1>1 DEF Live, Inside, Mark, At, AnyLive, IInv, Core, EndingsAreLate, Late
<1>3. TypeOK'
  BY <1>1 DEF IInv, TypeOK, Mark, Marker, At
<1>4. Core'
  BY <1>1, <1>2, <1>3, TurnGoesOn DEF IInv, TypeOK, Mark
<1> QED
  BY <1>2, <1>3, <1>4, OthersUntouched DEF IInv, Mark

LEMMA OpenInv == ASSUME IInv, NEW t \in Turn, Open(t) PROVE IInv'
<1>1. /\ run' \in [Turn -> Task]
      /\ run'[t].at \in {"round", "clear"}
      /\ run'[t].at = "round" => run'[t].ending = run[t].ending
      /\ run'[t].at = "clear" => run'[t].ending = "completed"
      /\ \A u \in Turn \ {t} : run'[u] = run[u]
  <2>1. CASE Goto(t, "round")
    BY <2>1, GoesTo DEF IInv, TypeOK, Place
  <2>2. CASE Finish(t, "clear", "completed", TRUE)
    BY <2>2, Finishes DEF IInv, TypeOK, Place, Ending
  <2> QED
    BY <2>1, <2>2 DEF Open
<1>2. Live(t) /\ Live(t)' /\ AnyLive' /\ run[t].ending = "none"
  BY <1>1 DEF Live, Inside, Open, At, AnyLive, IInv, Core, EndingsAreLate, Late
<1>3. NoSnap \in Snapshot /\ ~NoSnap.approval
  BY BoundsAreNaturals DEF NoSnap, Snapshot
<1>4. TypeOK'
  BY <1>1, <1>3 DEF IInv, TypeOK, Open, At
<1>5. Core'
  BY <1>1, <1>2, <1>4, TurnGoesOn DEF IInv, TypeOK, Open, Late
<1> QED
  BY <1>2, <1>4, <1>5, OthersUntouched DEF IInv, Open

\* The provider's answer, a write call, a request found at a checkpoint: the
\* turn begins to finish.
LEMMA RoundEndsInv ==
  ASSUME IInv, NEW t \in Turn, Answer(t) \/ Suspend(t) \/ Checkpoint(t)
  PROVE  IInv'
<1>1. PICK p \in {"note", "clear"}, e \in Ending, c \in BOOLEAN :
        /\ Finish(t, p, e, c)
        /\ e = "cancelled" => cancelReq
        /\ e = "paused" => pauseReq
  <2>1. CASE Answer(t)
    BY <2>1 DEF Answer, Ending
  <2>2. CASE Suspend(t)
    BY <2>2 DEF Suspend, Ending
  <2>3. CASE Checkpoint(t)
    BY <2>3 DEF Checkpoint, Ending
  <2> QED
    BY <2>1, <2>2, <2>3
<1>2. /\ run' \in [Turn -> Task]
      /\ run'[t].at = p /\ run'[t].ending = e
      /\ \A u \in Turn \ {t} : run'[u] = run[u]
  BY <1>1, Finishes DEF IInv, TypeOK, Place
<1>3. /\ UNCHANGED <<cancelReq, pauseReq, hard, marker, snap, stray, swept, sweep,
                     req, stream, asked, broken, cancels, faults>>
      /\ pending' \subseteq pending \cup {t} /\ run[t].at = "round" /\ ~hard
  BY DEF Answer, Suspend, Checkpoint, At
<1>4. Live(t) /\ Live(t)' /\ AnyLive'
  BY <1>2, <1>3 DEF Live, Inside, AnyLive
<1>5. TypeOK'
  BY <1>2, <1>3 DEF IInv, TypeOK
<1>6. Core'
  BY <1>1, <1>2, <1>3, <1>4, TurnGoesOn DEF IInv, TypeOK, Late
<1> QED
  BY <1>3, <1>4, <1>5, <1>6, OthersUntouched DEF IInv

LEMMA NoteInv == ASSUME IInv, NEW t \in Turn, Note(t) PROVE IInv'
<1>1. /\ run' \in [Turn -> Task]
      /\ run'[t].at = "clear" /\ run'[t].ending = run[t].ending
      /\ \A u \in Turn \ {t} : run'[u] = run[u]
  BY GoesTo DEF IInv, TypeOK, Note, Place
<1>2. Live(t) /\ Live(t)' /\ AnyLive'
  BY <1>1 DEF Live, Inside, Note, At, AnyLive
<1>3. snap' \in Snapshot /\ (snap'.approval => snap'.turn # 0)
  <2>1. run[t].covered \in BOOLEAN /\ t \in 0 .. MaxTurns /\ t # 0
    BY BoundsAreNaturals DEF IInv, TypeOK, Task, Turn
  <2> QED
    BY <2>1 DEF IInv, TypeOK, Snapshot, Note
<1>4. TypeOK'
  BY <1>1, <1>3 DEF IInv, TypeOK, Note, At
<1>5. Core'
  BY <1>1, <1>2, <1>4, TurnGoesOn DEF IInv, TypeOK, Note, Late
<1> QED
  BY <1>2, <1>4, <1>5, OthersUntouched DEF IInv, Note

LEMMA ClearInv == ASSUME IInv, NEW t \in Turn, Clear(t) PROVE IInv'
<1>1. /\ run' \in [Turn -> Task]
      /\ run'[t].at = "publish" /\ run'[t].ending = run[t].ending
      /\ \A u \in Turn \ {t} : run'[u] = run[u]
  BY GoesTo DEF IInv, TypeOK, Clear, Place
<1>2. Live(t) /\ Live(t)' /\ AnyLive'
  BY <1>1 DEF Live, Inside, Clear, At, AnyLive
<1>3. TypeOK'
  BY <1>1 DEF IInv, TypeOK, Clear, Marker, At
<1>4. Core'
  BY <1>1, <1>2, <1>3, TurnGoesOn DEF IInv, TypeOK, Clear, Late
<1> QED
  BY <1>2, <1>3, <1>4, OthersUntouched DEF IInv, Clear

LEMMA PublishInv == ASSUME IInv, NEW t \in Turn, Publish(t) PROVE IInv'
<1>1. run'[t] = Gone /\ \A u \in Turn \ {t} : run'[u] = run[u]
  BY DEF Publish, IInv, TypeOK
<1>2. run' \in [Turn -> Task]
  BY Tasks DEF Publish, IInv, TypeOK
<1>3. Live(t) /\ ~hard /\ ~hard' /\ marker' # "ours"
  BY DEF Publish, At, Live, Inside, IInv, Core, PublisherHasCleared
<1>4. TypeOK'
  BY <1>2, <1>3, Announces DEF IInv, TypeOK, Publish
<1>5. Core'
  BY <1>1, <1>3, TurnEnds DEF IInv, TypeOK, Publish
<1>6. HandlersWellFormed' /\ WaitingStreamHasPublisher'
  BY Announces DEF IInv, HandlersWellFormed, WaitingStreamHasPublisher, Publish
<1> QED
  BY <1>4, <1>5, <1>6 DEF IInv

LEMMA InterruptInv == ASSUME IInv, NEW t \in Turn, Interrupt(t) PROVE IInv'
<1>1. run' \in [Turn -> Task] /\ broken' \in BOOLEAN
  BY Raises DEF IInv, Interrupt
<1>2. stray' \subseteq Statement /\ faults' \in 0 .. MaxFaults
  BY AbandonTyped DEF IInv, Interrupt
<1>3. TypeOK'
  BY <1>1, <1>2 DEF IInv, TypeOK, Interrupt
<1>4. Core' /\ (AnyLive' \/ broken')
  BY RaisedKeepsCore DEF IInv, Interrupt
<1> QED
  BY <1>3, <1>4, OthersUntouched DEF IInv, Interrupt

\* An abandoned statement may leave a marker, but never as one of a turn.
LEMMA LandInv == ASSUME IInv, NEW x \in stray, Land(x) PROVE IInv'
<1>1. /\ UNCHANGED <<run, cancelReq, pauseReq, hard, swept, sweep, req, stream,
                     asked, broken, cancels, faults>>
      /\ marker' \in {marker, "none", "left"} /\ stray' \subseteq stray
  BY DEF Land
<1>2. /\ snap' \in Snapshot /\ (snap'.approval => snap'.turn # 0)
      /\ pending' \subseteq Turn
  <2>1. /\ x.turn \in Turn /\ x.snap \in Snapshot
        /\ x.snap.approval => x.snap.turn # 0
    BY DEF IInv, TypeOK, Statement
  <2>2. snap \in Snapshot /\ (snap.approval => snap.turn # 0) /\ pending \subseteq Turn
    BY DEF IInv, TypeOK
  <2> QED
    BY <2>1, <2>2 DEF Land
<1>3. TypeOK'
  BY <1>1, <1>2 DEF IInv, TypeOK, Marker
<1>4. /\ AnyLive' <=> AnyLive
      /\ \A t \in Turn : Live(t)' <=> Live(t)
  BY <1>1 DEF AnyLive, Live
<1>5. Core'
  BY <1>1, <1>4 DEF IInv, Core, OneLive, EndingsAreLate, FlagsWereAsked,
     SweepComesFirst, PublisherHasCleared, StopsWereAsked, MarkerIsExplained
<1>6. HandlersWellFormed' /\ WaitingStreamHasPublisher'
  BY <1>1, <1>4 DEF IInv, HandlersWellFormed, WaitingStreamHasPublisher
<1> QED
  BY <1>1, <1>3, <1>5, <1>6 DEF IInv

LEMMA FailsInv ==
  ASSUME IInv, NEW t \in Turn, ProviderFails(t) \/ StatementFails(t)
  PROVE  IInv'
<1>1. /\ Live(t) /\ ~hard /\ Raised(t, "failed")
      /\ UNCHANGED <<cancelReq, pauseReq, hard, marker, stray, swept, sweep, req,
                     stream, asked, cancels>>
  BY DEF ProviderFails, StatementFails, At, Live, Inside
<1>2. /\ snap' \in Snapshot /\ (snap'.approval => snap'.turn # 0)
      /\ pending' \subseteq Turn
  <2>1. CASE UNCHANGED <<snap, pending>>
    BY <2>1 DEF IInv, TypeOK
  <2>2. CASE Partly(t)
    BY <2>2, PartlyTyped DEF IInv
  <2> QED
    BY <2>1, <2>2 DEF ProviderFails, StatementFails
<1>3. faults' \in 0 .. MaxFaults
  BY BoundsAreNaturals DEF ProviderFails, StatementFails, IInv, TypeOK
<1>4. TypeOK'
  BY <1>1, <1>2, <1>3, Raises DEF IInv, TypeOK
<1>5. Core' /\ (AnyLive' \/ broken')
  BY <1>1, RaisedKeepsCore DEF IInv
<1> QED
  BY <1>1, <1>4, <1>5, OthersUntouched DEF IInv

\* An approval is decided, or a stream opens, replays, waits or closes.
LEMMA DecideInv == ASSUME IInv, NEW t \in Turn, Decide(t) PROVE IInv'
<1>1. TypeOK'
  BY DEF IInv, TypeOK, Decide
<1>2. Core' /\ (AnyLive' <=> AnyLive)
  BY CoreUntouched DEF IInv, Decide, coreVars
<1>3. HandlersWellFormed' /\ WaitingStreamHasPublisher'
  BY <1>2 DEF IInv, HandlersWellFormed, WaitingStreamHasPublisher, Decide
<1> QED
  BY <1>1, <1>2, <1>3 DEF IInv

LEMMA StreamInv ==
  ASSUME IInv, NEW s \in Stream, OpenStream(s) \/ StreamStep(s)
  PROVE  IInv'
<1>1. UNCHANGED <<run, cancelReq, pauseReq, hard, marker, snap, pending, stray,
                  swept, sweep, req, asked, broken, cancels, faults>>
  BY DEF OpenStream, StreamStep, Replay, Enter, CloseStream
<1>2. Core' /\ (AnyLive' <=> AnyLive)
  BY <1>1, CoreUntouched DEF IInv, coreVars
<1>3. \E r \in Reader :
        /\ stream' = [stream EXCEPT ![s] = r]
        /\ r.at \in {"enter", "wait"} /\ r.done = "no" =>
             AnyLive \/ broken \/ r.deaf
  <2>1. stream[s] \in Reader /\ Closed \in Reader
    BY DEF IInv, TypeOK, Closed, Reader, Listening
  <2>2. CASE OpenStream(s)
    <3>1. [Closed EXCEPT !.at = "replay"] \in Reader
      BY <2>1 DEF Reader, Listening
    <3>2. [Closed EXCEPT !.at = "replay"].at = "replay"
      BY DEF Closed
    <3> QED
      BY <2>2, <3>1, <3>2 DEF OpenStream
  <2>3. CASE Replay(s) /\ marker = "none"
    BY <2>1, <2>3 DEF Replay, Closed
  <2>4. CASE Replay(s) /\ marker # "none"
    <3> DEFINE r == [stream[s] EXCEPT !.at = "enter",
                                      !.deaf = (marker = "left" /\ ~AnyLive)]
    <3>1. marker = "left" \/ AnyLive \/ broken
      BY <2>4 DEF Replay, IInv, TypeOK, Marker, Core, MarkerIsExplained
    <3>2. (marker = "left" /\ ~AnyLive) \in BOOLEAN
      BY DEF AnyLive
    <3>3. r \in Reader
      BY <2>1, <3>2 DEF Reader, Listening
    <3>4. r.deaf = (marker = "left" /\ ~AnyLive)
      BY <2>1 DEF Reader
    <3>5. stream' = [stream EXCEPT ![s] = r]
      BY <2>4 DEF Replay
    <3> QED
      BY <3>1, <3>3, <3>4, <3>5
  <2>5. CASE Enter(s)
    <3>1. [stream[s] EXCEPT !.at = "wait"] \in Reader
      BY <2>1 DEF Reader, Listening
    <3>2. [stream[s] EXCEPT !.at = "wait"].done = "no" =>
            AnyLive \/ broken \/ [stream[s] EXCEPT !.at = "wait"].deaf
      BY <2>1, <2>5 DEF Enter, Reader, IInv, WaitingStreamHasPublisher
    <3> QED
      BY <2>5, <3>1, <3>2 DEF Enter
  <2>6. CASE CloseStream(s)
    BY <2>1, <2>6 DEF CloseStream, Closed
  <2> QED
    BY <2>2, <2>3, <2>4, <2>5, <2>6 DEF StreamStep
<1>4. TypeOK'
  BY <1>1, <1>3 DEF IInv, TypeOK
<1>5. WaitingStreamHasPublisher'
  BY <1>1, <1>2, <1>3 DEF IInv, TypeOK, WaitingStreamHasPublisher
<1> QED
  BY <1>1, <1>2, <1>4, <1>5 DEF IInv, HandlersWellFormed

\* A request takes one handler to its next await.
LEMMA HandlerMoves ==
  ASSUME IInv, NEW h \in Handler, NEW r \in Request,
         req' = [req EXCEPT ![h] = r], r.snap.approval => r.snap.turn # 0
  PROVE  req' \in [Handler -> Request] /\ HandlersWellFormed'
BY DEF IInv, TypeOK, HandlersWellFormed

LEMMA Requests ==
  ASSUME IInv, NEW h \in Handler
  PROVE  /\ req[h] \in Request /\ Idle \in Request /\ ~Idle.snap.approval
         /\ NoSnap \in Snapshot /\ ~NoSnap.approval
         /\ req[h].snap \in Snapshot
         /\ req[h].snap.approval => req[h].snap.turn \in Turn
<1>1. NoSnap \in Snapshot /\ ~NoSnap.approval
  BY BoundsAreNaturals DEF NoSnap, Snapshot
<1>2. req[h] \in Request /\ req[h].snap \in Snapshot
  BY DEF IInv, TypeOK, Request
<1>3. req[h].snap.approval => req[h].snap.turn \in Turn
  BY <1>2, BoundsAreNaturals DEF IInv, HandlersWellFormed, Snapshot, Turn
<1> QED
  BY <1>1, <1>2, <1>3 DEF Idle, Request

\* A cancel or a pause: the flag is raised, and it was asked of whoever runs.
LEMMA AskInv == ASSUME IInv, NEW h \in Handler, Cancel(h) \/ Pause(h) PROVE IInv'
<1>1. UNCHANGED <<run, marker, snap, pending, stray, swept, sweep, stream, broken,
                  faults>>
  BY DEF Cancel, Pause
<1>2. /\ AnyLive' <=> AnyLive
      /\ \A t \in Turn : Live(t)' <=> Live(t)
  BY <1>1 DEF AnyLive, Live
<1>3. \E p \in {"idle", "orphan", "freeze"} :
        req' = [req EXCEPT ![h] = [req[h] EXCEPT !.at = p]]
  <2>1. req = [req EXCEPT ![h] = [req[h] EXCEPT !.at = "idle"]] \/ req[h].at # "idle"
    BY Requests DEF IInv, TypeOK, Request
  <2> QED
    BY <2>1 DEF Cancel, Pause
<1>4. req' \in [Handler -> Request] /\ HandlersWellFormed'
  BY <1>3, Requests, HandlerMoves DEF Request, IInv, HandlersWellFormed
<1>5. /\ asked' \subseteq {"cancel", "pause"} /\ asked \subseteq asked'
      /\ cancelReq' \in BOOLEAN /\ pauseReq' \in BOOLEAN /\ hard' \in BOOLEAN
      /\ cancelReq' => cancelReq \/ "cancel" \in asked' \/ ~AnyLive
      /\ pauseReq' => pauseReq \/ "pause" \in asked' \/ ~AnyLive
      /\ hard' => hard \/ (AnyLive /\ "cancel" \in asked')
      /\ cancels' \in 0 .. MaxCancels
  <2>1. /\ asked \subseteq {"cancel", "pause"}
        /\ cancelReq \in BOOLEAN /\ pauseReq \in BOOLEAN /\ hard \in BOOLEAN
        /\ cancels \in 0 .. MaxCancels
    BY DEF IInv, TypeOK
  <2>2. CASE Cancel(h)
    <3>1. cancels' \in 0 .. MaxCancels
      BY <2>1, <2>2, BoundsAreNaturals DEF Cancel
    <3>2. AnyLive \in BOOLEAN /\ hard' \in BOOLEAN
      BY <2>2 DEF Cancel, AnyLive
    <3> QED
      BY <2>1, <2>2, <3>1, <3>2 DEF Cancel, AskLive
  <2>3. CASE Pause(h)
    BY <2>1, <2>3 DEF Pause, AskLive
  <2> QED
    BY <2>2, <2>3
<1>6. TypeOK'
  BY <1>1, <1>4, <1>5 DEF IInv, TypeOK, AnyLive, Live
<1>7. FlagsWereAsked' /\ StopsWereAsked'
  BY <1>1, <1>2, <1>5 DEF IInv, Core, FlagsWereAsked, StopsWereAsked
<1>8. Core'
  BY <1>1, <1>2, <1>7 DEF IInv, Core, OneLive, EndingsAreLate, SweepComesFirst,
     PublisherHasCleared, MarkerIsExplained
<1> QED
  BY <1>1, <1>2, <1>4, <1>6, <1>8 DEF IInv, WaitingStreamHasPublisher

\* A handler reads the marker, the approval or the snapshot it will act on.
LEMMA OrphanInv ==
  ASSUME IInv, NEW h \in Handler, ReadOrphan(h) \/ Freeze(h) \/ Resume(h)
  PROVE  IInv'
<1>1. UNCHANGED <<run, cancelReq, pauseReq, hard, marker, snap, pending, stray,
                  swept, sweep, stream, asked, broken, cancels, faults>>
  BY DEF ReadOrphan, Freeze, Resume
<1>2. \E r \in Request :
        req' = [req EXCEPT ![h] = r] /\ (r.snap.approval => r.snap.turn # 0)
  <2>1. CASE ReadOrphan(h)
    <3>1. \A p \in {"clear", "idle"} :
            /\ [req[h] EXCEPT !.at = p] \in Request
            /\ [req[h] EXCEPT !.at = p].snap = req[h].snap
      BY Requests DEF Request
    <3>2. req[h].snap.approval => req[h].snap.turn # 0
      BY DEF IInv, HandlersWellFormed
    <3> QED
      BY <2>1, <3>1, <3>2 DEF ReadOrphan
  <2>2. CASE Freeze(h)
    <3>1. \A t \in pending : /\ [turn |-> t, approval |-> TRUE] \in Snapshot
                             /\ t # 0
      BY BoundsAreNaturals DEF IInv, TypeOK, Turn, Snapshot
    <3>2. \A t \in pending :
            [at |-> "save", snap |-> [turn |-> t, approval |-> TRUE]] \in Request
      BY <3>1 DEF Request
    <3> QED
      BY <2>2, <3>1, <3>2, Requests DEF Freeze
  <2>3. CASE Resume(h)
    <3>1. [at |-> "consume", snap |-> snap] \in Request
      BY DEF IInv, TypeOK, Request
    <3> QED
      BY <2>3, <3>1 DEF Resume, IInv, TypeOK
  <2> QED
    BY <2>1, <2>2, <2>3
<1>3. req' \in [Handler -> Request] /\ HandlersWellFormed'
  BY <1>2, HandlerMoves
<1>4. TypeOK'
  BY <1>1, <1>3 DEF IInv, TypeOK
<1>5. Core' /\ (AnyLive' <=> AnyLive)
  BY <1>1, CoreUntouched DEF IInv, coreVars
<1>6. WaitingStreamHasPublisher'
  BY <1>1, <1>5 DEF IInv, WaitingStreamHasPublisher
<1> QED
  BY <1>3, <1>4, <1>5, <1>6 DEF IInv

\* The snapshot is written with its turn, or taken with its approval.
LEMMA SnapshotInv ==
  ASSUME IInv, NEW h \in Handler, SaveSnapshot(h) \/ Consume(h)
  PROVE  IInv'
<1>1. /\ UNCHANGED coreVars /\ cancels' = cancels /\ stray' = stray
      /\ req' = [req EXCEPT ![h] = Idle]
  BY DEF SaveSnapshot, Consume, coreVars
<1>2. req' \in [Handler -> Request] /\ HandlersWellFormed'
  BY <1>1, Requests, HandlerMoves
<1>3. /\ stream' \in [Stream -> Reader] /\ faults' \in 0 .. MaxFaults
      /\ \A s \in Stream :
           /\ stream'[s].at = stream[s].at /\ stream'[s].deaf = stream[s].deaf
           /\ stream'[s].done = "no" => stream[s].at = "closed" \/ stream[s].done = "no"
  <2>1. CASE SaveSnapshot(h)
    BY <2>1, Announces DEF SaveSnapshot, IInv
  <2>2. CASE Consume(h)
    BY <2>2 DEF Consume, IInv, TypeOK
  <2> QED
    BY <2>1, <2>2
<1>4. /\ snap' \in Snapshot /\ (snap'.approval => snap'.turn # 0)
      /\ pending' \subseteq Turn
  <2>1. CASE SaveSnapshot(h)
    BY <2>1, Requests DEF SaveSnapshot, IInv, TypeOK, HandlersWellFormed
  <2>2. CASE Consume(h)
    BY <2>2, Requests DEF Consume, IInv, TypeOK
  <2> QED
    BY <2>1, <2>2
<1>5. TypeOK'
  BY <1>1, <1>2, <1>3, <1>4 DEF IInv, TypeOK, coreVars
<1>6. Core' /\ (AnyLive' <=> AnyLive)
  BY <1>1, CoreUntouched DEF IInv
<1>7. WaitingStreamHasPublisher'
  BY <1>1, <1>3, <1>6 DEF IInv, WaitingStreamHasPublisher, coreVars
<1> QED
  BY <1>2, <1>5, <1>6, <1>7 DEF IInv

\* An orphaned marker is deleted, be it of a turn that has started since.
LEMMA ClearOrphanInv == ASSUME IInv, NEW h \in Handler, ClearOrphan(h) PROVE IInv'
<1>1. /\ UNCHANGED <<run, cancelReq, pauseReq, hard, snap, pending, stray, swept,
                     sweep, asked, broken, cancels>>
      /\ marker' = "none" /\ req' = [req EXCEPT ![h] = Idle]
  BY DEF ClearOrphan
<1>2. req' \in [Handler -> Request] /\ HandlersWellFormed'
  BY <1>1, Requests, HandlerMoves
<1>3. TypeOK'
  BY <1>1, <1>2, Announces DEF IInv, TypeOK, ClearOrphan, Marker
<1>4. Core'
  BY <1>1 DEF IInv, Core, OneLive, EndingsAreLate, FlagsWereAsked, SweepComesFirst,
     PublisherHasCleared, StopsWereAsked, MarkerIsExplained, AnyLive, Live
<1>5. WaitingStreamHasPublisher'
  BY Announces DEF IInv, WaitingStreamHasPublisher, ClearOrphan
<1> QED
  BY <1>2, <1>3, <1>4, <1>5 DEF IInv

\* The sweep runs before anything of this process does, so the marker it
\* deletes is of an earlier one.
LEMMA SweepInv == ASSUME IInv, Sweep \/ SweepClear PROVE IInv'
<1>1. /\ UNCHANGED <<run, cancelReq, pauseReq, hard, snap, pending, stray, req,
                     stream, asked, broken, cancels, faults>>
      /\ ~swept
      /\ \/ swept' = TRUE /\ marker' # "old" /\ sweep' = "idle"
         \/ swept' = FALSE /\ sweep' = "clear" /\ marker' = marker
      /\ marker' \in {marker, "none"}
  BY DEF Sweep, SweepClear, IInv, TypeOK, Core, SweepComesFirst
<1>2. /\ AnyLive' <=> AnyLive
      /\ \A t \in Turn : Live(t)' <=> Live(t)
  BY <1>1 DEF AnyLive, Live
<1>3. TypeOK'
  BY <1>1 DEF IInv, TypeOK, Marker
<1>4. Core'
  BY <1>1, <1>2 DEF IInv, Core, OneLive, EndingsAreLate, FlagsWereAsked,
     SweepComesFirst, PublisherHasCleared, StopsWereAsked, MarkerIsExplained
<1>5. HandlersWellFormed' /\ WaitingStreamHasPublisher'
  BY <1>1, <1>2 DEF IInv, HandlersWellFormed, WaitingStreamHasPublisher
<1> QED
  BY <1>3, <1>4, <1>5 DEF IInv

\* A shutdown: turns that wait are gone, and the live one is cancelled.
LEMMA ShutdownInv == ASSUME IInv, Shutdown PROVE IInv'
<1>1. /\ run' \in [Turn -> Task]
      /\ \A t \in Turn : run'[t] = run[t] \/ (run[t].at = "queued" /\ run'[t] = Gone)
      /\ \A t \in Turn : run'[t].at = "queued" => FALSE
  BY Tasks DEF Shutdown, IInv, TypeOK, Gone
<1>2. /\ AnyLive' <=> AnyLive
      /\ \A t \in Turn : Live(t)' <=> Live(t)
  BY <1>1 DEF AnyLive, Live, Inside, Gone
<1>3. UNCHANGED <<cancelReq, pauseReq, marker, snap, pending, stray, swept, sweep,
                  req, stream, broken, faults>>
  BY DEF Shutdown
<1>4. /\ cancels' \in 0 .. MaxCancels
      /\ asked' \subseteq {"cancel", "pause"} /\ asked \subseteq asked'
      /\ hard' \in BOOLEAN /\ (hard' => hard \/ AnyLive)
      /\ AnyLive => "cancel" \in asked'
  <2>1. cancels' \in 0 .. MaxCancels
    BY BoundsAreNaturals DEF Shutdown, IInv, TypeOK
  <2>2. AnyLive \in BOOLEAN /\ hard \in BOOLEAN
    BY DEF IInv, TypeOK, AnyLive
  <2> QED
    BY <2>1, <2>2 DEF Shutdown, AskLive, IInv, TypeOK
<1>5. TypeOK'
  <2>1. hard' => \E t \in Turn : run'[t].at \in Inside
    BY <1>2, <1>4 DEF IInv, TypeOK, AnyLive, Live
  <2> QED
    BY <1>1, <1>3, <1>4, <2>1 DEF IInv, TypeOK
<1>6. OneLive' /\ EndingsAreLate' /\ PublisherHasCleared' /\ StopsWereAsked'
  BY <1>1, <1>2, <1>3, <1>4 DEF IInv, Core, OneLive, EndingsAreLate,
     PublisherHasCleared, StopsWereAsked, Gone
<1>7. FlagsWereAsked'
  BY <1>2, <1>3, <1>4 DEF IInv, Core, FlagsWereAsked
<1>8. SweepComesFirst' /\ MarkerIsExplained'
  BY <1>1, <1>2, <1>3 DEF IInv, Core, SweepComesFirst, MarkerIsExplained
<1>9. HandlersWellFormed' /\ WaitingStreamHasPublisher'
  BY <1>2, <1>3 DEF IInv, HandlersWellFormed, WaitingStreamHasPublisher
<1> QED
  BY <1>5, <1>6, <1>7, <1>8, <1>9 DEF IInv, Core

\* A restart: nothing is live, and a marker is now of an earlier process.
LEMMA CrashInv == ASSUME IInv, Crash PROVE IInv'
<1>1. /\ run' \in [Turn -> Task]
      /\ \A t \in Turn : \/ run'[t] = Gone
                         \/ run'[t] = run[t] /\ ~Live(t) /\ run[t].at # "queued"
  BY Tasks DEF Crash, IInv, TypeOK
<1>2. ~AnyLive' /\ \A t \in Turn : ~Live(t)' /\ run'[t].at # "queued"
  BY <1>1 DEF AnyLive, Live, Gone, Inside
<1>3. \A t \in Turn : run'[t].ending = "none"
  BY <1>1 DEF Gone, IInv, Core, EndingsAreLate, Late, Live, Inside
<1>4. Idle \in Request /\ ~Idle.snap.approval /\ Closed \in Reader
  <2>1. NoSnap \in Snapshot /\ ~NoSnap.approval
    BY BoundsAreNaturals DEF NoSnap, Snapshot
  <2> QED
    BY <2>1 DEF Idle, Request, Closed, Reader, Listening
<1>5. TypeOK'
  <2>1. faults' \in 0 .. MaxFaults
    BY BoundsAreNaturals DEF Crash, IInv, TypeOK
  <2>2. req' \in [Handler -> Request] /\ stream' \in [Stream -> Reader]
    BY <1>4 DEF Crash
  <2> QED
    BY <1>1, <2>1, <2>2 DEF Crash, IInv, TypeOK, Marker
<1>6. OneLive' /\ EndingsAreLate' /\ PublisherHasCleared'
  BY <1>2, <1>3 DEF OneLive, EndingsAreLate, PublisherHasCleared, Live, Inside
<1>7. FlagsWereAsked' /\ StopsWereAsked' /\ SweepComesFirst' /\ MarkerIsExplained'
  BY <1>2, <1>3 DEF FlagsWereAsked, StopsWereAsked, SweepComesFirst,
     MarkerIsExplained, Crash
<1>8. HandlersWellFormed' /\ WaitingStreamHasPublisher'
  BY <1>4 DEF HandlersWellFormed, WaitingStreamHasPublisher, Crash, Closed
<1> QED
  BY <1>5, <1>6, <1>7, <1>8 DEF IInv, Core

LEMMA StutterInv == ASSUME IInv, UNCHANGED vars PROVE IInv'
<1>1. TypeOK'
  BY DEF IInv, TypeOK, vars
<1>2. Core' /\ (AnyLive' <=> AnyLive)
  BY CoreUntouched DEF IInv, vars, coreVars
<1>3. HandlersWellFormed' /\ WaitingStreamHasPublisher'
  BY <1>2 DEF IInv, HandlersWellFormed, WaitingStreamHasPublisher, vars
<1> QED
  BY <1>1, <1>2, <1>3 DEF IInv

LEMMA StepIInv == IInv /\ [Next]_vars => IInv'
<1> SUFFICES ASSUME IInv, [Next]_vars PROVE IInv'
  OBVIOUS
<1>1. ASSUME NEW t \in Turn, Post(t) \/ TurnStep(t) \/ StatementFails(t) \/ Decide(t)
      PROVE  IInv'
  BY <1>1, PostInv, StartInv, MarkInv, OpenInv, RoundEndsInv, NoteInv, ClearInv,
     PublishInv, InterruptInv, FailsInv, DecideInv DEF TurnStep
<1>2. ASSUME NEW h \in Handler, Cancel(h) \/ Pause(h) \/ Resume(h) \/ HandlerStep(h)
      PROVE  IInv'
  BY <1>2, AskInv, OrphanInv, SnapshotInv, ClearOrphanInv DEF HandlerStep
<1>3. ASSUME NEW s \in Stream, OpenStream(s) \/ StreamStep(s) PROVE IInv'
  BY <1>3, StreamInv
<1> QED
  BY <1>1, <1>2, <1>3, LandInv, SweepInv, ShutdownInv, CrashInv, StutterInv DEF Next

-----------------------------------------------------------------------------
(* The theorems. *)

\* What each place of a turn, of the handlers and of the sweep owes the others
\* holds whatever is cancelled, fails or restarts (agent.py, _managed_turn).
THEOREM TurnInvariant == Spec => []IInv
<1> QED
  BY InitIInv, StepIInv, PTL DEF Spec

\* Every variable keeps its type; a task is cancelled only while it is live.
THEOREM TurnTypeCorrect == Spec => []TypeOK
<1>1. IInv => TypeOK
  BY DEF IInv
<1> QED
  BY <1>1, TurnInvariant, PTL

\* However many cancels and pauses arrive, and whenever: a turn is cancelled or
\* paused only by a request made while it was live (_managed_turn discards the
\* earlier ones when it gets the lock).
THEOREM StopsAreAsked == Spec => []StopsWereAsked
<1>1. IInv => StopsWereAsked
  BY DEF IInv, Core
<1> QED
  BY <1>1, TurnInvariant, PTL

\* A marker that a turn wrote outlives it only when an except clause was
\* interrupted, or with its process; and of those left by an earlier process the
\* sweep spares at most the one of its own first second (_managed_turn,
\* ensure_swept).  Statements that land after their cancellation are in the model.
THEOREM MarkersAreExplained == Spec => []MarkerIsExplained
<1>1. IInv => MarkerIsExplained
  BY DEF IInv, Core
<1> QED
  BY <1>1, TurnInvariant, PTL

\* The restart sweep, which reads a marker and deletes it an await later, never
\* deletes one that a turn of this process wrote (ensure_swept).
THEOREM SweepSparesMarkers == Spec => []SweepSparesLiveTurns
<1>1. IInv => SweepSparesLiveTurns
  BY DEF IInv, Core, SweepComesFirst, SweepSparesLiveTurns
<1> QED
  BY <1>1, TurnInvariant, PTL

\* A stream never waits for an event that was published before it subscribed:
\* it has been told, or a turn is live that will tell it (stream_events).
THEOREM StreamsHavePublisher == Spec => []WaitingStreamHasPublisher
<1>1. IInv => WaitingStreamHasPublisher
  BY DEF IInv
<1> QED
  BY <1>1, TurnInvariant, PTL

=============================================================================
