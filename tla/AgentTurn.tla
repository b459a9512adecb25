------------------------------ MODULE AgentTurn ------------------------------
(***************************************************************************)
(* The life of the turns of one conversation: services/bff/src/lumirss     *)
(* agent.py (_managed_turn and what it calls), the run marker, the sweep   *)
(* and the pause snapshot of agent_store.py, and the message, cancel,      *)
(* pause, resume and event-stream handlers of routers/agent.py.            *)
(*                                                                         *)
(* The loop keeps lock, task, flags and subscribers per conversation, so   *)
(* one conversation is enough.  A place below is an await: a request to    *)
(* cancel makes the await raise, and where that happens decides whether    *)
(* _managed_turn still handles it.  What a turn does with its approvals is *)
(* the subject of AgentApproval; here an approval is pending or decided.   *)
(***************************************************************************)
EXTENDS Naturals, FiniteSets

CONSTANTS
  MaxTurns,    \* bound: messages posted
  Handler,     \* cancel, pause and resume handlers in flight
  Stream,      \* open event streams
  MaxCancels,  \* bound: cancel requests
  MaxFaults    \* bound: failed and abandoned statements,
               \* overflowing queues and restarts

ASSUME BoundsAreNaturals ==
  MaxTurns \in Nat /\ MaxCancels \in Nat /\ MaxFaults \in Nat

VARIABLES
  run,        \* the turn tasks
  cancelReq,  \* the conversation is in _cancel_requested
  pauseReq,   \* the conversation is in _pause_requested
  hard,       \* task.cancel() has been called, the await has yet to raise
  marker,     \* lumi_settings agent_run:<thread>, and who wrote it
  snap,       \* agent_threads.paused_state_json
  pending,    \* turns suspended on a pending approval
  stray,      \* statements that outlive the await that was cancelled
  swept,      \* AgentStore._swept
  sweep,      \* ensure_swept at work
  req,        \* the handlers
  stream,     \* the event streams
  asked,      \* history: what was requested of the live turn
  broken,     \* history: a turn was interrupted while it was finishing
  cancels,
  faults

vars == <<run, cancelReq, pauseReq, hard, marker, snap, pending, stray, swept,
          sweep, req, stream, asked, broken, cancels, faults>>

Turn == 1 .. MaxTurns

(* The awaits of a turn.  "mark": writing the run marker; "open": dropping  *)
(* the snapshot and appending the user message; "round": provider and       *)
(* tools; "note": the last message or the snapshot; "clear": deleting the   *)
(* marker; "publish": deleted, turn_done to be published.  A turn that      *)
(* finishes inside the try block of _managed_turn is `covered' by its       *)
(* except clauses, one that finishes in an except clause is not.            *)
Place == {"none", "queued", "mark", "open", "round", "note", "clear",
          "publish", "over"}
Inside == {"mark", "open", "round", "note", "clear", "publish"}
Ending == {"none", "completed", "awaiting", "paused", "cancelled", "failed"}
Task == [at : Place, ending : Ending, covered : BOOLEAN]
NoTask == [at |-> "none", ending |-> "none", covered |-> FALSE]
Gone == [at |-> "over", ending |-> "none", covered |-> FALSE]

Snapshot == [turn : 0 .. MaxTurns, approval : BOOLEAN]
NoSnap == [turn |-> 0, approval |-> FALSE]

\* A statement that was given to a thread (Database._run, asyncio.to_thread):
\* whose it is, of which place, and the snapshot it writes.
Statement ==
  {x \in [turn : Turn, at : {"mark", "open", "round", "note", "clear"}, snap : Snapshot] :
     x.snap.approval => x.snap.turn # 0}

Request == [at : {"idle", "orphan", "clear", "freeze", "save", "consume"}, snap : Snapshot]
Idle == [at |-> "idle", snap |-> NoSnap]

Listening == {"replay", "enter", "wait"}
\* `deaf`: no turn was live when the stream replayed a left-over marker.
Reader == [at : {"closed"} \cup Listening, done : {"no", "queued", "dropped"},
           deaf : BOOLEAN]
Closed == [at |-> "closed", done |-> "no", deaf |-> FALSE]

(* Whose the marker is: "ours", of a turn of this process, written by the   *)
(* turn itself; "old", of an earlier process; "left", of a turn that is     *)
(* over when it lands, or of an earlier process but of the very second in   *)
(* which this one began (_PROCESS_START has no fractions).                  *)
Marker == {"none", "ours", "old", "left"}

TypeOK ==
  /\ run \in [Turn -> Task]
  /\ cancelReq \in BOOLEAN /\ pauseReq \in BOOLEAN /\ hard \in BOOLEAN
  /\ marker \in Marker
  /\ snap \in Snapshot /\ (snap.approval => snap.turn # 0)
  /\ pending \subseteq Turn /\ stray \subseteq Statement
  /\ swept \in BOOLEAN /\ sweep \in {"idle", "clear"}
  /\ req \in [Handler -> Request]
  /\ stream \in [Stream -> Reader]
  /\ asked \subseteq {"cancel", "pause"}
  /\ broken \in BOOLEAN /\ (hard => \E t \in Turn : run[t].at \in Inside)
  /\ cancels \in 0 .. MaxCancels /\ faults \in 0 .. MaxFaults

Init ==
  /\ run = [t \in Turn |-> NoTask]
  /\ cancelReq = FALSE /\ pauseReq = FALSE /\ hard = FALSE
  /\ marker = "none" /\ snap = NoSnap /\ pending = {} /\ stray = {}
  /\ swept = FALSE /\ sweep = "idle"
  /\ req = [h \in Handler |-> Idle]
  /\ stream = [s \in Stream |-> Closed]
  /\ asked = {}
  /\ broken = FALSE
  /\ cancels = 0 /\ faults = 0

Live(t) == run[t].at \in Inside
AnyLive == \E t \in Turn : Live(t)

\* (A fault, for mutation checks: a cancellation is swallowed.)
AtDeaf(t, place) == run[t].at = place

\* Turn t goes on, unless a cancellation waits to be raised.
At(t, place) == run[t].at = place /\ ~hard

Goto(t, place) == run' = [run EXCEPT ![t].at = place]

\* A turn finishes with ending e, in the try block or in an except clause.
Finishing(place, e, covered) == [at |-> place, ending |-> e, covered |-> covered]
Finish(t, place, e, covered) == run' = [run EXCEPT ![t] = Finishing(place, e, covered)]

-----------------------------------------------------------------------------
(* Messages, the restart sweep, and the lock *)

\* (A fault, for mutation checks: a message does not wait for the sweep.)
PostUnswept(t) ==
  /\ pending = {}
  /\ run[t].at = "none" /\ \A u \in Turn : u < t => run[u].at # "none"
  /\ Goto(t, "queued")
  /\ UNCHANGED <<cancelReq, pauseReq, hard, marker, snap, pending, stray, swept,
                 sweep, req, stream, asked, broken, cancels, faults>>

\* post_message: a task is queued unless an approval is pending.
Post(t) ==
  /\ swept /\ pending = {}
  /\ run[t].at = "none" /\ \A u \in Turn : u < t => run[u].at # "none"
  /\ Goto(t, "queued")
  /\ UNCHANGED <<cancelReq, pauseReq, hard, marker, snap, pending, stray, swept,
                 sweep, req, stream, asked, broken, cancels, faults>>

\* ensure_swept, once per process: a marker from before its first second is
\* read, any other is taken for a live turn's and left ...
Sweep ==
  /\ ~swept /\ sweep = "idle"
  /\ IF marker = "old" THEN sweep' = "clear" /\ UNCHANGED swept
                       ELSE swept' = TRUE /\ UNCHANGED sweep
  /\ UNCHANGED <<run, cancelReq, pauseReq, hard, marker, snap, pending, stray,
                 req, stream, asked, broken, cancels, faults>>

\* ... and, after the notice in the transcript, deleted.
SweepClear ==
  /\ sweep = "clear"
  /\ marker' = "none" /\ swept' = TRUE /\ sweep' = "idle"
  /\ UNCHANGED <<run, cancelReq, pauseReq, hard, snap, pending, stray, req,
                 stream, asked, broken, cancels, faults>>

\* (A fault, for mutation checks: old requests are not discarded.)
StartKeepingRequests(t) ==
  /\ run[t].at = "queued" /\ ~AnyLive
  /\ \A u \in Turn : u < t => run[u].at # "queued"
  /\ asked' = {} /\ Goto(t, "mark")
  /\ UNCHANGED <<cancelReq, pauseReq, hard, marker, snap, pending, stray, swept,
                 sweep, req, stream, broken, cancels, faults>>

\* (A fault, for mutation checks: a turn waits until no marker stands.)
StartUnmarked(t) ==
  /\ run[t].at = "queued" /\ ~AnyLive /\ marker = "none"
  /\ \A u \in Turn : u < t => run[u].at # "queued"
  /\ cancelReq' = FALSE /\ pauseReq' = FALSE /\ asked' = {}
  /\ Goto(t, "mark")
  /\ UNCHANGED <<hard, marker, snap, pending, stray, swept, sweep, req, stream,
                 broken, cancels, faults>>

\* The lock goes to the task that has waited longest; requests made before are
\* not for this turn.
Start(t) ==
  /\ run[t].at = "queued" /\ ~AnyLive
  /\ \A u \in Turn : u < t => run[u].at # "queued"
  /\ cancelReq' = FALSE /\ pauseReq' = FALSE /\ asked' = {}
  /\ Goto(t, "mark")
  /\ UNCHANGED <<hard, marker, snap, pending, stray, swept, sweep, req, stream,
                 broken, cancels, faults>>

-----------------------------------------------------------------------------
(* The turn *)

Mark(t) ==
  /\ At(t, "mark")
  /\ marker' = "ours"
  /\ Goto(t, "open")
  /\ UNCHANGED <<cancelReq, pauseReq, hard, snap, pending, stray, swept, sweep,
                 req, stream, asked, broken, cancels, faults>>

\* The snapshot is dropped and the message appended; an exhausted budget ends
\* the turn here.
Open(t) ==
  /\ At(t, "open")
  /\ snap' = NoSnap
  /\ \/ Goto(t, "round")
     \/ Finish(t, "clear", "completed", TRUE)
  /\ UNCHANGED <<cancelReq, pauseReq, hard, marker, pending, stray, swept,
                 sweep, req, stream, asked, broken, cancels, faults>>

\* The provider answers without tool calls, or the rounds are used up.
Answer(t) ==
  /\ At(t, "round")
  /\ Finish(t, "clear", "completed", TRUE)
  /\ UNCHANGED <<cancelReq, pauseReq, hard, marker, snap, pending, stray, swept,
                 sweep, req, stream, asked, broken, cancels, faults>>

\* A write call suspends the turn; a pause requested meanwhile freezes it with
\* its approval.
Suspend(t) ==
  /\ At(t, "round")
  /\ pending' = pending \cup {t}
  /\ IF pauseReq THEN Finish(t, "note", "paused", TRUE)
                 ELSE Finish(t, "clear", "awaiting", TRUE)
  /\ UNCHANGED <<cancelReq, pauseReq, hard, marker, snap, stray, swept, sweep,
                 req, stream, asked, broken, cancels, faults>>

\* _check_cancel and _check_pause, before a round and before a tool.
Checkpoint(t) ==
  /\ At(t, "round")
  /\ \/ cancelReq /\ Finish(t, "note", "cancelled", FALSE)
     \/ ~cancelReq /\ pauseReq /\ Finish(t, "note", "paused", FALSE)
  /\ UNCHANGED <<cancelReq, pauseReq, hard, marker, snap, pending, stray, swept,
                 sweep, req, stream, asked, broken, cancels, faults>>

\* The last message of the turn; or the snapshot of _finalize_paused.
Note(t) ==
  /\ At(t, "note")
  /\ snap' = IF run[t].ending = "paused"
               THEN [turn |-> t, approval |-> run[t].covered] ELSE snap
  /\ Goto(t, "clear")
  /\ UNCHANGED <<cancelReq, pauseReq, hard, marker, pending, stray, swept,
                 sweep, req, stream, asked, broken, cancels, faults>>

\* (A fault, for mutation checks: a paused turn leaves its marker.)
ClearUnlessPaused(t) ==
  /\ At(t, "clear")
  /\ marker' = IF run[t].ending = "paused" THEN marker ELSE "none"
  /\ Goto(t, "publish")
  /\ UNCHANGED <<cancelReq, pauseReq, hard, snap, pending, stray, swept, sweep,
                 req, stream, asked, broken, cancels, faults>>

Clear(t) ==
  /\ At(t, "clear")
  /\ marker' = "none"
  /\ Goto(t, "publish")
  /\ UNCHANGED <<cancelReq, pauseReq, hard, snap, pending, stray, swept, sweep,
                 req, stream, asked, broken, cancels, faults>>

\* (A fault, for mutation checks: a stream subscribes once it has replayed.)
ToldLate(dropped) ==
  [s \in Stream |->
     IF stream[s].at # "wait" THEN stream[s]
     ELSE [stream[s] EXCEPT !.done = IF s \in dropped THEN "dropped" ELSE "queued"]]

\* turn_done reaches every subscriber but those whose queue is full.
Told(dropped) ==
  [s \in Stream |->
     IF stream[s].at = "closed" THEN stream[s]
     ELSE [stream[s] EXCEPT !.done = IF s \in dropped THEN "dropped" ELSE "queued"]]

\* Nobody misses the event, unless a queue has overflowed.
Announce ==
  \/ stream' = Told({}) /\ UNCHANGED faults
  \/ /\ faults < MaxFaults /\ faults' = faults + 1
     /\ \E s \in Stream : stream[s].at # "closed" /\ stream' = Told({s})

\* turn_done; the task is over and the lock free.  _finalize_paused has taken
\* back the request.
Publish(t) ==
  /\ At(t, "publish")
  /\ run' = [run EXCEPT ![t] = Gone]
  /\ pauseReq' = (pauseReq /\ run[t].ending # "paused")
  /\ Announce
  /\ UNCHANGED <<cancelReq, hard, marker, snap, pending, stray, swept, sweep,
                 req, asked, broken, cancels>>

-----------------------------------------------------------------------------
(* Cancellations and exceptions *)

\* Some places stand for several statements: the first of them have run.
Partly(t) ==
  \/ UNCHANGED <<snap, pending>>
  \/ run[t].at = "open" /\ snap' = NoSnap /\ UNCHANGED pending
  \/ run[t].at = "round" /\ pending' = pending \cup {t} /\ UNCHANGED snap

\* The statement turn t waits for.  (A marker that stands is updated, which an
\* abandoned statement does to no effect.)
Awaited(t) ==
  {x \in Statement :
     /\ x.turn = t /\ x.at = run[t].at
     /\ x.at = "mark" => marker = "none"
     /\ IF x.at = "note"
          THEN /\ run[t].ending = "paused"
               /\ x.snap = [turn |-> t, approval |-> run[t].covered]
          ELSE x.snap = NoSnap}

\* The await that raises leaves its statement undone, or (counted as a fault, to
\* bound it) running in its thread.
Abandon(t) ==
  \/ UNCHANGED <<stray, faults>>
  \/ /\ faults < MaxFaults /\ faults' = faults + 1
     /\ \E x \in Awaited(t) : stray' = stray \cup {x}

\* An abandoned statement commits, at once or after whatever came since.  (An
\* INSERT of the marker that finds one fails, and nobody is told.)
Land(x) ==
  /\ x \in stray /\ stray' = stray \ {x}
  /\ marker' = IF x.at = "mark" /\ marker = "none" THEN "left"
               ELSE IF x.at = "clear" THEN "none" ELSE marker
  /\ snap' = IF x.at \in {"open", "note"} THEN x.snap ELSE snap
  /\ pending' = IF x.at = "round" THEN pending \cup {x.turn} ELSE pending
  /\ UNCHANGED <<run, cancelReq, pauseReq, hard, swept, sweep, req, stream,
                 asked, broken, cancels, faults>>

\* Within the try block of _managed_turn.
Covered(t) == run[t].at \in {"mark", "open", "round"} \/ run[t].covered

\* An except clause finishes the turn as cancelled or failed; an exception in
\* an except clause ends the task, and the lock is free.
Raised(t, e) ==
  IF Covered(t) THEN Finish(t, "note", e, FALSE) /\ UNCHANGED broken
                ELSE run' = [run EXCEPT ![t] = Gone] /\ broken' = TRUE

\* task.cancel() makes the await raise.
Interrupt(t) ==
  /\ hard /\ Live(t)
  /\ Abandon(t)
  /\ Raised(t, "cancelled")
  /\ hard' = FALSE
  /\ UNCHANGED <<cancelReq, pauseReq, marker, snap, pending, swept, sweep, req,
                 stream, asked, cancels>>

\* No provider, or the provider or a tool fails.
ProviderFails(t) ==
  /\ At(t, "round")
  /\ Raised(t, "failed")
  /\ UNCHANGED <<cancelReq, pauseReq, hard, marker, snap, pending, stray, swept,
                 sweep, req, stream, asked, cancels, faults>>

\* A statement raises, and those before it have run.
StatementFails(t) ==
  /\ Live(t) /\ ~hard /\ run[t].at # "publish"
  /\ faults < MaxFaults /\ faults' = faults + 1
  /\ Partly(t)
  /\ Raised(t, "failed")
  /\ UNCHANGED <<cancelReq, pauseReq, hard, marker, stray, swept, sweep, req,
                 stream, asked, cancels>>

-----------------------------------------------------------------------------
(* Cancel, pause, resume *)

AskLive(what) == asked' = IF AnyLive THEN asked \cup {what} ELSE asked

\* cancel_turn: the flag, and the task if there is one.
Cancel(h) ==
  /\ req[h].at = "idle" /\ cancels < MaxCancels
  /\ cancels' = cancels + 1
  /\ cancelReq' = TRUE
  /\ hard' = (hard \/ AnyLive)
  /\ AskLive("cancel")
  /\ req' = IF AnyLive THEN req ELSE [req EXCEPT ![h].at = "orphan"]
  /\ UNCHANGED <<run, pauseReq, marker, snap, pending, stray, swept, sweep,
                 stream, broken, faults>>

\* Nothing was running: a marker that is there is taken for an orphan ...
ReadOrphan(h) ==
  /\ req[h].at = "orphan"
  /\ req' = [req EXCEPT ![h].at = IF marker # "none" THEN "clear" ELSE "idle"]
  /\ UNCHANGED <<run, cancelReq, pauseReq, hard, marker, snap, pending, stray,
                 swept, sweep, stream, asked, broken, cancels, faults>>

\* ... and deleted, and the streams are told.
ClearOrphan(h) ==
  /\ req[h].at = "clear"
  /\ marker' = "none"
  /\ req' = [req EXCEPT ![h] = Idle]
  /\ Announce
  /\ UNCHANGED <<run, cancelReq, pauseReq, hard, snap, pending, stray, swept,
                 sweep, asked, broken, cancels>>

\* pause_turn: the flag, for the turn that runs ...
Pause(h) ==
  /\ req[h].at = "idle"
  /\ pauseReq' = TRUE
  /\ AskLive("pause")
  /\ req' = IF AnyLive THEN req ELSE [req EXCEPT ![h].at = "freeze"]
  /\ UNCHANGED <<run, cancelReq, hard, marker, snap, pending, stray, swept,
                 sweep, stream, broken, cancels, faults>>

\* ... and when none did, the approval it waits for, if any, is to be frozen.
Freeze(h) ==
  /\ req[h].at = "freeze"
  /\ \/ pending = {} /\ req' = [req EXCEPT ![h] = Idle]
     \/ \E t \in pending :
          req' = [req EXCEPT ![h] = [at |-> "save",
                                     snap |-> [turn |-> t, approval |-> TRUE]]]
  /\ UNCHANGED <<run, cancelReq, pauseReq, hard, marker, snap, pending, stray,
                 swept, sweep, stream, asked, broken, cancels, faults>>

SaveSnapshot(h) ==
  /\ req[h].at = "save"
  /\ snap' = req[h].snap
  /\ req' = [req EXCEPT ![h] = Idle]
  /\ Announce
  /\ UNCHANGED <<run, cancelReq, pauseReq, hard, marker, pending, stray, swept,
                 sweep, asked, broken, cancels>>

Resume(h) ==
  /\ req[h].at = "idle" /\ snap # NoSnap
  /\ req' = [req EXCEPT ![h] = [at |-> "consume", snap |-> snap]]
  /\ UNCHANGED <<run, cancelReq, pauseReq, hard, marker, snap, pending, stray,
                 swept, sweep, stream, asked, broken, cancels, faults>>

\* resume_prepare consumes the snapshot.  An approval that is pending waits for
\* the user, an expired one is minted again; otherwise the route calls
\* start_resume, a coroutine it does not await, and fails on its result: no
\* task is started.
Consume(h) ==
  /\ req[h].at = "consume"
  /\ snap' = NoSnap
  /\ \/ UNCHANGED pending
     \/ /\ req[h].snap.approval /\ req[h].snap.turn \notin pending
        /\ pending' = pending \cup {req[h].snap.turn}
  /\ req' = [req EXCEPT ![h] = Idle]
  /\ UNCHANGED <<run, cancelReq, pauseReq, hard, marker, stray, swept, sweep,
                 stream, asked, broken, cancels, faults>>

\* An approval is approved, rejected or expires.
Decide(t) ==
  /\ t \in pending
  /\ pending' = pending \ {t}
  /\ UNCHANGED <<run, cancelReq, pauseReq, hard, marker, snap, stray, swept,
                 sweep, req, stream, asked, broken, cancels, faults>>

-----------------------------------------------------------------------------
(* The event stream *)

\* The handler subscribes before anything is read.
OpenStream(s) ==
  /\ stream[s].at = "closed"
  /\ stream' = [stream EXCEPT ![s] = [Closed EXCEPT !.at = "replay"]]
  /\ UNCHANGED <<run, cancelReq, pauseReq, hard, marker, snap, pending, stray,
                 swept, sweep, req, asked, broken, cancels, faults>>

\* messages_after, which waits for the sweep, then is_running.
Replay(s) ==
  /\ stream[s].at = "replay" /\ swept
  /\ stream' = [stream EXCEPT ![s] =
                  IF marker = "none" THEN Closed
                  ELSE [@ EXCEPT !.at = "enter",
                                 !.deaf = (marker = "left" /\ ~AnyLive)]]
  /\ UNCHANGED <<run, cancelReq, pauseReq, hard, marker, snap, pending, stray,
                 swept, sweep, req, asked, broken, cancels, faults>>

Enter(s) ==
  /\ stream[s].at = "enter"
  /\ stream' = [stream EXCEPT ![s].at = "wait"]
  /\ UNCHANGED <<run, cancelReq, pauseReq, hard, marker, snap, pending, stray,
                 swept, sweep, req, asked, broken, cancels, faults>>

\* (A fault, for mutation checks: a silent stream is kept open.)
CloseWhenTold(s) ==
  /\ stream[s].at = "wait" /\ stream[s].done = "queued"
  /\ stream' = [stream EXCEPT ![s] = Closed]
  /\ UNCHANGED <<run, cancelReq, pauseReq, hard, marker, snap, pending, stray,
                 swept, sweep, req, asked, broken, cancels, faults>>

\* turn_done, or two minutes without an event.
CloseStream(s) ==
  /\ stream[s].at = "wait"
  /\ stream' = [stream EXCEPT ![s] = Closed]
  /\ UNCHANGED <<run, cancelReq, pauseReq, hard, marker, snap, pending, stray,
                 swept, sweep, req, asked, broken, cancels, faults>>

-----------------------------------------------------------------------------
\* The process shuts down once its requests are served: turns that have not ended
\* in time are cancelled, those that wait for the lock never start.  (Requests that come after this
\* are a behaviour the program does not have; Crash may come at once.)
Shutdown ==
  /\ cancels < MaxCancels /\ cancels' = cancels + 1
  /\ \A h \in Handler : req[h].at = "idle"
  /\ \A s \in Stream : stream[s].at = "closed"
  /\ run' = [t \in Turn |-> IF run[t].at = "queued"
                              THEN Gone ELSE run[t]]
  /\ hard' = (hard \/ AnyLive)
  /\ AskLive("cancel")
  /\ UNCHANGED <<cancelReq, pauseReq, marker, snap, pending, stray, swept,
                 sweep, req, stream, broken, faults>>

\* The process restarts: what is in the tables stays, and what runs in a thread
\* has committed before or never does.
Crash ==
  /\ faults < MaxFaults /\ faults' = faults + 1
  /\ run' = [t \in Turn |-> IF Live(t) \/ run[t].at = "queued"
                              THEN Gone ELSE run[t]]
  /\ cancelReq' = FALSE /\ pauseReq' = FALSE /\ hard' = FALSE
  /\ marker' \in CASE marker = "none" -> {"none"}
                 [] marker = "old" -> {"old"}
                 [] OTHER -> {"old", "left"}
  /\ stray' = {}
  /\ swept' = FALSE /\ sweep' = "idle"
  /\ req' = [h \in Handler |-> Idle]
  /\ stream' = [s \in Stream |-> Closed]
  /\ broken' = FALSE
  /\ UNCHANGED <<snap, pending, asked, cancels>>

TurnStep(t) ==
  \/ Start(t) \/ Mark(t) \/ Open(t) \/ Answer(t) \/ Suspend(t) \/ Checkpoint(t)
  \/ Note(t) \/ Clear(t) \/ Publish(t) \/ Interrupt(t) \/ ProviderFails(t)

HandlerStep(h) ==
  ReadOrphan(h) \/ ClearOrphan(h) \/ Freeze(h) \/ SaveSnapshot(h) \/ Consume(h)

StreamStep(s) == Replay(s) \/ Enter(s) \/ CloseStream(s)

Next ==
  \/ \E t \in Turn : Post(t) \/ TurnStep(t) \/ StatementFails(t) \/ Decide(t)
  \/ \E h \in Handler : Cancel(h) \/ Pause(h) \/ Resume(h) \/ HandlerStep(h)
  \/ \E s \in Stream : OpenStream(s) \/ StreamStep(s)
  \/ \E x \in stray : Land(x)
  \/ Sweep \/ SweepClear \/ Shutdown \/ Crash

Spec == Init /\ [][Next]_vars

\* The event loop runs every task that is ready, a provider call has a time
\* limit, the rounds of a turn are counted, and a stream gives up after two
\* silent minutes.
Fairness ==
  /\ \A t \in Turn : WF_vars(TurnStep(t))
  /\ \A h \in Handler : WF_vars(HandlerStep(h))
  /\ \A s \in Stream : WF_vars(StreamStep(s))
  /\ WF_vars(Sweep \/ SweepClear)

FairSpec == Spec /\ Fairness

-----------------------------------------------------------------------------
(* Properties *)

\* A turn ends as cancelled or paused only if that was requested while it ran (or
\* the process shut down under it):
\* a request that found nothing to stop, or stopped an earlier turn, does not
\* reach the next one (_managed_turn, cancel_turn, pause_turn).
StopsWereAsked ==
  \A t \in Turn : /\ run[t].ending = "cancelled" => "cancel" \in asked
                  /\ run[t].ending = "paused" => "pause" \in asked

\* A marker without a live turn has one of four reasons: this process was
\* interrupted while it finished a turn, an earlier process left the marker and
\* nobody has posted or read since, or it is left over: from an interrupted
\* INSERT that landed late, or from the second in which this process began.
\* Every other way out of a turn deletes it (_managed_turn, _finalize_paused,
\* ensure_swept).
MarkerIsExplained ==
  /\ marker = "ours" => AnyLive \/ broken
  /\ marker = "old" => ~swept

\* The sweep never deletes the marker of a turn of this process, although it
\* reads first and deletes later (ensure_swept).
SweepSparesLiveTurns == sweep = "clear" => marker # "ours"

\* A stream that waits has been sent turn_done or has somebody who will send
\* it, unless it was opened upon a left-over marker: no event falls between the
\* replay and the wait (stream_events).
WaitingStreamHasPublisher ==
  \A s \in Stream :
    stream[s].at \in {"enter", "wait"} /\ stream[s].done = "no" =>
      AnyLive \/ broken \/ stream[s].deaf

\* Every message that was accepted gets its turn, and the turn ends, whatever
\* is cancelled, paused or fails (the lock is always released).
TurnsEnd == \A t \in Turn : run[t].at = "queued" ~> run[t].at = "over"

\* No reader hangs on a stream, even when turn_done was dropped or the marker
\* was left behind (stream_events: idle timeout).
StreamsEnd == \A s \in Stream : stream[s].at = "replay" ~> stream[s].at = "closed"

\* agent.py: cancel "always lands in a persisted cancelled state, never stuck
\* processing": a marker this process wrote stands only while its turn lives.
\* Refuted by a second cancel; not run, see the README.
NeverStuckProcessing == marker = "ours" => AnyLive

\* agent.py, resume_prepare: when no approval is to be decided, the background
\* continuation runs the remaining rounds of the turn that was paused.
\* Refuted by the missing await; not run, see the README.
ResumeContinues ==
  [][\A h \in Handler :
       req[h].at = "consume" /\ req'[h].at = "idle" /\ ~req[h].snap.approval
         /\ faults' = faults =>
           \E t \in Turn : run'[t].at = "queued" /\ run[t].at # "queued"]_vars

=============================================================================
