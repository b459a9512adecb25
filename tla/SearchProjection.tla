-------------------------- MODULE SearchProjection --------------------------
(***************************************************************************)
(* The search projection of one user: services/bff/src/lumirss             *)
(* search_index.py (rebuild, incremental sync, state mirror),              *)
(* search_writer.py and search_meta_store.py (the tables), the PATCH       *)
(* handler of routers/entries.py, and the two service objects that main.py *)
(* (background loop) and deps.py (requests) build over the same tables.    *)
(*                                                                         *)
(* FreshRSS is the source of truth and is external: entries arrive, newest *)
(* last, other clients change their state, and old ones are purged.  The   *)
(* projection copies it page by page; every await is a step of its own.    *)
(* An entry's row is represented by its mark: whatever the sync compares   *)
(* (read, starred, date, content hash).                                    *)
(***************************************************************************)
EXTENDS Naturals, FiniteSets

CONSTANTS
  Newest,       \* bound: entries are 1 .. Newest, in order of arrival
  Mark,         \* states of an entry
  Absent,       \* no such entry, row or table
  Loop,         \* the background sync loop: one worker, or none
  Manual,       \* POST /api/v1/search/rebuild handlers
  Patch,        \* PATCH /api/v1/entries/{ref}/state handlers
  PageSize,     \* documents per page
  RebuildPages, \* page cap of a rebuild
  SyncPages,    \* page cap of an incremental sync
  Overlap,      \* whether loop and handlers may work at the same time
  OtherClients, \* whether other FreshRSS clients change entries, too
  MaxChanges,   \* bound: state changes and purges at FreshRSS
  MaxFaults     \* bound: failed calls, empty answers and restarts

Entry == 1 .. Newest
Worker == Loop \cup Manual

ASSUME SomeEntry == Newest \in Nat \ {0} /\ PageSize \in Nat \ {0}
ASSUME Caps == RebuildPages \in Nat \ {0} /\ SyncPages \in Nat \ {0}
ASSUME AbsentIsNoMark == Absent \notin Mark
ASSUME OneLoop == Loop \cap Manual = {} /\ \A v, w \in Loop : v = w
ASSUME Switches == Overlap \in BOOLEAN /\ OtherClients \in BOOLEAN
ASSUME BoundsAreNaturals == MaxChanges \in Nat /\ MaxFaults \in Nat

VARIABLES
  up,         \* FreshRSS: the reading list
  live,       \* search_entries
  stage,      \* search_rebuild_stage, a table that may not exist
  feeds,      \* search_feeds has rows
  incomplete, \* search_meta.rebuild_incomplete
  partial,    \* search_meta.partial
  job,        \* the workers
  patch,      \* the PATCH handlers: FreshRSS has accepted, mirror to come
  changes,
  faults

vars == <<up, live, stage, feeds, incomplete, partial, job, patch, changes, faults>>

Rows == [Entry -> Mark \cup {Absent}]
NoRows == [e \in Entry |-> Absent]
In(rows) == {e \in Entry : rows[e] # Absent}

\* Rows of page p replace those of rows, the others stay.
Over(p, rows) == [e \in Entry |-> IF p[e] # Absent THEN p[e] ELSE rows[e]]

Top == Newest + 1     \* the cursor of a first page; 0: no continuation

Idle == [pc |-> "idle", kind |-> "sync", then |-> "stamp", cursor |-> Top,
         pages |-> 0, held |-> NoRows, known |-> NoRows, seen |-> {},
         cut |-> FALSE]

\* `cut` (history): an answer without entries has ended the walk too early.
Job == [pc : {"idle", "clear", "fill", "drop", "create", "fetch", "stage",
              "replace", "swap", "cleanup", "finish", "stamp"},
        kind : {"rebuild", "sync"},
        then : {"drop", "swap", "stamp"},
        cursor : 0 .. Top,
        pages : 0 .. RebuildPages + SyncPages,
        held : Rows, known : Rows,
        seen : SUBSET Entry,
        cut : BOOLEAN]

NoTable == Absent     \* a stage table that does not exist

ASSUME NoTableIsNotEmpty == NoTable \notin Rows

PageCap(w) == IF job[w].kind = "rebuild" THEN RebuildPages ELSE SyncPages

TypeOK ==
  /\ up \in Rows /\ live \in Rows
  /\ stage = NoTable \/ stage \in Rows
  /\ feeds \in BOOLEAN /\ incomplete \in BOOLEAN /\ partial \in BOOLEAN
  /\ job \in [Worker -> Job] /\ \A w \in Worker : job[w].pages <= PageCap(w)
  /\ patch \in [Patch -> {Absent} \cup (Entry \X Mark)]
  /\ changes \in 0 .. MaxChanges /\ faults \in 0 .. MaxFaults

Init ==
  /\ up \in {[e \in Entry |-> IF e <= n THEN m ELSE Absent] : n \in Entry, m \in Mark}
  /\ live = NoRows /\ stage = NoTable
  /\ feeds = FALSE /\ incomplete = FALSE /\ partial = FALSE
  /\ job = [w \in Worker |-> Idle]
  /\ patch = [p \in Patch |-> Absent]
  /\ changes = 0 /\ faults = 0

Busy(w) == job[w].pc # "idle"
Goto(w, pc) == job' = [job EXCEPT ![w].pc = pc]

-----------------------------------------------------------------------------
(* FreshRSS *)

Behind(c) == {e \in In(up) : e < c}

\* The newest PageSize entries behind the cursor.
Page(c) ==
  [e \in Entry |-> IF /\ e \in Behind(c)
                      /\ Cardinality({f \in Behind(c) : f > e}) < PageSize
                     THEN up[e] ELSE Absent]

\* The continuation of page p: its oldest entry, unless nothing is behind it.
Continuation(p) ==
  IF \E e \in In(p) : Behind(e) \ In(p) # {} /\ \A f \in In(p) : e <= f
    THEN CHOOSE e \in In(p) : \A f \in In(p) : e <= f
    ELSE 0

\* An entry newer than all.
Arrive ==
  /\ \E e \in Entry, m \in Mark :
       /\ \A f \in Entry : f < e <=> \E g \in In(up) : f <= g
       /\ up' = [up EXCEPT ![e] = m]
  /\ UNCHANGED <<live, stage, feeds, incomplete, partial, job, patch, changes, faults>>

\* Another client changes an entry's state.
Elsewhere ==
  /\ OtherClients /\ changes < MaxChanges
  /\ changes' = changes + 1
  /\ \E e \in In(up), m \in Mark : m # up[e] /\ up' = [up EXCEPT ![e] = m]
  /\ UNCHANGED <<live, stage, feeds, incomplete, partial, job, patch, faults>>

\* FreshRSS drops an entry: it has expired, or its feed is gone.
Purge ==
  /\ changes < MaxChanges /\ changes' = changes + 1
  /\ \E e, f \in In(up) : e < f /\ up' = [up EXCEPT ![e] = Absent]
  /\ UNCHANGED <<live, stage, feeds, incomplete, partial, job, patch, faults>>

-----------------------------------------------------------------------------
(* PATCH: FreshRSS first, the projection second *)

SetState(p) ==
  /\ patch[p] = Absent /\ changes < MaxChanges
  /\ changes' = changes + 1
  /\ \E e \in In(up), m \in Mark :
       /\ up' = [up EXCEPT ![e] = m]
       /\ patch' = [patch EXCEPT ![p] = <<e, m>>]
  /\ UNCHANGED <<live, stage, feeds, incomplete, partial, job, faults>>

\* UPDATE ... WHERE entry_ref: no effect when the entry is not indexed.
Mirror(p) ==
  /\ patch[p] # Absent
  /\ LET e == patch[p][1] IN
       live' = IF live[e] = Absent THEN live
                                   ELSE [live EXCEPT ![e] = patch[p][2]]
  /\ patch' = [patch EXCEPT ![p] = Absent]
  /\ UNCHANGED <<up, stage, feeds, incomplete, partial, job, changes, faults>>

-----------------------------------------------------------------------------
(* Steps both syncs take *)

\* Fault: no lock.
LockIgnored(w) == w \in Worker

\* Rebuilds of one service object take its lock; the loop and the handlers
\* have a service object each.
LockFree(w) ==
  \A v \in Worker : /\ job[v].kind = "rebuild" /\ Busy(v)
                    => (v \in Loop) # (w \in Loop)

\* Without Overlap the loop and the handlers take turns.
MayStart(w) ==
  ~Busy(w) /\ (Overlap \/ \A v \in Worker : Busy(v) => (v \in Loop) = (w \in Loop))

\* The subscription list is read and search_feeds emptied, then refilled.
ClearFeeds(w) ==
  /\ job[w].pc = "clear"
  /\ feeds' = FALSE
  /\ Goto(w, "fill")
  /\ UNCHANGED <<up, live, stage, incomplete, partial, patch, changes, faults>>

\* feed_url is the primary key: a table refilled by somebody else is an error.
FillFeeds(w) ==
  /\ job[w].pc = "fill" /\ ~feeds
  /\ feeds' = TRUE
  /\ Goto(w, job[w].then)
  /\ UNCHANGED <<up, live, stage, incomplete, partial, patch, changes, faults>>

\* Fault: one page too many.
MorePagesOffByOne(w) == job[w].cursor # 0 /\ job[w].pages <= PageCap(w)

\* The walk goes on while there is a continuation, up to the cap.
MorePages(w) == job[w].cursor # 0 /\ job[w].pages < PageCap(w)

\* list_entry_documents: one page; or an answer without entries and without
\* continuation, which any request may get and which ends the walk.
Fetch(w) ==
  /\ job[w].pc = "fetch" /\ MorePages(w)
  /\ \E p \in {Page(job[w].cursor), NoRows} :
       /\ IF p = Page(job[w].cursor) THEN UNCHANGED faults
                                     ELSE faults < MaxFaults /\ faults' = faults + 1
       /\ job' = [job EXCEPT ![w] =
                    [@ EXCEPT !.held = p, !.cursor = Continuation(p),
                              !.pages = job[w].pages + 1,
                              !.cut = (p # Page(job[w].cursor)),
                              !.pc = IF job[w].kind = "rebuild" THEN "stage"
                                                           ELSE "replace"]]
  /\ UNCHANGED <<up, live, stage, feeds, incomplete, partial, patch, changes>>

-----------------------------------------------------------------------------
(* Rebuild *)

\* Fault: an aborted rebuild is forgotten.
DueWhenEmpty == In(live) = {}

\* The loop rebuilds an empty projection, or after a rebuild that aborted.
Due == In(live) = {} \/ incomplete

\* Fault: the rebuild does not announce itself.
StartRebuildUnmarked(w) ==
  /\ MayStart(w) /\ LockFree(w)
  /\ w \in Loop => Due
  /\ job' = [job EXCEPT ![w] = [Idle EXCEPT !.pc = "clear", !.kind = "rebuild",
                                            !.then = "drop"]]
  /\ UNCHANGED <<up, live, stage, feeds, incomplete, partial, patch, changes, faults>>

StartRebuild(w) ==
  /\ MayStart(w) /\ LockFree(w)
  /\ w \in Loop => Due
  /\ incomplete' = TRUE
  /\ job' = [job EXCEPT ![w] = [Idle EXCEPT !.pc = "clear", !.kind = "rebuild",
                                            !.then = "drop"]]
  /\ UNCHANGED <<up, live, stage, feeds, partial, patch, changes, faults>>

DropStage(w) ==
  /\ job[w].pc = "drop"
  /\ stage' = NoTable
  /\ Goto(w, "create")
  /\ UNCHANGED <<up, live, feeds, incomplete, partial, patch, changes, faults>>

CreateStage(w) ==
  /\ job[w].pc = "create" /\ stage = NoTable
  /\ stage' = NoRows
  /\ Goto(w, "fetch")
  /\ UNCHANGED <<up, live, feeds, incomplete, partial, patch, changes, faults>>

\* stage_documents; the delivery staged last wins.
StagePage(w) ==
  /\ job[w].pc = "stage"
  /\ stage # NoTable \/ In(job[w].held) = {}
  /\ stage' = IF In(job[w].held) = {} THEN stage ELSE Over(job[w].held, stage)
  /\ job' = [job EXCEPT ![w] = [@ EXCEPT !.pc = "fetch",
                                         !.seen = job[w].seen \cup In(job[w].held)]]
  /\ UNCHANGED <<up, live, feeds, incomplete, partial, patch, changes, faults>>

\* Fault: an empty walk replaces the projection like any other.
EndWalkAnyway(w) ==
  /\ job[w].kind = "rebuild" /\ job[w].pc = "fetch"
  /\ job[w].cursor = 0 \/ job[w].pages = RebuildPages
  /\ job' = [job EXCEPT ![w] = [@ EXCEPT !.pc = "clear", !.then = "swap"]]
  /\ UNCHANGED <<up, live, stage, feeds, incomplete, partial, patch, changes, faults>>

\* The walk is over: an empty walk keeps a projection that has rows.
EndWalk(w) ==
  /\ job[w].kind = "rebuild" /\ job[w].pc = "fetch"
  /\ job[w].cursor = 0 \/ job[w].pages = RebuildPages
  /\ job' = [job EXCEPT ![w] =
               IF job[w].seen = {} /\ In(live) # {}
                 THEN [@ EXCEPT !.pc = "cleanup"]
                 ELSE [@ EXCEPT !.pc = "clear", !.then = "swap"]]
  /\ UNCHANGED <<up, live, stage, feeds, incomplete, partial, patch, changes, faults>>

\* swap_staged: one transaction.
Swap(w) ==
  /\ job[w].pc = "swap" /\ stage # NoTable
  /\ live' = stage
  /\ Goto(w, "cleanup")
  /\ UNCHANGED <<up, stage, feeds, incomplete, partial, patch, changes, faults>>

Cleanup(w) ==
  /\ job[w].pc = "cleanup"
  /\ stage' = NoTable
  /\ Goto(w, "finish")
  /\ UNCHANGED <<up, live, feeds, incomplete, partial, patch, changes, faults>>

Finish(w) ==
  /\ job[w].pc = "finish"
  /\ partial' = (job[w].cursor # 0)
  /\ incomplete' = FALSE
  /\ job' = [job EXCEPT ![w] = Idle]
  /\ UNCHANGED <<up, live, stage, feeds, patch, changes, faults>>

-----------------------------------------------------------------------------
(* Incremental sync *)

\* The state of every row is read once, before the first page.
StartSync(w) ==
  /\ w \in Loop /\ MayStart(w) /\ ~Due
  /\ job' = [job EXCEPT ![w] = [Idle EXCEPT !.pc = "fetch", !.known = live]]
  /\ UNCHANGED <<up, live, stage, feeds, incomplete, partial, patch, changes, faults>>

\* Fault: only documents without a row are replaced.
ReplaceNewOnly(w) ==
  /\ job[w].pc = "replace"
  /\ LET j == job[w]
         changed == [e \in Entry |-> IF j.known[e] # Absent THEN Absent
                                                            ELSE j.held[e]]
         done == \/ In(j.held) # {} /\ In(changed) = {}
                 \/ j.cursor = 0 \/ j.pages = SyncPages
     IN /\ live' = Over(changed, live)
        /\ job' = [job EXCEPT ![w] =
                     [@ EXCEPT !.known = Over(changed, j.known),
                               !.pc = IF done THEN "clear" ELSE "fetch",
                               !.then = "stamp"]]
  /\ UNCHANGED <<up, stage, feeds, incomplete, partial, patch, changes, faults>>

\* The documents of the page that differ from what is known are replaced, in
\* one transaction; a page without any ends the walk.
Replace(w) ==
  /\ job[w].pc = "replace"
  /\ LET j == job[w]
         changed == [e \in Entry |-> IF j.held[e] = j.known[e] THEN Absent
                                                               ELSE j.held[e]]
         done == \/ In(j.held) # {} /\ In(changed) = {}
                 \/ j.cursor = 0 \/ j.pages = SyncPages
     IN /\ live' = Over(changed, live)
        /\ job' = [job EXCEPT ![w] =
                     [@ EXCEPT !.known = Over(changed, j.known),
                               !.pc = IF done THEN "clear" ELSE "fetch",
                               !.then = "stamp"]]
  /\ UNCHANGED <<up, stage, feeds, incomplete, partial, patch, changes, faults>>

\* last_synced_at and partial.
Stamp(w) ==
  /\ job[w].pc = "stamp"
  /\ partial' = FALSE
  /\ job' = [job EXCEPT ![w] = Idle]
  /\ UNCHANGED <<up, live, stage, feeds, incomplete, patch, changes, faults>>

-----------------------------------------------------------------------------
(* Failures *)

\* The statement about to run cannot succeed.
Stuck(w) ==
  \/ job[w].pc = "fill" /\ feeds
  \/ job[w].pc = "create" /\ stage # NoTable
  \/ job[w].pc = "stage" /\ stage = NoTable /\ In(job[w].held) # {}
  \/ job[w].pc = "swap" /\ stage = NoTable

\* Within the try block of a rebuild an exception drops the staging table.
Guarded(w) ==
  /\ job[w].kind = "rebuild"
  /\ \/ job[w].pc \in {"fetch", "stage", "swap"}
     \/ job[w].pc \in {"clear", "fill"} /\ job[w].then = "swap"

\* A call to FreshRSS or a statement raises.
Abort(w) ==
  /\ Busy(w)
  /\ IF Stuck(w) THEN UNCHANGED faults
                 ELSE faults < MaxFaults /\ faults' = faults + 1
  /\ stage' = IF Guarded(w) THEN NoTable ELSE stage
  /\ job' = [job EXCEPT ![w] = Idle]
  /\ UNCHANGED <<up, live, feeds, incomplete, partial, patch, changes>>

\* The process restarts.
Crash ==
  /\ faults < MaxFaults
  /\ faults' = faults + 1
  /\ job' = [w \in Worker |-> Idle]
  /\ patch' = [p \in Patch |-> Absent]
  /\ UNCHANGED <<up, live, stage, feeds, incomplete, partial, changes>>

Step(w) ==
  \/ ClearFeeds(w) \/ FillFeeds(w) \/ Fetch(w)
  \/ DropStage(w) \/ CreateStage(w) \/ StagePage(w) \/ EndWalk(w)
  \/ Swap(w) \/ Cleanup(w) \/ Finish(w)
  \/ Replace(w) \/ Stamp(w)

Next ==
  \/ Arrive \/ Elsewhere \/ Purge \/ Crash
  \/ \E p \in Patch : SetState(p) \/ Mirror(p)
  \/ \E w \in Worker : StartRebuild(w) \/ StartSync(w) \/ Step(w) \/ Abort(w)

Spec == Init /\ [][Next]_vars

\* The event loop runs every task that is ready; the sync loop comes round
\* every LUMIRSS_SEARCH_SYNC_INTERVAL seconds.
Fairness ==
  /\ \A p \in Patch : WF_vars(Mirror(p))
  /\ \A w \in Worker : WF_vars(Step(w) \/ (Stuck(w) /\ Abort(w)))
  /\ \A w \in Loop : WF_vars(StartRebuild(w) \/ StartSync(w))

FairSpec == Spec /\ Fairness

-----------------------------------------------------------------------------
(* Properties *)

\* A row that FreshRSS still has disappears from the index only in a swap, and
\* only when the walk before it stopped early: at its page cap, or at an answer
\* without entries after a page with some, which rebuild takes for the end of
\* the list.  Neither a failed call, a restart nor a walk that begins with such
\* an answer strands a smaller index (rebuild, swap_staged).
EntriesNeverLost ==
  [][\A e \in Entry : live[e] # Absent /\ live'[e] = Absent =>
       \/ up[e] = Absent
       \/ \E w \in Worker : /\ job[w].pc = "swap"
                            /\ job[w].cursor # 0 \/ (job[w].cut /\ job[w].seen # {})]_live

\* When a rebuild is about to report its statistics, every document it counted
\* is in the index: no other rebuild has dropped its staging table under it,
\* which is what the docstring of rebuild says the lock is for.
ReportIsHonest ==
  \A w \in Worker : job[w].pc = "finish" => job[w].seen \subseteq In(live)

\* A staging table, in use or left behind by a restart, stands only while the
\* index is marked incomplete, so that the next cycle rebuilds.
LeftoverIsMarked == stage # NoTable => incomplete

\* search_index.py, sync_incremental: "a fully-known page means everything
\* behind it is already indexed".
\* Refuted by a sync that failed between two pages; not run, see the README.
KnownPageHidesNothing ==
  \A w \in Worker :
    /\ job[w].pc = "replace" /\ job[w].kind = "sync" /\ ~partial
    /\ In(job[w].held) # {}
    /\ \A e \in Entry : job[w].held[e] # Absent => job[w].held[e] = job[w].known[e]
    => \A e \in In(job[w].held), f \in In(up) : f < e => live[f] # Absent

\* maybe_sync: a rebuild that aborted is repeated until one succeeds.
RebuildRetried == incomplete ~> ~incomplete

\* search_index.py, set_entry_read: "the next sync picks the state up from
\* FreshRSS either way": the index agrees with FreshRSS in the end.
\* Refuted by a change overtaken by a rebuild; not run, see the README.
StateIsPickedUp ==
  <>[](\A e \in Entry : live[e] # Absent => live[e] = up[e])

\* Once FreshRSS is quiet the newest page of the index agrees with it for good,
\* whatever syncs, mirrors and failures went on before.
NewestPageConverges ==
  <>[](\A e \in In(Page(Top)) : live[e] = up[e])

=============================================================================
