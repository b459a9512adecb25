------------------------ MODULE SearchProjectionProofs ------------------------
(***************************************************************************)
(* What holds of SearchProjection for any number of entries, workers and   *)
(* PATCH handlers, any page size and page caps.  Types hold of whatever    *)
(* the loop and the handlers do; that a report is honest and that a        *)
(* staging table is marked, as long as there is one rebuild at a time;     *)
(* that no entry is lost, as long as there is one worker at a time.        *)
(***************************************************************************)
EXTENDS SearchProjection, FiniteSetTheorems, WellFoundedInduction, TLAPS

\* The places each kind of job has, and the cap it keeps.
FitsCap(j) == j.pages <= (IF j.kind = "rebuild" THEN RebuildPages ELSE SyncPages)
WellShaped(j) ==
  /\ j.kind = "sync" =>
       /\ j.pc \in {"idle", "fetch", "replace", "clear", "fill", "stamp"}
       /\ j.then = "stamp"
  /\ j.kind = "rebuild" =>
       /\ j.pc \in {"clear", "fill", "drop", "create", "fetch", "stage",
                   "swap", "cleanup", "finish"}
       /\ j.then \in {"drop", "swap"}
       /\ j.pc \in {"drop", "create", "fetch", "stage"} => j.then = "drop"
       /\ j.pc = "swap" => j.then = "swap"
       /\ j.pc \in {"clear", "fill", "drop", "create"} /\ j.then = "drop" =>
            j.seen = {} /\ j.cursor = Top /\ ~j.cut

\* Only the loop runs incremental syncs.
ForWorker(w, j) == w \in Manual /\ j.pc # "idle" => j.kind = "rebuild"

\* Entries arrive in order: one beyond the newest that FreshRSS has was never
\* there, and of none of these is there a row, indexed, staged or fetched.
Reach == {e \in Entry : \E f \in In(up) : e <= f}
Sourced ==
  /\ In(live) \subseteq Reach
  /\ stage # NoTable => In(stage) \subseteq Reach
  /\ \A w \in Worker : In(job[w].held) \subseteq Reach

Shaped == \A w \in Worker : WellShaped(job[w]) /\ ForWorker(w, job[w])
Typed == TypeOK /\ Shaped /\ Sourced

Rebuilds(w) == Busy(w) /\ job[w].kind = "rebuild"
OneRebuild == \A v, w \in Worker : Rebuilds(v) /\ Rebuilds(w) => v = w
OneAtATime == \A v, w \in Worker : Busy(v) /\ Busy(w) => v = w

\* A rebuild is announced from its start to its end, and has dropped its
\* staging table before it ends.
Marked(w) ==
  /\ Rebuilds(w) => incomplete
  /\ job[w].pc = "finish" => stage = NoTable

\* What a rebuild has counted is staged, and after the swap it is indexed.
Counted(w) ==
  /\ Guarded(w) => stage # NoTable /\ job[w].seen \subseteq In(stage)
  /\ job[w].pc \in {"cleanup", "finish"} => job[w].seen \subseteq In(live)

Rebuilt == LeftoverIsMarked /\ \A w \in Worker : Marked(w) /\ Counted(w)

\* The walk of a rebuild has every indexed entry that FreshRSS has from its
\* cursor on; or it was cut short after a page with entries, or before any.
Has(w) == In(stage) \cup (IF job[w].pc = "stage" THEN In(job[w].held) ELSE {})
Covers(w) ==
  \A e \in In(live) \cap In(up) : job[w].cursor <= e => e \in Has(w)
CutShort(w) == job[w].cut /\ job[w].seen # {}
WalkIsEmpty(w) ==
  /\ job[w].cursor = 0 /\ job[w].pc \in {"fetch", "stage"}
  /\ job[w].seen = {} /\ (job[w].pc = "stage" => In(job[w].held) = {})
Walked(w) ==
  Guarded(w) => /\ job[w].cursor = Top => job[w].pc # "stage" /\ job[w].seen = {}
                /\ job[w].cut => job[w].cursor = 0
                /\ Covers(w) \/ CutShort(w) \/ WalkIsEmpty(w)
Walks == \A w \in Worker : Walked(w)

-----------------------------------------------------------------------------
(* Entries, rows and pages. *)

LEMMA EntriesFinite == \A S \in SUBSET Entry : IsFiniteSet(S)
<1>1. IsFiniteSet(Entry)
  BY FS_Interval, SomeEntry DEF Entry
<1> QED
  BY <1>1, FS_Subset

LEMMA Least ==
  ASSUME NEW S \in SUBSET Entry, S # {}
  PROVE  \E e \in S : \A f \in S : e <= f
<1> DEFINE R == StrictSubsetOrdering(Entry)
           T == {1 .. e : e \in S}
<1>1. S \subseteq Nat /\ \A e \in S : 1 .. e \subseteq Entry /\ e \in 1 .. e
  BY SomeEntry DEF Entry
<1>2. T \subseteq FiniteSubsetsOf(Entry) /\ T # {}
  <2>1. \A e \in S : IsFiniteSet(1 .. e)
    BY <1>1, EntriesFinite
  <2> QED
    BY <1>1, <2>1 DEF FiniteSubsetsOf
<1>3. IsWellFoundedOn(R, FiniteSubsetsOf(Entry))
  BY FS_StrictSubsetOrderingWellFounded
<1>4. PICK X \in T : \A Y \in T : <<Y, X>> \notin R
  BY <1>2, <1>3, WFMin
<1>5. PICK e \in S : X = 1 .. e
  BY <1>4
<1>6. ASSUME NEW f \in S, f < e PROVE FALSE
  <2>1. 1 .. f \subseteq 1 .. e /\ 1 .. f # 1 .. e
    BY <1>1, <1>6
  <2>2. <<1 .. f, 1 .. e>> \in R
    BY <1>1, <2>1 DEF StrictSubsetOrdering
  <2> QED
    BY <1>4, <1>5, <2>2
<1> QED
  BY <1>1, <1>6

LEMMA Greatest ==
  ASSUME NEW S \in SUBSET Entry, S # {}
  PROVE  \E e \in S : \A f \in S : f <= e
<1> DEFINE D == {Newest + 1 - e : e \in S}
<1>1. \A e \in S : e \in Nat /\ Newest + 1 - e \in Entry
  BY SomeEntry DEF Entry
<1>2. D \in SUBSET Entry /\ D # {}
  BY <1>1, SomeEntry DEF Entry
<1>3. PICK d \in D : \A x \in D : d <= x
  BY <1>2, Least
<1>4. PICK e \in S : d = Newest + 1 - e
  OBVIOUS
<1>5. \A f \in S : Newest + 1 - e <= Newest + 1 - f
  BY <1>3, <1>4
<1> QED
  BY <1>1, <1>5, SomeEntry

LEMMA RowsAreIn ==
  /\ NoRows \in Rows /\ In(NoRows) = {}
  /\ \A p, rows \in Rows : /\ Over(p, rows) \in Rows
                           /\ In(Over(p, rows)) = In(p) \cup In(rows)
BY DEF NoRows, Rows, In, Over

LEMMA UpIsReached == ASSUME up \in Rows PROVE In(up) \subseteq Reach
BY SomeEntry DEF In, Entry, Reach

LEMMA SameReach == ASSUME up' = up PROVE Reach' = Reach
BY DEF Reach, In

\* A page is the newest end of what is behind the cursor.
LEMMA PageIsNewest ==
  ASSUME up \in Rows, NEW c \in 0 .. Top
  PROVE  /\ Page(c) \in Rows /\ In(Page(c)) \subseteq Behind(c)
         /\ \A e \in In(Page(c)), f \in Behind(c) : e <= f => f \in In(Page(c))
         /\ Behind(c) # {} => In(Page(c)) # {}
<1> DEFINE Newer(e) == {f \in Behind(c) : f > e}
<1>1. Behind(c) \subseteq Entry
  BY DEF Behind, In
<1>2. Page(c) \in Rows
  BY DEF Page, Rows
<1>3. \A e \in Entry : e \in In(Page(c)) <=> e \in Behind(c) /\ Cardinality(Newer(e)) < PageSize
  BY <1>1 DEF Page, In, Behind
<1>4. \A e \in Entry : IsFiniteSet(Newer(e)) /\ Cardinality(Newer(e)) \in Nat
  BY <1>1, EntriesFinite, FS_CardinalityType
<1>5. ASSUME NEW e \in In(Page(c)), NEW f \in Behind(c), e <= f
      PROVE  f \in In(Page(c))
  <2>1. e \in Entry /\ f \in Entry /\ e \in Nat /\ f \in Nat
    BY <1>1 DEF In, Entry
  <2>2. Newer(f) \in SUBSET Newer(e)
    BY <1>1, <1>5, <2>1 DEF Entry
  <2>3. Cardinality(Newer(f)) <= Cardinality(Newer(e))
    BY <1>4, <2>1, <2>2, FS_Subset
  <2> QED
    BY <1>3, <1>4, <2>1, <2>3, SomeEntry
<1>6. ASSUME Behind(c) # {} PROVE In(Page(c)) # {}
  <2>1. PICK e \in Behind(c) : \A f \in Behind(c) : f <= e
    BY <1>1, <1>6, Greatest
  <2>2. Newer(e) = {}
    BY <1>1, <2>1 DEF Entry
  <2>3. Cardinality(Newer(e)) < PageSize
    BY <2>2, FS_EmptySet, SomeEntry
  <2> QED
    BY <1>1, <1>3, <2>1, <2>3
<1>7. In(Page(c)) \subseteq Behind(c)
  BY <1>3 DEF In
<1> QED
  BY <1>2, <1>5, <1>6, <1>7

\* The continuation leaves no entry between one page and the next.
LEMMA ContinuationMisses ==
  ASSUME up \in Rows, NEW c \in 0 .. Top
  PROVE  /\ Continuation(Page(c)) \in 0 .. Newest
         /\ \A e \in Behind(c) : Continuation(Page(c)) <= e => e \in In(Page(c))
<1> DEFINE p == Page(c)
           Oldest(e) == e \in In(p) /\ \A f \in In(p) : e <= f
<1>1. In(p) \subseteq Behind(c) /\ In(p) \subseteq Entry /\ Behind(c) \subseteq Entry
  BY PageIsNewest DEF In, Behind
<1>2. CASE \E e \in In(p) : Behind(e) \ In(p) # {} /\ \A f \in In(p) : e <= f
  <2>1. Continuation(p) = CHOOSE e \in In(p) : \A f \in In(p) : e <= f
    BY <1>2 DEF Continuation
  <2>2. Oldest(Continuation(p))
    BY <1>2, <2>1
  <2> QED
    BY <1>1, <2>2, PageIsNewest, SomeEntry DEF Entry
<1>3. CASE ~ \E e \in In(p) : Behind(e) \ In(p) # {} /\ \A f \in In(p) : e <= f
  <2>1. Continuation(p) = 0
    BY <1>3 DEF Continuation
  <2>2. ASSUME NEW f \in Behind(c), f \notin In(p) PROVE FALSE
    <3>1. In(p) # {}
      BY <2>2, PageIsNewest
    <3>2. PICK e \in In(p) : \A g \in In(p) : e <= g
      BY <1>1, <3>1, Least
    <3>3. ~ (e <= f)
      BY <2>2, PageIsNewest
    <3>4. f \in Behind(e)
      BY <1>1, <3>3 DEF Behind, Entry
    <3> QED
      BY <1>3, <2>2, <3>2, <3>4
  <2> QED
    BY <2>1, <2>2, SomeEntry
<1> QED
  BY <1>2, <1>3

-----------------------------------------------------------------------------
(* Types, places and origins: whatever overlaps. *)

LEMMA Jobs ==
  ASSUME Typed, NEW w \in Worker
  PROVE  /\ job[w] \in Job /\ FitsCap(job[w]) /\ WellShaped(job[w])
         /\ ForWorker(w, job[w]) /\ In(job[w].held) \subseteq Reach
         /\ job[w].held \in Rows /\ job[w].known \in Rows
         /\ job[w].cursor \in 0 .. Top /\ job[w].pages \in Nat
         /\ job[w].seen \subseteq Entry
BY Caps DEF Typed, TypeOK, PageCap, FitsCap, Shaped, Sourced, Job

LEMMA IdleIsJob ==
  /\ Idle \in Job /\ FitsCap(Idle) /\ WellShaped(Idle) /\ In(Idle.held) = {}
  /\ Idle.pc = "idle" /\ Idle.kind = "sync" /\ Idle.seen = {}
<1>1. Top \in 0 .. Top /\ 0 \in 0 .. RebuildPages + SyncPages
  BY SomeEntry, Caps DEF Top
<1> QED
  BY <1>1, RowsAreIn, Caps DEF Idle, Job, FitsCap, WellShaped

\* What a step may make of the job of its worker.
Turned(w, j) ==
  /\ j \in Job /\ FitsCap(j) /\ WellShaped(j) /\ ForWorker(w, j)
  /\ In(j.held) \subseteq Reach

\* A step that only goes to its next await.
LEMMA GoesTo ==
  ASSUME Typed, NEW w \in Worker, NEW pc, Goto(w, pc), Busy(w), pc # "idle",
         [job[w] EXCEPT !.pc = pc] \in Job, WellShaped([job[w] EXCEPT !.pc = pc])
  PROVE  \E j : job' = [job EXCEPT ![w] = j] /\ Turned(w, j)
<1> DEFINE j == [job[w] EXCEPT !.pc = pc]
<1>1. job' = [job EXCEPT ![w] = j]
  BY DEF Goto
<1>2. /\ j.pages = job[w].pages /\ j.kind = job[w].kind /\ j.held = job[w].held
      /\ j.pc = pc
  BY Jobs DEF Job
<1>3. FitsCap(j) /\ ForWorker(w, j)
  BY <1>2, Jobs DEF FitsCap, ForWorker, Busy
<1> QED
  BY <1>1, <1>2, <1>3, Jobs DEF Turned

LEMMA StepTurns ==
  ASSUME Typed, NEW w \in Worker,
         StartRebuild(w) \/ StartSync(w) \/ Step(w) \/ Abort(w)
  PROVE  \E j : job' = [job EXCEPT ![w] = j] /\ Turned(w, j)
<1>1. CASE \/ ClearFeeds(w) \/ FillFeeds(w) \/ DropStage(w) \/ CreateStage(w)
           \/ Swap(w) \/ Cleanup(w)
  <2>1. \A pc \in {"fill", "drop", "swap", "stamp", "create", "fetch", "cleanup", "finish"} :
          /\ [job[w] EXCEPT !.pc = pc] \in Job
          /\ [job[w] EXCEPT !.pc = pc].pc = pc
          /\ [job[w] EXCEPT !.pc = pc].kind = job[w].kind
          /\ [job[w] EXCEPT !.pc = pc].then = job[w].then
          /\ [job[w] EXCEPT !.pc = pc].seen = job[w].seen
          /\ [job[w] EXCEPT !.pc = pc].cursor = job[w].cursor
          /\ [job[w] EXCEPT !.pc = pc].cut = job[w].cut
    BY Jobs DEF Job
  <2>2. PICK pc \in {"fill", "drop", "swap", "stamp", "create", "fetch", "cleanup", "finish"} :
          /\ Goto(w, pc) /\ Busy(w)
          /\ \/ job[w].pc = "clear" /\ pc = "fill"
             \/ job[w].pc = "fill" /\ pc = job[w].then
             \/ job[w].pc = "drop" /\ pc = "create"
             \/ job[w].pc = "create" /\ pc = "fetch"
             \/ job[w].pc = "swap" /\ pc = "cleanup"
             \/ job[w].pc = "cleanup" /\ pc = "finish"
    <3>1. job[w].then \in {"drop", "swap", "stamp"}
      BY Jobs DEF Job
    <3> QED
      BY <1>1, <3>1 DEF ClearFeeds, FillFeeds, DropStage, CreateStage, Swap, Cleanup, Busy
  <2>3. WellShaped([job[w] EXCEPT !.pc = pc])
    BY <2>1, <2>2, Jobs DEF WellShaped
  <2> QED
    BY <2>1, <2>2, <2>3, GoesTo
<1>2. CASE Fetch(w)
  <2>1. PICK p \in {Page(job[w].cursor), NoRows} :
          job' = [job EXCEPT ![w] =
                    [job[w] EXCEPT !.held = p, !.cursor = Continuation(p),
                       !.pages = job[w].pages + 1,
                       !.cut = (p # Page(job[w].cursor)),
                       !.pc = IF job[w].kind = "rebuild" THEN "stage" ELSE "replace"]]
    BY <1>2 DEF Fetch
  <2> DEFINE j == [job[w] EXCEPT !.held = p, !.cursor = Continuation(p),
                       !.pages = job[w].pages + 1,
                       !.cut = (p # Page(job[w].cursor)),
                       !.pc = IF job[w].kind = "rebuild" THEN "stage" ELSE "replace"]
  <2>2. p \in Rows /\ In(p) \subseteq Reach /\ Continuation(p) \in 0 .. Top
    <3>1. CASE p = Page(job[w].cursor)
      <4>1. up \in Rows /\ job[w].cursor \in 0 .. Top
        BY Jobs DEF Typed, TypeOK
      <4> QED
        BY <3>1, <4>1, UpIsReached, PageIsNewest, ContinuationMisses, SomeEntry
           DEF Behind, Top
    <3>2. CASE p = NoRows
      BY <3>2, RowsAreIn, SomeEntry DEF Continuation, Top
    <3> QED
      BY <3>1, <3>2
  <2>3. job[w].pages < PageCap(w) /\ job[w].pc = "fetch"
    BY <1>2 DEF Fetch, MorePages
  <2>4. job[w].pages + 1 \in 0 .. RebuildPages + SyncPages
    BY <2>3, Jobs, Caps DEF PageCap
  <2>5. /\ j.held = p /\ j.pages = job[w].pages + 1
        /\ j.kind = job[w].kind /\ j.then = job[w].then
        /\ j.pc = IF job[w].kind = "rebuild" THEN "stage" ELSE "replace"
    BY Jobs DEF Job
  <2>6. j \in Job
    BY <2>2, <2>4, Jobs DEF Job
  <2>7. FitsCap(j)
    BY <2>3, <2>5, Jobs, Caps DEF FitsCap, PageCap
  <2>8. WellShaped(j) /\ ForWorker(w, j)
    BY <2>3, <2>5, Jobs DEF WellShaped, ForWorker
  <2> QED
    BY <2>1, <2>2, <2>5, <2>6, <2>7, <2>8 DEF Turned
<1>3. CASE StagePage(w)
  <2> DEFINE j == [job[w] EXCEPT !.pc = "fetch",
                     !.seen = job[w].seen \cup In(job[w].held)]
  <2>1. job' = [job EXCEPT ![w] = j] /\ job[w].pc = "stage"
    BY <1>3 DEF StagePage
  <2>2. /\ j.held = job[w].held /\ j.pages = job[w].pages
        /\ j.kind = job[w].kind /\ j.then = job[w].then /\ j.pc = "fetch"
    BY Jobs DEF Job
  <2>3. j \in Job
    BY Jobs DEF Job, In
  <2>4. FitsCap(j) /\ WellShaped(j) /\ ForWorker(w, j)
    BY <2>1, <2>2, Jobs DEF WellShaped, ForWorker, FitsCap
  <2> QED
    BY <2>1, <2>2, <2>3, <2>4, Jobs DEF Turned
<1>4. CASE EndWalk(w)
  <2>1. PICK pc \in {"cleanup", "clear"}, then \in {job[w].then, "swap"} :
          /\ job' = [job EXCEPT ![w] = [job[w] EXCEPT !.pc = pc, !.then = then]]
          /\ job[w].pc = "fetch" /\ job[w].kind = "rebuild"
          /\ pc = "clear" => then = "swap"
    <3>1. [job[w] EXCEPT !.pc = "cleanup"]
            = [job[w] EXCEPT !.pc = "cleanup", !.then = job[w].then]
      BY Jobs DEF Job
    <3> QED
      BY <1>4, <3>1 DEF EndWalk
  <2> DEFINE j == [job[w] EXCEPT !.pc = pc, !.then = then]
  <2>2. /\ j.held = job[w].held /\ j.pages = job[w].pages
        /\ j.kind = job[w].kind /\ j.then = then /\ j.pc = pc
    BY Jobs DEF Job
  <2>3. j \in Job
    BY Jobs DEF Job
  <2>4. FitsCap(j) /\ WellShaped(j) /\ ForWorker(w, j)
    BY <2>1, <2>2, Jobs DEF WellShaped, ForWorker, FitsCap
  <2> QED
    BY <2>1, <2>2, <2>3, <2>4, Jobs DEF Turned
<1>5. CASE Replace(w)
  <2>1. PICK pc \in {"clear", "fetch"}, known \in Rows :
          /\ job' = [job EXCEPT ![w] = [job[w] EXCEPT !.known = known, !.pc = pc,
                                                      !.then = "stamp"]]
          /\ job[w].pc = "replace"
    <3> DEFINE changed == [e \in Entry |-> IF job[w].held[e] = job[w].known[e]
                                             THEN Absent ELSE job[w].held[e]]
    <3>1. changed \in Rows
      BY Jobs DEF Rows
    <3>2. Over(changed, job[w].known) \in Rows
      BY <3>1, Jobs, RowsAreIn
    <3> QED
      BY <1>5, <3>2 DEF Replace
  <2> DEFINE j == [job[w] EXCEPT !.known = known, !.pc = pc, !.then = "stamp"]
  <2>2. /\ j.held = job[w].held /\ j.pages = job[w].pages
        /\ j.kind = job[w].kind /\ j.then = "stamp" /\ j.pc = pc
    BY Jobs DEF Job
  <2>3. j \in Job
    BY Jobs DEF Job
  <2>4. FitsCap(j) /\ WellShaped(j) /\ ForWorker(w, j)
    <3>1. job[w].kind \in {"rebuild", "sync"}
      BY Jobs DEF Job
    <3> QED
      BY <2>1, <2>2, <3>1, Jobs DEF WellShaped, ForWorker, FitsCap
  <2> QED
    BY <2>1, <2>2, <2>3, <2>4, Jobs DEF Turned
<1>6. CASE Finish(w) \/ Stamp(w) \/ Abort(w)
  BY <1>6, IdleIsJob DEF Finish, Stamp, Abort, Turned, ForWorker
<1>7. CASE StartRebuild(w)
  <2> DEFINE j == [Idle EXCEPT !.pc = "clear", !.kind = "rebuild", !.then = "drop"]
  <2>1. job' = [job EXCEPT ![w] = j]
    BY <1>7 DEF StartRebuild
  <2>2. /\ j \in Job /\ j.held = Idle.held /\ j.pages = 0
        /\ j.kind = "rebuild" /\ j.then = "drop" /\ j.pc = "clear"
        /\ j.seen = {} /\ j.cursor = Top /\ ~j.cut
    BY IdleIsJob DEF Idle, Job
  <2>3. FitsCap(j) /\ WellShaped(j) /\ ForWorker(w, j)
    BY <2>2, Caps DEF FitsCap, WellShaped, ForWorker
  <2> QED
    BY <2>1, <2>2, <2>3, IdleIsJob DEF Turned
<1>8. CASE StartSync(w)
  <2> DEFINE j == [Idle EXCEPT !.pc = "fetch", !.known = live]
  <2>1. job' = [job EXCEPT ![w] = j] /\ w \in Loop
    BY <1>8 DEF StartSync
  <2>2. /\ j \in Job /\ j.held = Idle.held /\ j.pages = 0
        /\ j.kind = "sync" /\ j.then = "stamp" /\ j.pc = "fetch"
    BY IdleIsJob DEF Idle, Job, Typed, TypeOK
  <2>3. FitsCap(j) /\ WellShaped(j) /\ ForWorker(w, j)
    BY <2>1, <2>2, Caps, OneLoop DEF FitsCap, WellShaped, ForWorker
  <2> QED
    BY <2>1, <2>2, <2>3, IdleIsJob DEF Turned
<1> QED
  BY <1>1, <1>2, <1>3, <1>4, <1>5, <1>6, <1>7, <1>8 DEF Step

LEMMA TurnTyped ==
  ASSUME Typed, NEW w \in Worker, NEW j, job' = [job EXCEPT ![w] = j],
         Turned(w, j), up' = up
  PROVE  /\ job' \in [Worker -> Job] /\ Shaped'
         /\ \A v \in Worker : /\ job'[v].pages <= PageCap(v)'
                            /\ In(job'[v].held) \subseteq Reach
         /\ job'[w] = j /\ \A v \in Worker \ {w} : job'[v] = job[v]
<1>1. job \in [Worker -> Job]
  BY DEF Typed, TypeOK
<1>2. job'[w] = j /\ \A v \in Worker \ {w} : job'[v] = job[v]
  BY <1>1
<1>3. job' \in [Worker -> Job]
  BY <1>1 DEF Turned
<1>4. \A v \in Worker : /\ FitsCap(job'[v]) /\ WellShaped(job'[v])
                       /\ ForWorker(v, job'[v]) /\ In(job'[v].held) \subseteq Reach
  BY <1>2, Jobs DEF Turned
<1>5. Shaped'
  BY <1>4 DEF Shaped, WellShaped, ForWorker
<1>6. \A v \in Worker : job'[v].pages <= PageCap(v)'
  BY <1>4 DEF FitsCap, PageCap
<1> QED
  BY <1>2, <1>3, <1>4, <1>5, <1>6

\* The tables of a step of a worker.
LEMMA TablesTyped ==
  ASSUME Typed, NEW w \in Worker,
         StartRebuild(w) \/ StartSync(w) \/ Step(w) \/ Abort(w)
  PROVE  /\ live' \in Rows /\ In(live') \subseteq Reach
         /\ stage' = NoTable \/ stage' \in Rows
         /\ stage' # NoTable => In(stage') \subseteq Reach
<1>1. /\ live \in Rows /\ In(live) \subseteq Reach
      /\ stage = NoTable \/ stage \in Rows
      /\ stage # NoTable => In(stage) \subseteq Reach
  BY DEF Typed, TypeOK, Sourced
<1>2. CASE UNCHANGED <<live, stage>>
  BY <1>1, <1>2
<1>3. CASE DropStage(w) \/ CreateStage(w) \/ Cleanup(w) \/ Abort(w)
  BY <1>1, <1>3, RowsAreIn DEF DropStage, CreateStage, Cleanup, Abort
<1>4. CASE StagePage(w)
  <2>1. CASE In(job[w].held) = {}
    BY <1>1, <1>4, <2>1 DEF StagePage
  <2>2. CASE In(job[w].held) # {}
    <3>1. stage # NoTable /\ stage' = Over(job[w].held, stage) /\ live' = live
      BY <1>4, <2>2 DEF StagePage
    <3>2. /\ Over(job[w].held, stage) \in Rows
          /\ In(Over(job[w].held, stage)) = In(job[w].held) \cup In(stage)
      BY <1>1, <3>1, Jobs, RowsAreIn
    <3> QED
      BY <1>1, <3>1, <3>2, Jobs
  <2> QED
    BY <2>1, <2>2
<1>5. CASE Swap(w)
  BY <1>1, <1>5 DEF Swap
<1>6. CASE Replace(w)
  <2> DEFINE changed == [e \in Entry |-> IF job[w].held[e] = job[w].known[e]
                                           THEN Absent ELSE job[w].held[e]]
  <2>1. changed \in Rows
    BY Jobs DEF Rows
  <2>2. In(changed) \subseteq In(job[w].held)
    BY DEF In
  <2>3. live' = Over(changed, live) /\ stage' = stage
    BY <1>6 DEF Replace
  <2>4. Over(changed, live) \in Rows /\ In(Over(changed, live)) = In(changed) \cup In(live)
    BY <1>1, <2>1, RowsAreIn
  <2> QED
    BY <1>1, <2>2, <2>3, <2>4, Jobs
<1> QED
  BY <1>2, <1>3, <1>4, <1>5, <1>6 DEF StartRebuild, StartSync, Step, ClearFeeds,
     FillFeeds, Fetch, EndWalk, Finish, Stamp

LEMMA WorkerTyped ==
  ASSUME Typed, NEW w \in Worker,
         StartRebuild(w) \/ StartSync(w) \/ Step(w) \/ Abort(w)
  PROVE  Typed'
<1>1. UNCHANGED <<up, patch, changes>>
  BY DEF StartRebuild, StartSync, Step, Abort, ClearFeeds, FillFeeds, Fetch,
     DropStage, CreateStage, StagePage, EndWalk, Swap, Cleanup, Finish, Replace, Stamp
<1>2. feeds' \in BOOLEAN /\ incomplete' \in BOOLEAN
  BY DEF StartRebuild, StartSync, Step, Abort, ClearFeeds, FillFeeds, Fetch,
     DropStage, CreateStage, StagePage, EndWalk, Swap, Cleanup, Finish, Replace,
     Stamp, Typed, TypeOK
<1>3. partial' \in BOOLEAN
  BY DEF StartRebuild, StartSync, Step, Abort, ClearFeeds, FillFeeds, Fetch,
     DropStage, CreateStage, StagePage, EndWalk, Swap, Cleanup, Finish, Replace,
     Stamp, Typed, TypeOK
<1>4. faults' \in 0 .. MaxFaults
  <2>1. faults \in 0 .. MaxFaults
    BY DEF Typed, TypeOK
  <2>2. faults' = faults \/ (faults < MaxFaults /\ faults' = faults + 1)
    BY DEF StartRebuild, StartSync, Step, Abort, ClearFeeds, FillFeeds, Fetch,
       DropStage, CreateStage, StagePage, EndWalk, Swap, Cleanup, Finish, Replace, Stamp
  <2> QED
    BY <2>1, <2>2, BoundsAreNaturals
<1>5. /\ job' \in [Worker -> Job] /\ Shaped'
      /\ \A v \in Worker : /\ job'[v].pages <= PageCap(v)'
                         /\ In(job'[v].held) \subseteq Reach
  BY <1>1, StepTurns, TurnTyped
<1>6. TypeOK'
  BY <1>1, <1>2, <1>3, <1>4, <1>5, TablesTyped DEF Typed, TypeOK
<1>7. Sourced'
  BY <1>1, <1>5, TablesTyped, SameReach DEF Sourced
<1> QED
  BY <1>5, <1>6, <1>7 DEF Typed

\* The mirror changes the mark of a row that is there, and adds none.
LEMMA MirrorKeepsRows ==
  ASSUME Typed, NEW p \in Patch, Mirror(p)
  PROVE  live' \in Rows /\ In(live') = In(live) /\ patch' \in [Patch -> {Absent} \cup (Entry \X Mark)]
<1>1. live \in Rows /\ patch \in [Patch -> {Absent} \cup (Entry \X Mark)]
  BY DEF Typed, TypeOK
<1>2. patch[p] \in Entry \X Mark
  BY <1>1 DEF Mirror
<1> DEFINE e == patch[p][1]
           m == patch[p][2]
<1>3. e \in Entry /\ m \in Mark /\ m # Absent
  BY <1>2, AbsentIsNoMark
<1>4. live' = live \/ (live[e] # Absent /\ live' = [live EXCEPT ![e] = m])
  BY DEF Mirror
<1>5. live' \in Rows /\ In(live') = In(live)
  BY <1>1, <1>3, <1>4 DEF Rows, In
<1>6. patch' \in [Patch -> {Absent} \cup (Entry \X Mark)]
  BY <1>1 DEF Mirror
<1> QED
  BY <1>5, <1>6

\* FreshRSS and the PATCH handlers: an entry that arrives is new, and the
\* newest stays.
LEMMA SourceTyped ==
  ASSUME Typed, Arrive \/ Elsewhere \/ Purge \/ \E p \in Patch : SetState(p)
  PROVE  Typed' /\ In(live) \cap In(up)' \subseteq In(up)
<1>1. UNCHANGED <<live, stage, feeds, incomplete, partial, job, faults>>
  BY DEF Arrive, Elsewhere, Purge, SetState
<1>2. up \in Rows /\ In(live) \subseteq Reach /\ In(up) \subseteq Reach
  BY UpIsReached DEF Typed, TypeOK, Sourced
<1>3. up' \in Rows /\ Reach \subseteq Reach' /\ Reach \cap In(up)' \subseteq In(up)
  <2>1. CASE Arrive
    <3>1. PICK e \in Entry, m \in Mark :
            /\ \A f \in Entry : f < e <=> \E g \in In(up) : f <= g
            /\ up' = [up EXCEPT ![e] = m]
      BY <2>1 DEF Arrive
    <3>2. e \notin Reach
      BY <3>1 DEF Reach, Entry
    <3>3. up' \in Rows /\ In(up)' = In(up) \cup {e}
      BY <1>2, <3>1, AbsentIsNoMark DEF Rows, In
    <3> QED
      BY <3>2, <3>3 DEF Reach
  <2>2. CASE Elsewhere \/ \E p \in Patch : SetState(p)
    <3>1. PICK e \in In(up), m \in Mark : up' = [up EXCEPT ![e] = m]
      BY <2>2 DEF Elsewhere, SetState
    <3>2. up' \in Rows /\ In(up)' = In(up)
      BY <1>2, <3>1, AbsentIsNoMark DEF Rows, In
    <3> QED
      BY <3>2 DEF Reach
  <2>3. CASE Purge
    <3>1. PICK e \in In(up), f \in In(up) : e < f /\ up' = [up EXCEPT ![e] = Absent]
      BY <2>3 DEF Purge
    <3>2. up' \in Rows /\ In(up)' = In(up) \ {e}
      BY <1>2, <3>1 DEF Rows, In
    <3>3. ASSUME NEW d \in Reach PROVE d \in Reach'
      <4>1. PICK g \in In(up) : d <= g
        BY DEF Reach
      <4>2. e \in Entry /\ f \in Entry /\ g \in Entry /\ d \in Entry
        BY DEF In, Reach
      <4>3. \E h \in In(up)' : d <= h
        <5>1. CASE g = e
          <6>1. d <= f /\ f # e
            BY <3>1, <4>1, <4>2, <5>1, SomeEntry DEF Entry
          <6> QED
            BY <3>2, <6>1
        <5>2. CASE g # e
          BY <3>2, <4>1, <5>2
        <5> QED
          BY <5>1, <5>2
      <4> QED
        BY <4>2, <4>3 DEF Reach
    <3> QED
      BY <3>2, <3>3
  <2> QED
    BY <2>1, <2>2, <2>3
<1>4. changes' \in 0 .. MaxChanges
  BY BoundsAreNaturals DEF Typed, TypeOK, Arrive, Elsewhere, Purge, SetState
<1>5. patch' \in [Patch -> {Absent} \cup (Entry \X Mark)]
  <2>1. patch \in [Patch -> {Absent} \cup (Entry \X Mark)]
    BY DEF Typed, TypeOK
  <2>2. ASSUME NEW p \in Patch, SetState(p) PROVE patch' \in [Patch -> {Absent} \cup (Entry \X Mark)]
    <3>1. PICK f \in Entry, k \in Mark : patch' = [patch EXCEPT ![p] = <<f, k>>]
      BY <2>2 DEF SetState, In
    <3> QED
      BY <2>1, <3>1
  <2> QED
    BY <2>1, <2>2 DEF Arrive, Elsewhere, Purge
<1>6. TypeOK'
  BY <1>1, <1>3, <1>4, <1>5 DEF Typed, TypeOK, PageCap
<1>7. Shaped'
  BY <1>1 DEF Typed, Shaped, WellShaped, ForWorker
<1>8. Sourced'
  <2>1. /\ In(live') = In(live) /\ stage' = stage
        /\ stage # NoTable => In(stage') = In(stage)
        /\ \A w \in Worker : In(job'[w].held) = In(job[w].held)
    BY <1>1
  <2> QED
    BY <1>3, <2>1 DEF Typed, Sourced
<1> QED
  BY <1>2, <1>3, <1>6, <1>7, <1>8 DEF Typed

LEMMA InitTyped == Init => Typed
<1> SUFFICES ASSUME Init PROVE Typed
  OBVIOUS
<1>1. up \in Rows
  BY DEF Init, Rows
<1>2. /\ live \in Rows /\ In(live) = {} /\ stage = NoTable
      /\ \A w \in Worker : job[w] = Idle
  BY RowsAreIn DEF Init
<1>3. TypeOK
  <2>1. job \in [Worker -> Job] /\ \A w \in Worker : job[w].pages <= PageCap(w)
    BY <1>2, IdleIsJob DEF Init, FitsCap, PageCap
  <2>2. changes \in 0 .. MaxChanges /\ faults \in 0 .. MaxFaults
    BY BoundsAreNaturals DEF Init
  <2>3. patch \in [Patch -> {Absent} \cup (Entry \X Mark)]
    BY DEF Init
  <2> QED
    BY <1>1, <1>2, <2>1, <2>2, <2>3 DEF Init, TypeOK
<1>4. Shaped /\ Sourced
  BY <1>2, IdleIsJob DEF Shaped, Sourced, ForWorker
<1> QED
  BY <1>3, <1>4 DEF Typed

LEMMA CrashTyped == ASSUME Typed, Crash PROVE Typed'
<1>1. \A w \in Worker : job'[w] = Idle
  BY DEF Crash
<1>2. TypeOK'
  <2>1. job' \in [Worker -> Job] /\ \A w \in Worker : job'[w].pages <= PageCap(w)'
    BY <1>1, IdleIsJob DEF Crash, FitsCap, PageCap
  <2>2. faults' \in 0 .. MaxFaults
    BY BoundsAreNaturals DEF Typed, TypeOK, Crash
  <2>3. patch' \in [Patch -> {Absent} \cup (Entry \X Mark)]
    BY DEF Crash
  <2> QED
    BY <2>1, <2>2, <2>3 DEF Typed, TypeOK, Crash
<1>3. Shaped'
  BY <1>1, IdleIsJob DEF Shaped, ForWorker, WellShaped
<1>4. Sourced'
  BY <1>1, IdleIsJob, SameReach DEF Typed, Sourced, Crash
<1> QED
  BY <1>2, <1>3, <1>4 DEF Typed

LEMMA MirrorTyped == ASSUME Typed, NEW p \in Patch, Mirror(p) PROVE Typed'
<1>1. UNCHANGED <<up, stage, feeds, incomplete, partial, job, changes, faults>>
  BY DEF Mirror
<1>2. TypeOK'
  BY <1>1, MirrorKeepsRows DEF Typed, TypeOK, PageCap
<1>3. Shaped'
  BY <1>1 DEF Typed, Shaped, WellShaped, ForWorker
<1>4. Sourced'
  <2>1. /\ In(live') = In(live) /\ stage' = stage
        /\ stage # NoTable => In(stage') = In(stage)
        /\ \A w \in Worker : In(job'[w].held) = In(job[w].held)
    BY <1>1, MirrorKeepsRows
  <2> QED
    BY <1>1, <2>1, SameReach DEF Typed, Sourced
<1> QED
  BY <1>2, <1>3, <1>4 DEF Typed

LEMMA StepTyped == Typed /\ [Next]_vars => Typed'
<1> SUFFICES ASSUME Typed, [Next]_vars PROVE Typed'
  OBVIOUS
<1>1. CASE UNCHANGED vars
  <2>1. TypeOK' /\ Shaped'
    BY <1>1 DEF vars, Typed, TypeOK, PageCap, Shaped, WellShaped, ForWorker
  <2>2. Sourced'
    BY <1>1, SameReach DEF vars, Typed, Sourced, In
  <2> QED
    BY <2>1, <2>2 DEF Typed
<1>2. ASSUME NEW p \in Patch, SetState(p) \/ Mirror(p) PROVE Typed'
  BY <1>2, MirrorTyped, SourceTyped
<1>3. ASSUME NEW w \in Worker, StartRebuild(w) \/ StartSync(w) \/ Step(w) \/ Abort(w)
      PROVE  Typed'
  BY <1>3, WorkerTyped
<1> QED
  BY <1>1, <1>2, <1>3, CrashTyped, SourceTyped DEF Next

LEMMA AlwaysTyped == Spec => []Typed
<1> QED
  BY InitTyped, StepTyped, PTL DEF Spec

-----------------------------------------------------------------------------
(* One rebuild at a time. *)

\* A worker moves, and nobody else.
LEMMA WorkerMoves ==
  ASSUME Typed, NEW w \in Worker,
         StartRebuild(w) \/ StartSync(w) \/ Step(w) \/ Abort(w)
  PROVE  up' = up /\ \A v \in Worker \ {w} : job'[v] = job[v]
<1>1. up' = up
  BY DEF StartRebuild, StartSync, Step, Abort, ClearFeeds, FillFeeds, Fetch,
     DropStage, CreateStage, StagePage, EndWalk, Swap, Cleanup, Finish, Replace, Stamp
<1> QED
  BY <1>1, StepTurns, TurnTyped

LEMMA GotoFields ==
  ASSUME Typed, NEW w \in Worker, NEW pc, Goto(w, pc)
  PROVE  /\ job'[w].pc = pc /\ job'[w].kind = job[w].kind
         /\ job'[w].then = job[w].then /\ job'[w].seen = job[w].seen
         /\ job'[w].held = job[w].held /\ job'[w].cursor = job[w].cursor
         /\ job'[w].cut = job[w].cut
BY Jobs DEF Goto, Typed, TypeOK, Job

\* Nothing is claimed of a worker that does not rebuild.
LEMMA NotRebuilding ==
  ASSUME Shaped', NEW v \in Worker, job'[v].kind # "rebuild", job' \in [Worker -> Job]
  PROVE  Marked(v)' /\ Counted(v)' /\ Walked(v)'
<1>1. job'[v].kind = "sync"
  BY DEF Job
<1>2. job'[v].pc \notin {"cleanup", "finish"}
  BY <1>1 DEF Shaped, WellShaped
<1> QED
  BY <1>1, <1>2 DEF Marked, Counted, Walked, Rebuilds, Guarded

\* What is claimed of a rebuild outlives the steps of an incremental sync.
LEMMA RebuildUntouched ==
  ASSUME NEW v \in Worker, Marked(v), Counted(v), job'[v] = job[v],
         stage' = stage, incomplete => incomplete', In(live) \subseteq In(live')
  PROVE  Marked(v)' /\ Counted(v)'
BY DEF Marked, Counted, Rebuilds, Busy, Guarded

\* The steps of a rebuild, for the worker that takes them.
LEMMA StagingCounts ==
  ASSUME Typed, Rebuilt, NEW w \in Worker, StagePage(w)
  PROVE  Marked(w)' /\ Counted(w)' /\ LeftoverIsMarked'
<1>1. /\ job'[w].pc = "fetch" /\ job'[w].kind = job[w].kind
      /\ job'[w].then = job[w].then /\ job'[w].seen = job[w].seen \cup In(job[w].held)
  BY Jobs DEF StagePage, Typed, TypeOK, Job
<1>2. job[w].pc = "stage" /\ incomplete' = incomplete /\ live' = live
  BY DEF StagePage
<1>3. Guarded(w)' => Guarded(w)
  BY <1>1, <1>2 DEF Guarded
<1>4. Busy(w) /\ (Rebuilds(w)' => Rebuilds(w))
  BY <1>1, <1>2 DEF Busy, Rebuilds
<1>5. CASE ~Guarded(w)'
  <2>1. job[w].kind # "rebuild"
    BY <1>1, <1>5 DEF Guarded
  <2> QED
    BY <1>2, <2>1, Jobs DEF WellShaped, Job
<1>6. CASE Guarded(w)'
  <2>1. stage # NoTable /\ job[w].seen \subseteq In(stage) /\ stage \in Rows
    BY <1>3, <1>6 DEF Rebuilt, Counted, Typed, TypeOK
  <2>2. stage' # NoTable /\ In(stage') = In(stage) \cup In(job[w].held)
    <3>1. CASE In(job[w].held) = {}
      BY <2>1, <3>1 DEF StagePage
    <3>2. CASE In(job[w].held) # {}
      <4>1. stage' = Over(job[w].held, stage)
        BY <3>2 DEF StagePage
      <4> QED
        BY <2>1, <4>1, Jobs, RowsAreIn, NoTableIsNotEmpty
    <3> QED
      BY <3>1, <3>2
  <2>3. Counted(w)'
    BY <1>1, <2>1, <2>2 DEF Counted
  <2> QED
    BY <1>1, <1>2, <1>4, <2>1, <2>3 DEF Marked, Rebuilt, LeftoverIsMarked
<1> QED
  BY <1>5, <1>6

LEMMA RebuildCounts ==
  ASSUME Typed, Typed', Rebuilt, NEW w \in Worker, Rebuilds(w), Step(w) \/ Abort(w)
  PROVE  Marked(w)' /\ Counted(w)' /\ LeftoverIsMarked'
<1>0. /\ Marked(w) /\ Counted(w) /\ LeftoverIsMarked /\ incomplete
      /\ job[w].kind = "rebuild" /\ WellShaped(job[w])
  BY Jobs DEF Rebuilt, Marked, Rebuilds
<1>1. CASE ClearFeeds(w)
  <2>1. /\ job[w].pc = "clear" /\ Goto(w, "fill")
        /\ UNCHANGED <<live, stage, incomplete>>
    BY <1>1 DEF ClearFeeds
  <2> QED
    BY <1>0, <2>1, GotoFields DEF Marked, Counted, Guarded, LeftoverIsMarked
<1>2. CASE FillFeeds(w)
  <2>1. /\ job[w].pc = "fill" /\ Goto(w, job[w].then)
        /\ UNCHANGED <<live, stage, incomplete>>
    BY <1>2 DEF FillFeeds
  <2>2. job[w].then \in {"drop", "swap"}
    BY <1>0 DEF WellShaped
  <2> QED
    BY <1>0, <2>1, <2>2, GotoFields DEF Marked, Counted, Guarded, LeftoverIsMarked
<1>3. CASE Fetch(w)
  <2>1. /\ job'[w].pc = "stage" /\ job'[w].kind = "rebuild"
        /\ job'[w].then = job[w].then /\ job'[w].seen = job[w].seen
    BY <1>0, <1>3, Jobs DEF Fetch, Typed, TypeOK, Job
  <2>2. job[w].pc = "fetch" /\ UNCHANGED <<live, stage, incomplete>>
    BY <1>3 DEF Fetch
  <2> QED
    BY <1>0, <2>1, <2>2 DEF Marked, Counted, Guarded, LeftoverIsMarked
<1>4. CASE DropStage(w)
  <2>1. Goto(w, "create") /\ stage' = NoTable /\ incomplete' = incomplete
    BY <1>4 DEF DropStage
  <2> QED
    BY <1>0, <2>1, GotoFields DEF Marked, Counted, Guarded, LeftoverIsMarked
<1>5. CASE CreateStage(w)
  <2>1. /\ job[w].pc = "create" /\ Goto(w, "fetch")
        /\ stage' = NoRows /\ incomplete' = incomplete
    BY <1>5 DEF CreateStage
  <2>2. job[w].seen = {} /\ NoRows # NoTable
    BY <1>0, <2>1, RowsAreIn, NoTableIsNotEmpty DEF WellShaped
  <2> QED
    BY <1>0, <2>1, <2>2, GotoFields DEF Marked, Counted, Guarded, LeftoverIsMarked
<1>6. CASE StagePage(w)
  BY <1>6, StagingCounts
<1>7. CASE EndWalk(w)
  <2>1. /\ job[w].pc = "fetch" /\ UNCHANGED <<live, stage, incomplete>>
        /\ job'[w].kind = "rebuild" /\ job'[w].seen = job[w].seen
        /\ \/ job'[w].pc = "cleanup" /\ job[w].seen = {}
           \/ job'[w].pc = "clear" /\ job'[w].then = "swap"
    <3>1. job \in [Worker -> Job] /\ job[w] \in Job
      BY Jobs DEF Typed, TypeOK
    <3>2. CASE job[w].seen = {} /\ In(live) # {}
      BY <1>0, <1>7, <3>1, <3>2 DEF EndWalk, Job
    <3>3. CASE ~ (job[w].seen = {} /\ In(live) # {})
      BY <1>0, <1>7, <3>1, <3>3 DEF EndWalk, Job
    <3> QED
      BY <3>2, <3>3
  <2> QED
    BY <1>0, <2>1 DEF Marked, Counted, Guarded, LeftoverIsMarked
<1>8. CASE Swap(w)
  <2>1. /\ job[w].pc = "swap" /\ Goto(w, "cleanup")
        /\ live' = stage /\ UNCHANGED <<stage, incomplete>>
    BY <1>8 DEF Swap
  <2> QED
    BY <1>0, <2>1, GotoFields DEF Marked, Counted, Guarded, LeftoverIsMarked
<1>9. CASE Cleanup(w)
  <2>1. /\ job[w].pc = "cleanup" /\ Goto(w, "finish")
        /\ stage' = NoTable /\ UNCHANGED <<live, incomplete>>
    BY <1>9 DEF Cleanup
  <2> QED
    BY <1>0, <2>1, GotoFields DEF Marked, Counted, Guarded, LeftoverIsMarked
<1>10. CASE Finish(w) \/ Abort(w)
  <2>1. job'[w] = Idle
    BY <1>10 DEF Finish, Abort, Typed, TypeOK
  <2>2. LeftoverIsMarked'
    BY <1>0, <1>10 DEF Finish, Abort, Marked, LeftoverIsMarked
  <2>3. job'[w].kind # "rebuild"
    BY <2>1, IdleIsJob
  <2> QED
    BY <2>2, <2>3, NotRebuilding DEF Typed, TypeOK
<1>11. CASE Replace(w) \/ Stamp(w)
  BY <1>0, <1>11 DEF Replace, Stamp, WellShaped
<1> QED
  BY <1>1, <1>2, <1>3, <1>4, <1>5, <1>6, <1>7, <1>8, <1>9, <1>10, <1>11 DEF Step

\* An incremental sync adds rows and changes marks, and touches no rebuild.
LEMMA SyncStays ==
  ASSUME Typed, NEW w \in Worker, ~Rebuilds(w),
         StartSync(w) \/ Step(w) \/ Abort(w)
  PROVE  /\ stage' = stage /\ incomplete' = incomplete
         /\ In(live) \subseteq In(live') /\ job'[w].kind # "rebuild"
<1>1. job \in [Worker -> Job] /\ job[w] \in Job /\ live \in Rows
  BY Jobs DEF Typed, TypeOK
<1>2. CASE StartSync(w)
  BY <1>1, <1>2 DEF StartSync, Idle
<1>3. CASE Step(w) \/ Abort(w)
  <2>1. Busy(w)
    BY <1>3 DEF Step, Abort, ClearFeeds, FillFeeds, Fetch, DropStage, CreateStage,
       StagePage, EndWalk, Swap, Cleanup, Finish, Replace, Stamp, Busy
  <2>2. job[w].kind = "sync" /\ WellShaped(job[w])
    BY <2>1, Jobs DEF Rebuilds, Job
  <2>3. job[w].pc \in {"fetch", "replace", "clear", "fill", "stamp"}
    BY <2>1, <2>2 DEF WellShaped, Busy
  <2>4. ~Guarded(w)
    BY <2>2 DEF Guarded
  <2>5. CASE ClearFeeds(w) \/ FillFeeds(w)
    BY <2>2, <2>5, GotoFields DEF ClearFeeds, FillFeeds
  <2>6. CASE Fetch(w)
    BY <1>1, <2>2, <2>6 DEF Fetch, Job
  <2>7. CASE Stamp(w) \/ Abort(w)
    BY <1>1, <2>4, <2>7 DEF Stamp, Abort, Idle
  <2>8. CASE Replace(w)
    <3> DEFINE changed == [e \in Entry |-> IF job[w].held[e] = job[w].known[e]
                                             THEN Absent ELSE job[w].held[e]]
    <3>1. changed \in Rows
      BY Jobs DEF Rows
    <3>2. live' = Over(changed, live) /\ UNCHANGED <<stage, incomplete>>
      BY <2>8 DEF Replace
    <3>3. In(Over(changed, live)) = In(changed) \cup In(live)
      BY <1>1, <3>1, RowsAreIn
    <3>4. job'[w].kind = job[w].kind
      BY <1>1, <2>8 DEF Replace, Job
    <3> QED
      BY <2>2, <3>2, <3>3, <3>4
  <2> QED
    BY <1>3, <2>2, <2>3, <2>5, <2>6, <2>7, <2>8 DEF Step, DropStage, CreateStage,
       StagePage, EndWalk, Swap, Cleanup, Finish
<1> QED
  BY <1>2, <1>3

LEMMA WorkerRebuilds ==
  ASSUME Typed, Typed', OneRebuild, Rebuilt, NEW w \in Worker,
         StartRebuild(w) \/ StartSync(w) \/ Step(w) \/ Abort(w)
  PROVE  Rebuilt'
<1>0. \A v \in Worker \ {w} : job'[v] = job[v]
  BY WorkerMoves
<1>1. CASE StartRebuild(w)
  <2>1. /\ incomplete' = TRUE /\ UNCHANGED <<stage, live>>
        /\ job'[w].kind = "rebuild" /\ job'[w].pc = "clear" /\ job'[w].then = "drop"
    BY <1>1, IdleIsJob DEF StartRebuild, Typed, TypeOK, Job
  <2>2. Marked(w)' /\ Counted(w)' /\ LeftoverIsMarked'
    BY <2>1 DEF Marked, Counted, Guarded, LeftoverIsMarked
  <2>3. \A v \in Worker \ {w} : Marked(v)' /\ Counted(v)'
    BY <1>0, <2>1, RebuildUntouched DEF Rebuilt
  <2> QED
    BY <2>2, <2>3 DEF Rebuilt
<1>2. CASE ~Rebuilds(w) /\ (StartSync(w) \/ Step(w) \/ Abort(w))
  <2>1. /\ stage' = stage /\ incomplete' = incomplete
        /\ In(live) \subseteq In(live') /\ job'[w].kind # "rebuild"
    BY <1>2, SyncStays
  <2>2. \A v \in Worker \ {w} : Marked(v)' /\ Counted(v)'
    BY <1>0, <2>1, RebuildUntouched DEF Rebuilt
  <2>3. Marked(w)' /\ Counted(w)'
    BY <2>1, NotRebuilding DEF Typed, TypeOK
  <2> QED
    BY <2>1, <2>2, <2>3 DEF Rebuilt, LeftoverIsMarked
<1>3. CASE Rebuilds(w) /\ (Step(w) \/ Abort(w))
  <2>1. Marked(w)' /\ Counted(w)' /\ LeftoverIsMarked'
    BY <1>3, RebuildCounts
  <2>2. ASSUME NEW v \in Worker \ {w} PROVE Marked(v)' /\ Counted(v)'
    <3>1. job'[v].kind # "rebuild"
      <4>1. ~Rebuilds(v)
        BY <1>3 DEF OneRebuild
      <4>2. job[v].kind # "rebuild"
        BY <4>1, Jobs DEF Rebuilds, Busy, WellShaped
      <4> QED
        BY <1>0, <4>2
    <3> QED
      BY <3>1, NotRebuilding DEF Typed, TypeOK
  <2> QED
    BY <2>1, <2>2 DEF Rebuilt
<1>4. CASE Rebuilds(w) /\ StartSync(w)
  BY <1>4 DEF StartSync, MayStart, Rebuilds
<1> QED
  BY <1>1, <1>2, <1>3, <1>4

LEMMA StepRebuilt == Typed /\ Typed' /\ OneRebuild /\ Rebuilt /\ [Next]_vars => Rebuilt'
<1> SUFFICES ASSUME Typed, Typed', OneRebuild, Rebuilt, [Next]_vars PROVE Rebuilt'
  OBVIOUS
<1>1. ASSUME UNCHANGED <<stage, incomplete, job>>, In(live) \subseteq In(live')
      PROVE  Rebuilt'
  BY <1>1, RebuildUntouched DEF Rebuilt, LeftoverIsMarked
<1>2. ASSUME NEW p \in Patch, SetState(p) \/ Mirror(p) PROVE Rebuilt'
  <2>1. In(live) \subseteq In(live')
    BY <1>2, MirrorKeepsRows DEF SetState
  <2> QED
    BY <1>1, <1>2, <2>1 DEF SetState, Mirror
<1>3. CASE Crash
  <2>1. \A w \in Worker : job'[w] = Idle
    BY <1>3 DEF Crash
  <2>2. \A w \in Worker : Marked(w)' /\ Counted(w)'
    BY <2>1, IdleIsJob, NotRebuilding DEF Typed, TypeOK
  <2> QED
    BY <1>3, <2>2 DEF Crash, Rebuilt, LeftoverIsMarked
<1>4. ASSUME NEW w \in Worker, StartRebuild(w) \/ StartSync(w) \/ Step(w) \/ Abort(w)
      PROVE  Rebuilt'
  BY <1>4, WorkerRebuilds
<1> QED
  BY <1>1, <1>2, <1>3, <1>4 DEF Next, vars, Arrive, Elsewhere, Purge

LEMMA InitRebuilt == Init => Rebuilt
<1> SUFFICES ASSUME Init PROVE Rebuilt
  OBVIOUS
<1>1. \A w \in Worker : job[w] = Idle
  BY DEF Init
<1> QED
  BY <1>1, IdleIsJob DEF Init, Rebuilt, LeftoverIsMarked, Marked, Counted,
     Rebuilds, Busy, Guarded

-----------------------------------------------------------------------------
(* One worker at a time: the walk of a rebuild misses no row. *)

LEMMA WalkUntouched ==
  ASSUME NEW v \in Worker, Walked(v), job'[v] = job[v], stage' = stage,
         In(live') \cap In(up') \subseteq In(live) \cap In(up),
         In(live) = {} => In(live') = {}
  PROVE  Walked(v)'
<1>1. In(stage') = In(stage)
  OBVIOUS
<1>2. Covers(v) => Covers(v)'
  BY <1>1 DEF Covers, Has
<1> QED
  BY <1>2 DEF Walked, Guarded, CutShort, WalkIsEmpty

\* A fetched page has every row between the new cursor and the old one; an
\* answer without entries cuts the walk short.
LEMMA FetchCovers ==
  ASSUME Typed, NEW w \in Worker, Walked(w), job[w].kind = "rebuild", Fetch(w)
  PROVE  Walked(w)'
<1>1. /\ job[w].pc = "fetch" /\ job[w].cursor # 0 /\ UNCHANGED <<live, stage, up>>
      /\ job[w].cursor \in 0 .. Top /\ In(live) \subseteq Entry
  BY Jobs DEF Fetch, MorePages, Typed, In
<1>2. /\ Covers(w) /\ (job[w].cursor = Top => job[w].seen = {})
  BY <1>1 DEF Walked, Guarded, WalkIsEmpty, CutShort
<1>3. PICK p \in {Page(job[w].cursor), NoRows} :
        /\ job'[w].pc = "stage" /\ job'[w].kind = "rebuild" /\ job'[w].held = p
        /\ job'[w].cursor = Continuation(p) /\ job'[w].seen = job[w].seen
        /\ job'[w].then = job[w].then
        /\ job'[w].cut = (p # Page(job[w].cursor))
  BY Jobs DEF Fetch, Typed, TypeOK, Job
<1>4. CASE p = Page(job[w].cursor)
  <2>1. /\ Continuation(p) \in 0 .. Newest
        /\ \A e \in Behind(job[w].cursor) : Continuation(p) <= e => e \in In(p)
    BY <1>1, <1>4, ContinuationMisses DEF Typed, TypeOK
  <2>2. ASSUME NEW e \in In(live) \cap In(up), Continuation(p) <= e
        PROVE  e \in In(stage) \cup In(p)
    <3>1. CASE job[w].cursor <= e
      BY <1>1, <1>2, <3>1 DEF Covers, Has
    <3>2. CASE ~ (job[w].cursor <= e)
      <4>1. e < job[w].cursor
        BY <1>1, <3>2, SomeEntry DEF Entry, Top
      <4>2. e \in Behind(job[w].cursor)
        BY <1>1, <4>1 DEF Behind
      <4> QED
        BY <2>1, <2>2, <4>2
    <3> QED
      BY <3>1, <3>2
  <2>3. In(live)' = In(live) /\ In(up)' = In(up) /\ In(stage)' = In(stage)
    BY <1>1 DEF In
  <2>4. Covers(w)'
    BY <1>3, <2>2, <2>3 DEF Covers, Has
  <2>5. job'[w].cursor # Top
    BY <1>3, <2>1, SomeEntry DEF Top
  <2>6. ~job'[w].cut
    BY <1>3, <1>4, Zenon
  <2> QED
    BY <2>4, <2>5, <2>6 DEF Walked, Top
<1>5. CASE p = NoRows /\ p # Page(job[w].cursor)
  <2>1. Continuation(p) = 0 /\ In(p) = {}
    BY <1>5, RowsAreIn DEF Continuation
  <2>2. job'[w].cut /\ job'[w].cursor = 0
    BY <1>3, <1>5, <2>1
  <2>3. CutShort(w)' \/ WalkIsEmpty(w)'
    <3>1. In(job'[w].held) = {}
      BY <1>3, <2>1
    <3> QED
      BY <1>3, <2>2, <3>1 DEF WalkIsEmpty, CutShort, In
  <2>4. job'[w].cursor # Top
    BY <2>2, SomeEntry DEF Top
  <2> QED
    BY <2>2, <2>3, <2>4 DEF Walked, Top
<1> QED
  BY <1>3, <1>4, <1>5

LEMMA StagingCovers ==
  ASSUME Typed, Rebuilt, NEW w \in Worker, Walked(w), job[w].kind = "rebuild",
         StagePage(w)
  PROVE  Walked(w)'
<1>1. /\ job'[w].pc = "fetch" /\ job'[w].kind = job[w].kind
      /\ job'[w].cursor = job[w].cursor /\ job'[w].then = job[w].then
      /\ job'[w].seen = job[w].seen \cup In(job[w].held)
      /\ job'[w].cut = job[w].cut
  BY Jobs DEF StagePage, Typed, TypeOK, Job
<1>2. job[w].pc = "stage" /\ live' = live /\ up' = up /\ Guarded(w)
  BY DEF StagePage, Guarded
<1>3. stage # NoTable /\ stage \in Rows
  BY <1>2 DEF Rebuilt, Counted, Typed, TypeOK
<1>4. In(stage') = In(stage) \cup In(job[w].held)
  <2>1. CASE In(job[w].held) = {}
    BY <2>1 DEF StagePage
  <2>2. CASE In(job[w].held) # {}
    BY <1>3, <2>2, Jobs, RowsAreIn DEF StagePage
  <2> QED
    BY <2>1, <2>2
<1>5. /\ job[w].cursor # Top /\ (job[w].cut => job[w].cursor = 0)
      /\ Covers(w) \/ CutShort(w) \/ WalkIsEmpty(w)
  BY <1>2 DEF Walked
<1>6. Covers(w) => Covers(w)'
  BY <1>1, <1>2, <1>4 DEF Covers, Has
<1>7. /\ WalkIsEmpty(w) => WalkIsEmpty(w)'
      /\ CutShort(w) => CutShort(w)'
  BY <1>1, <1>2 DEF WalkIsEmpty, CutShort
<1>8. job'[w].cursor # Top
  BY <1>1, <1>5 DEF Top
<1> QED
  BY <1>1, <1>5, <1>6, <1>7, <1>8 DEF Walked

LEMMA RebuildCovers ==
  ASSUME Typed, Typed', Rebuilt, NEW w \in Worker, Walked(w), Rebuilds(w),
         Step(w) \/ Abort(w)
  PROVE  Walked(w)'
<1>0. job[w].kind = "rebuild" /\ WellShaped(job[w])
  BY Jobs DEF Rebuilds
<1>1. CASE ClearFeeds(w) \/ FillFeeds(w)
  <2>1. PICK pc \in {"fill", "drop", "swap"} :
          /\ Goto(w, pc) /\ UNCHANGED <<live, stage, up>>
          /\ \/ job[w].pc = "clear" /\ pc = "fill"
             \/ job[w].pc = "fill" /\ pc = job[w].then
    BY <1>0, <1>1 DEF ClearFeeds, FillFeeds, WellShaped
  <2>2. /\ job'[w].pc = pc /\ job'[w].kind = job[w].kind
        /\ job'[w].then = job[w].then /\ job'[w].seen = job[w].seen
        /\ job'[w].cursor = job[w].cursor /\ job'[w].cut = job[w].cut
    BY <2>1, GotoFields
  <2>3. Guarded(w)' => Guarded(w)
    BY <2>1, <2>2 DEF Guarded
  <2>4. ~WalkIsEmpty(w)
    BY <2>1 DEF WalkIsEmpty
  <2>5. Covers(w) => Covers(w)'
    BY <2>1, <2>2 DEF Covers, Has, In
  <2>6. CutShort(w) => CutShort(w)'
    BY <2>2 DEF CutShort
  <2> QED
    BY <2>1, <2>2, <2>3, <2>4, <2>5, <2>6 DEF Walked, Top
<1>2. CASE Fetch(w)
  BY <1>0, <1>2, FetchCovers
<1>3. CASE DropStage(w)
  <2>1. job'[w].pc = "create"
    BY <1>3, GotoFields DEF DropStage
  <2> QED
    BY <2>1 DEF Walked, Guarded
<1>4. CASE CreateStage(w)
  <2>1. job[w].pc = "create" /\ Goto(w, "fetch") /\ live' = live
    BY <1>4 DEF CreateStage
  <2>2. /\ job'[w].pc = "fetch" /\ job'[w].seen = {} /\ job'[w].cursor = Top
        /\ ~job'[w].cut
    BY <1>0, <2>1, GotoFields DEF WellShaped
  <2>3. \A e \in In(live') : ~ (Top <= e)
    BY SomeEntry DEF In, Entry, Top
  <2>4. Covers(w)'
    BY <2>2, <2>3 DEF Covers, Top
  <2> QED
    BY <2>2, <2>4 DEF Walked
<1>5. CASE StagePage(w)
  BY <1>0, <1>5, StagingCovers
<1>6. CASE EndWalk(w)
  <2>1. job \in [Worker -> Job] /\ job[w] \in Job
    BY Jobs DEF Typed, TypeOK
  <2>2. job[w].pc = "fetch" /\ UNCHANGED <<live, stage, up>> /\ Guarded(w)
    BY <1>6 DEF EndWalk, Guarded
  <2>3. CASE job[w].seen = {} /\ In(live) # {}
    <3>1. job'[w].pc = "cleanup"
      BY <1>6, <2>1, <2>3 DEF EndWalk, Job
    <3> QED
      BY <3>1 DEF Walked, Guarded
  <2>4. CASE ~ (job[w].seen = {} /\ In(live) # {})
    <3>1. /\ job'[w].pc = "clear" /\ job'[w].seen = job[w].seen
          /\ job'[w].cursor = job[w].cursor /\ job'[w].cut = job[w].cut
      BY <1>6, <2>1, <2>4 DEF EndWalk, Job
    <3>2. Covers(w) => Covers(w)'
      BY <2>2, <3>1 DEF Covers, Has, In
    <3>3. WalkIsEmpty(w) => Covers(w)'
      BY <2>2, <2>4 DEF Covers, WalkIsEmpty, In
    <3>4. CutShort(w) => CutShort(w)'
      BY <3>1 DEF CutShort
    <3> QED
      BY <2>2, <3>1, <3>2, <3>3, <3>4 DEF Walked, Top
  <2> QED
    BY <2>3, <2>4
<1>7. CASE Swap(w) \/ Cleanup(w)
  <2>1. job'[w].pc \in {"cleanup", "finish"}
    BY <1>7, GotoFields DEF Swap, Cleanup
  <2> QED
    BY <2>1 DEF Walked, Guarded
<1>8. CASE Finish(w) \/ Stamp(w) \/ Abort(w)
  <2>1. job'[w] = Idle
    BY <1>8 DEF Finish, Stamp, Abort, Typed, TypeOK
  <2> QED
    BY <2>1, IdleIsJob DEF Walked, Guarded
<1>9. CASE Replace(w)
  BY <1>0, <1>9 DEF Replace, WellShaped
<1> QED
  BY <1>1, <1>2, <1>3, <1>4, <1>5, <1>6, <1>7, <1>8, <1>9 DEF Step

LEMMA WorkerWalks ==
  ASSUME Typed, Typed', OneAtATime, Rebuilt, Walks, NEW w \in Worker,
         StartRebuild(w) \/ StartSync(w) \/ Step(w) \/ Abort(w)
  PROVE  Walks'
<1>0. \A v \in Worker \ {w} : job'[v] = job[v]
  BY WorkerMoves
<1>1. CASE StartRebuild(w) \/ StartSync(w)
  <2>1. UNCHANGED <<live, stage>> /\ In(live') \cap In(up') \subseteq In(live) \cap In(up)
    BY <1>1 DEF StartRebuild, StartSync
  <2>2. \A v \in Worker \ {w} : Walked(v)'
    BY <1>0, <2>1, WalkUntouched DEF Walks
  <2>3. CASE StartRebuild(w)
    <3>1. job'[w].pc = "clear" /\ job'[w].then = "drop"
      BY <2>3, IdleIsJob DEF StartRebuild, Typed, TypeOK, Job
    <3> QED
      BY <2>2, <3>1 DEF Walks, Walked, Guarded
  <2>4. CASE StartSync(w)
    <3>1. job'[w].kind = "sync"
      BY <2>4, IdleIsJob DEF StartSync, Typed, TypeOK, Job
    <3> QED
      BY <2>2, <3>1 DEF Walks, Walked, Guarded
  <2> QED
    BY <1>1, <2>3, <2>4
<1>2. CASE Step(w) \/ Abort(w)
  <2>1. Busy(w)
    BY <1>2 DEF Step, Abort, ClearFeeds, FillFeeds, Fetch, DropStage, CreateStage,
       StagePage, EndWalk, Swap, Cleanup, Finish, Replace, Stamp, Busy
  <2>2. ASSUME NEW v \in Worker \ {w} PROVE Walked(v)'
    <3>1. ~Busy(v)
      BY <2>1 DEF OneAtATime
    <3>2. job[v].kind # "rebuild"
      BY <3>1, Jobs DEF Busy, WellShaped
    <3> QED
      BY <1>0, <3>2, NotRebuilding DEF Typed, TypeOK
  <2>3. Walked(w)'
    <3>1. CASE Rebuilds(w)
      BY <1>2, <3>1, RebuildCovers DEF Walks
    <3>2. CASE ~Rebuilds(w)
      BY <1>2, <3>2, SyncStays, NotRebuilding DEF Typed, TypeOK
    <3> QED
      BY <3>1, <3>2
  <2> QED
    BY <2>2, <2>3 DEF Walks
<1> QED
  BY <1>1, <1>2

LEMMA StepWalks ==
  Typed /\ Typed' /\ OneAtATime /\ Rebuilt /\ Walks /\ [Next]_vars => Walks'
<1> SUFFICES ASSUME Typed, Typed', OneAtATime, Rebuilt, Walks, [Next]_vars
             PROVE  Walks'
  OBVIOUS
<1>1. ASSUME UNCHANGED <<stage, job>>, In(live') = In(live),
             In(live) \cap In(up') \subseteq In(up)
      PROVE  Walks'
  BY <1>1, WalkUntouched DEF Walks
<1>2. CASE UNCHANGED vars
  <2>1. UNCHANGED <<stage, job>> /\ In(live') = In(live) /\ In(up') = In(up)
    BY <1>2 DEF vars
  <2> QED
    BY <1>1, <2>1
<1>3. ASSUME Arrive \/ Elsewhere \/ Purge \/ \E p \in Patch : SetState(p) PROVE Walks'
  <2>1. UNCHANGED <<stage, job, live>> /\ In(live') = In(live)
    BY <1>3 DEF Arrive, Elsewhere, Purge, SetState
  <2>2. In(live) \cap In(up)' \subseteq In(up)
    BY <1>3, SourceTyped
  <2>3. In(live) \cap In(up') \subseteq In(up)
    BY <2>2 DEF In
  <2> QED
    BY <1>1, <2>1, <2>3
<1>4. ASSUME NEW p \in Patch, Mirror(p) PROVE Walks'
  <2>1. UNCHANGED <<stage, job>> /\ In(live') = In(live) /\ In(up') = In(up)
    BY <1>4, MirrorKeepsRows DEF Mirror
  <2> QED
    BY <1>1, <2>1
<1>5. CASE Crash
  <2>1. \A w \in Worker : job'[w] = Idle
    BY <1>5 DEF Crash
  <2> QED
    BY <2>1, IdleIsJob, NotRebuilding DEF Typed, TypeOK, Walks
<1>6. ASSUME NEW w \in Worker, StartRebuild(w) \/ StartSync(w) \/ Step(w) \/ Abort(w)
      PROVE  Walks'
  BY <1>6, WorkerWalks
<1> QED
  BY <1>2, <1>3, <1>4, <1>5, <1>6 DEF Next

LEMMA InitWalks == Init => Walks
<1> SUFFICES ASSUME Init PROVE Walks
  OBVIOUS
<1>1. \A w \in Worker : job[w] = Idle
  BY DEF Init
<1> QED
  BY <1>1, IdleIsJob DEF Walks, Walked, Guarded

\* A row disappears only by a swap, and by a swap only behind the place where
\* the walk has stopped.
LEMMA StepKeepsEntries ==
  ASSUME Typed, Walks, [Next]_vars, NEW e \in Entry,
         live[e] # Absent, live'[e] = Absent
  PROVE  \/ up[e] = Absent
         \/ \E w \in Worker : /\ job[w].pc = "swap"
                              /\ job[w].cursor # 0 \/ (job[w].cut /\ job[w].seen # {})
<1>1. e \in In(live) /\ ~ (In(live) \subseteq In(live'))
  BY DEF In
<1>2. PICK w \in Worker : StartRebuild(w) \/ StartSync(w) \/ Step(w) \/ Abort(w)
  BY <1>1, MirrorKeepsRows DEF Next, vars, Arrive, Elsewhere, Purge, Crash, SetState
<1>3. (Rebuilds(w) /\ Step(w)) \/ Abort(w) \/ StartRebuild(w)
  BY <1>1, <1>2, SyncStays DEF StartSync
<1>4. Swap(w)
  BY <1>1, <1>3, Jobs DEF Rebuilds, WellShaped, Step, Abort, StartRebuild,
     ClearFeeds, FillFeeds, Fetch, DropStage, CreateStage, StagePage, EndWalk,
     Cleanup, Finish, Replace, Stamp
<1>5. job[w].pc = "swap" /\ live' = stage /\ Guarded(w)
  BY <1>4, Jobs DEF Swap, Guarded, WellShaped, Job
<1>6. Covers(w) \/ (job[w].cut /\ job[w].seen # {})
  BY <1>5 DEF Walks, Walked, WalkIsEmpty, CutShort
<1>7. ASSUME Covers(w), up[e] # Absent, job[w].cursor = 0 PROVE FALSE
  <2>1. e \in In(stage)
    BY <1>1, <1>5, <1>7, SomeEntry DEF Covers, Has, Entry, In
  <2> QED
    BY <1>5, <2>1 DEF In
<1> QED
  BY <1>5, <1>6, <1>7

-----------------------------------------------------------------------------
(* The theorems. *)

\* Tables, jobs and handlers keep their types, and a walk keeps its page cap,
\* whatever the loop and the handlers do at the same time.
THEOREM SearchTypeCorrect == Spec => []TypeOK
<1>1. Typed => TypeOK
  BY DEF Typed
<1> QED
  BY <1>1, AlwaysTyped, PTL

LEMMA AlwaysRebuilt == Spec /\ []OneRebuild => []Rebuilt
<1> QED
  BY InitRebuilt, StepRebuilt, AlwaysTyped, PTL DEF Spec

LEMMA AlwaysWalks == Spec /\ []OneAtATime => []Walks
<1>1. OneAtATime => OneRebuild
  BY DEF OneAtATime, OneRebuild, Rebuilds
<1>2. Spec /\ []OneAtATime => []Rebuilt
  BY <1>1, AlwaysRebuilt, PTL
<1> QED
  BY <1>2, InitWalks, StepWalks, AlwaysTyped, PTL DEF Spec

\* As long as no two rebuilds run at the same time, an incremental sync may: a
\* rebuild that reports has every document it counted in the index (rebuild,
\* whose lock is for this).
THEOREM ReportsAreHonest == Spec /\ []OneRebuild => []ReportIsHonest
<1>1. Rebuilt => ReportIsHonest
  BY DEF Rebuilt, Counted, ReportIsHonest
<1> QED
  BY <1>1, AlwaysRebuilt, PTL

\* Likewise, a staging table, also one a restart has left, never stands without
\* the mark that makes the next cycle rebuild.
THEOREM LeftoversAreMarked == Spec /\ []OneRebuild => []LeftoverIsMarked
<1>1. Rebuilt => LeftoverIsMarked
  BY DEF Rebuilt
<1> QED
  BY <1>1, AlwaysRebuilt, PTL

\* As long as one worker works at a time, a row that FreshRSS still has leaves
\* the index only when the swap of a walk that stopped early drops it, at its
\* page cap or at an answer without entries that was not the first: no failed
\* call, no restart and no walk without entries makes the index smaller
\* (rebuild, swap_staged).
THEOREM EntriesAreKept == Spec /\ []OneAtATime => EntriesNeverLost
<1> DEFINE Kept == \A e \in Entry : live[e] # Absent /\ live'[e] = Absent =>
                     \/ up[e] = Absent
                     \/ \E w \in Worker :
                          /\ job[w].pc = "swap"
                          /\ job[w].cursor # 0 \/ (job[w].cut /\ job[w].seen # {})
<1>1. Typed /\ Walks /\ [Next]_vars => [Kept]_live
  BY StepKeepsEntries
<1> QED
  BY <1>1, AlwaysTyped, AlwaysWalks, PTL DEF Spec, EntriesNeverLost

=============================================================================
