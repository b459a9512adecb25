--------------------------- MODULE AgentApproval ---------------------------
(***************************************************************************)
(* Write approvals of the agent workbench: services/bff/src/lumirss        *)
(* agent_store.py (approval rows, write journal), agent.py (turns,         *)
(* apply_approval, retry, resume) and the handlers of routers/agent.py     *)
(* that call them.                                                         *)
(*                                                                         *)
(* A write tool call never runs on the model's say-so: the turn mints an   *)
(* approval row and suspends; the HTTP handler that claims the row runs    *)
(* the write.  Handlers are coroutines that await every database call, so  *)
(* each step below is one stretch of code between two awaits whose state   *)
(* another handler can change.  Read tools, message texts, citations and   *)
(* provider budgets are not represented.                                   *)
(***************************************************************************)
EXTENDS Naturals, FiniteSets

CONSTANTS
  Thread,      \* conversation threads
  Call,        \* tool-call ids; the provider names each call of a turn anew
  Payload,     \* a write tool with its canonical arguments (args_hash)
  Approval,    \* ids of approval rows
  Request,     \* HTTP handlers that may be in flight together
  None,        \* absent column or argument
  MaxTurns,    \* bound: user messages per thread
  MaxQueued,   \* bound: turns accepted but still waiting for the thread lock
  MaxFaults    \* bound: restarts, and writes that fail after their effect

ASSUME NoneIsNew == None \notin Thread \cup Call \cup Payload \cup Approval
ASSUME BoundsAreNaturals ==
  MaxTurns \in Nat /\ MaxQueued \in Nat /\ MaxFaults \in Nat

VARIABLES
  turn,     \* seq of the latest user message of a thread, as its ordinal
  queued,   \* turn tasks waiting for the thread lock
  live,     \* the turn task that holds the thread lock
  plan,     \* tool calls of the latest turn, as retry reads them back
  args,     \* arguments of every call a provider has emitted
  appr,     \* agent_approvals
  snap,     \* agent_threads.paused_state_json: its pendingApprovalId
  journal,  \* agent_tool_writes
  effect,   \* history: how often an approval's write ran, and its turn key
  results,  \* approvals whose successful tool row is in the transcript
  req,      \* the in-flight handlers
  faults    \* restarts and half-failed writes so far

vars == <<turn, queued, live, plan, args, appr, snap, journal, effect,
          results, req, faults>>

Decided == {"approved", "rejected", "expired", "superseded"}

Row == [status  : {"none", "pending"} \cup Decided,
        thread  : Thread \cup {None},
        call    : Call \cup {None},
        payload : Payload \cup {None},
        by      : Approval \cup {None},
        stale   : BOOLEAN]

Steps == {"idle", "claim", "policy", "lookup", "invoke", "record", "append",
          "mint", "supersede", "remint", "freeze", "settle"}

Handler == [pc      : Steps,
            thread  : Thread \cup {None},
            appr    : Approval \cup {None},
            call    : Call \cup {None},
            payload : Payload \cup {None},
            fresh   : Approval \cup {None},
            key     : 0 .. MaxTurns]

NoRow == [status |-> "none", thread |-> None, call |-> None,
          payload |-> None, by |-> None, stale |-> FALSE]

\* A handler about to take a step for thread t: on row a, or with call c and
\* arguments p.
Handling(pc, t, a, c, p) ==
  [pc |-> pc, thread |-> t, appr |-> a, call |-> c, payload |-> p,
   fresh |-> None, key |-> 0]

Idle == Handling("idle", None, None, None, None)

TypeOK ==
  /\ turn \in [Thread -> 0 .. MaxTurns]
  /\ queued \in [Thread -> 0 .. MaxQueued]
  /\ live \in [Thread -> {"idle", "round"}]
  /\ plan \in [Thread -> SUBSET Call]
  /\ args \in [Call -> Payload \cup {None}]
  /\ appr \in [Approval -> Row]
  /\ snap \in [Thread -> Approval \cup {None}]
  /\ journal \subseteq [payload : Payload \cup {None}, key : 0 .. MaxTurns, appr : Approval]
  /\ effect \in [Approval -> [n : Nat, key : 0 .. MaxTurns]]
  /\ results \subseteq Approval
  /\ req \in [Request -> Handler]
  /\ faults \in 0 .. MaxFaults

Init ==
  /\ turn = [t \in Thread |-> 0]
  /\ queued = [t \in Thread |-> 0]
  /\ live = [t \in Thread |-> "idle"]
  /\ plan = [t \in Thread |-> {}]
  /\ args = [c \in Call |-> None]
  /\ appr = [a \in Approval |-> NoRow]
  /\ snap = [t \in Thread |-> None]
  /\ journal = {}
  /\ effect = [a \in Approval |-> [n |-> 0, key |-> 0]]
  /\ results = {}
  /\ req = [r \in Request |-> Idle]
  /\ faults = 0

-----------------------------------------------------------------------------
(* The tables *)

Pending(t) == {a \in Approval : appr[a].thread = t /\ appr[a].status = "pending"}

\* create_approval: a fresh uuid, status 'pending', args bound to the row.
Minted(rows, b, t, c, p) ==
  [rows EXCEPT ![b] = [status |-> "pending", thread |-> t, call |-> c,
                       payload |-> p, by |-> None, stale |-> FALSE]]

\* A row is decided; its age no longer matters.
Decide(row, status) == [row EXCEPT !.status = status, !.stale = FALSE]

\* The old row of a revision points to its replacement.
Superseded(row, b) == [Decide(row, "superseded") EXCEPT !.by = b]

\* The next step of a handler, the turn key it computes, the row it minted.
Goto(h, pc) == [h EXCEPT !.pc = pc]
Keyed(h, k) == [Goto(h, "lookup") EXCEPT !.key = k]
Replaced(h, b) == [Goto(h, "supersede") EXCEPT !.fresh = b, !.payload = None]

\* expire_stale(thread): pending rows past the ten-minute TTL expire.
Expired(t) ==
  [a \in Approval |->
     IF appr[a].thread = t /\ appr[a].status = "pending" /\ appr[a].stale
       THEN Decide(appr[a], "expired")
       ELSE appr[a]]

\* find_replayed_write: the lookup is by (tool, args_hash, turn_key) alone.  The
\* turn key is the sequence number of a user message, which every conversation
\* counts for itself, and the thread_id that is passed in is not used.
Journaled(p, k) == \E j \in journal : j.payload = p /\ j.key = k

\* A call whose successful tool row is in the transcript.
Completed(c) == \E a \in results : appr[a].call = c

\* Past the ten-minute TTL.
Aged(row) == [row EXCEPT !.stale = TRUE]

\* Ten minutes pass for a row nobody has decided.
Age(a) ==
  /\ appr[a].status = "pending" /\ ~appr[a].stale
  /\ appr' = [appr EXCEPT ![a] = Aged(@)]
  /\ UNCHANGED <<turn, queued, live, plan, args, snap, journal, effect,
                 results, req, faults>>

-----------------------------------------------------------------------------
(* Turns *)

\* POST .../messages: expire, refuse while an approval is pending, queue a task.
Post(t) ==
  /\ queued[t] < MaxQueued /\ turn[t] + queued[t] < MaxTurns
  /\ appr' = Expired(t)
  /\ queued' = [queued EXCEPT ![t] =
                  IF \A a \in Pending(t) : appr'[a].status = "expired"
                    THEN @ + 1 ELSE @]
  /\ UNCHANGED <<turn, live, plan, args, snap, journal, effect, results, req,
                 faults>>

\* The task gets the thread lock, drops any pause snapshot and appends the
\* user message, which opens a new turn.
StartTurn(t) ==
  /\ queued[t] > 0 /\ live[t] = "idle" /\ turn[t] < MaxTurns
  /\ queued' = [queued EXCEPT ![t] = @ - 1]
  /\ turn' = [turn EXCEPT ![t] = @ + 1]
  /\ live' = [live EXCEPT ![t] = "round"]
  /\ plan' = [plan EXCEPT ![t] = {}]
  /\ snap' = [snap EXCEPT ![t] = None]
  /\ UNCHANGED <<args, appr, journal, effect, results, req, faults>>

\* One provider round answers, or fails: the turn ends.
ProviderAnswers(t) ==
  /\ live[t] = "round"
  /\ live' = [live EXCEPT ![t] = "idle"]
  /\ UNCHANGED <<turn, queued, plan, args, appr, snap, journal, effect,
                 results, req, faults>>

\* The provider emits the write calls C with arguments f.
Emit(t, C, f) ==
  /\ C # {} /\ \A c \in C : args[c] = None
  /\ plan' = [plan EXCEPT ![t] = @ \cup C]
  /\ args' = [c \in Call |-> IF c \in C THEN f[c] ELSE args[c]]

\* The first call of the block that the session policy lets through suspends
\* the turn on a fresh approval; the calls after it are left without a result.
ProviderSuspends(t) ==
  /\ live[t] = "round"
  /\ \E C \in SUBSET Call, f \in [Call -> Payload] :
       /\ Emit(t, C, f)
       /\ \E c \in C, b \in Approval :
            /\ appr[b] = NoRow
            /\ appr' = Minted(appr, b, t, c, f[c])
  /\ live' = [live EXCEPT ![t] = "idle"]
  /\ UNCHANGED <<turn, queued, snap, journal, effect, results, req, faults>>

\* Every call of the block is refused (tool_denied): the next round follows.
ProviderDenied(t) ==
  /\ live[t] = "round"
  /\ \E C \in SUBSET Call, f \in [Call -> Payload] : Emit(t, C, f)
  /\ UNCHANGED <<turn, queued, live, appr, snap, journal, effect, results,
                 req, faults>>

-----------------------------------------------------------------------------
(* Approve: claim the row, then run its write through the journal *)

\* apply_approval up to take_approval's SELECT: the row is read as pending.
Approve(r, a) ==
  /\ req[r].pc = "idle" /\ appr[a].status # "none"
  /\ appr' = Expired(appr[a].thread)
  /\ req' = [req EXCEPT ![r] =
               IF appr'[a].status = "pending"
                 THEN Handling("claim", appr[a].thread, a, None, None)
                 ELSE Idle]
  /\ UNCHANGED <<turn, queued, live, plan, args, snap, journal, effect,
                 results, faults>>

\* Fault: the UPDATE does not ask for status = 'pending'.
ClaimUnconditional(r) ==
  /\ req[r].pc = "claim"
  /\ appr' = [appr EXCEPT ![req[r].appr] = Decide(@, "approved")]
  /\ req' = [req EXCEPT ![r] = Goto(@, "policy")]
  /\ UNCHANGED <<turn, queued, live, plan, args, snap, journal, effect,
                 results, faults>>

\* take_approval's conditional UPDATE, decided by rowcount.
Claim(r) ==
  /\ req[r].pc = "claim"
  /\ LET a == req[r].appr IN
       IF appr[a].status = "pending"
         THEN /\ appr' = [appr EXCEPT ![a] = Decide(@, "approved")]
              /\ req' = [req EXCEPT ![r] = Goto(@, "policy")]
         ELSE /\ req' = [req EXCEPT ![r] = Idle]
              /\ UNCHANGED appr
  /\ UNCHANGED <<turn, queued, live, plan, args, snap, journal, effect,
                 results, faults>>

\* Fault: the key names the turn to come.
PolicyNextTurn(r) ==
  /\ req[r].pc = "policy"
  /\ req' = [req EXCEPT ![r] = Keyed(@, turn[req[r].thread] + 1)]
  /\ UNCHANGED <<turn, queued, live, plan, args, appr, snap, journal, effect,
                 results, faults>>

\* The policy is read again; the turn key is the latest user message by then.
Policy(r) ==
  /\ req[r].pc = "policy"
  /\ \/ req' = [req EXCEPT ![r] = Keyed(@, turn[req[r].thread])]
     \/ req' = [req EXCEPT ![r] = Idle]     \* tool_denied row, no result
  /\ UNCHANGED <<turn, queued, live, plan, args, appr, snap, journal, effect,
                 results, faults>>

\* find_replayed_write: a journaled write is answered from the cache.
Lookup(r) ==
  /\ req[r].pc = "lookup"
  /\ req' = [req EXCEPT ![r] =
               Goto(@, IF Journaled(appr[req[r].appr].payload, req[r].key)
                         THEN "append" ELSE "invoke")]
  /\ UNCHANGED <<turn, queued, live, plan, args, appr, snap, journal, effect,
                 results, faults>>

\* invoke_write: the tool raises without an effect, or its effect happens.
\* A batch that raises half-way, or a failing "after" snapshot, leaves the
\* effect without reaching the journal.
Invoke(r) ==
  /\ req[r].pc = "invoke"
  /\ LET a == req[r].appr
         ran == [effect EXCEPT ![a] = [n |-> @.n + 1, key |-> req[r].key]]
     IN \/ /\ req' = [req EXCEPT ![r] = Idle]
           /\ UNCHANGED <<effect, faults>>
        \/ /\ effect' = ran
           /\ req' = [req EXCEPT ![r] = Goto(@, "record")]
           /\ UNCHANGED faults
        \/ /\ faults < MaxFaults
           /\ faults' = faults + 1
           /\ effect' = ran
           /\ req' = [req EXCEPT ![r] = Idle]
  /\ UNCHANGED <<turn, queued, live, plan, args, appr, snap, journal, results>>

\* record_tool_write: the unique index on the key refuses a second row, and the
\* handler then fails without a tool row.
Record(r) ==
  /\ req[r].pc = "record"
  /\ LET a == req[r].appr IN
       IF Journaled(appr[a].payload, req[r].key)
         THEN /\ req' = [req EXCEPT ![r] = Idle]
              /\ UNCHANGED journal
         ELSE /\ req' = [req EXCEPT ![r] = Goto(@, "append")]
              /\ journal' = journal \cup {[payload |-> appr[a].payload,
                                           key |-> req[r].key, appr |-> a]}
  /\ UNCHANGED <<turn, queued, live, plan, args, appr, snap, effect, results,
                 faults>>

\* The tool row with the (executed or cached) result; the summarizing round
\* that follows only adds text.
AppendResult(r) ==
  /\ req[r].pc = "append"
  /\ results' = results \cup {req[r].appr}
  /\ req' = [req EXCEPT ![r] = Idle]
  /\ UNCHANGED <<turn, queued, live, plan, args, appr, snap, journal, effect,
                 faults>>

\* Fault: the row is rejected whatever its status.
RejectUnconditional(a) ==
  /\ appr[a].status # "none"
  /\ appr' = [appr EXCEPT ![a] = Decide(@, "rejected")]
  /\ UNCHANGED <<turn, queued, live, plan, args, snap, journal, effect,
                 results, req, faults>>

\* decision = "reject": expire, then the conditional UPDATE of reject_pending.
Reject(a) ==
  /\ appr[a].status # "none"
  /\ appr' = [Expired(appr[a].thread) EXCEPT ![a] =
                IF @.status = "pending" THEN Decide(@, "rejected") ELSE @]
  /\ UNCHANGED <<turn, queued, live, plan, args, snap, journal, effect,
                 results, req, faults>>

-----------------------------------------------------------------------------
(* Revise: mint the replacement, then supersede the old row *)

\* revise_approval's SELECT: a decided row is refused, a stale one expires.
Revise(r, a, p) ==
  /\ req[r].pc = "idle" /\ appr[a].status = "pending"
  /\ IF appr[a].stale
       THEN /\ appr' = [appr EXCEPT ![a] = Decide(@, "expired")]
            /\ UNCHANGED req
       ELSE /\ req' = [req EXCEPT ![r] =
                         Handling("mint", appr[a].thread, a, None, p)]
            /\ UNCHANGED appr
  /\ UNCHANGED <<turn, queued, live, plan, args, snap, journal, effect,
                 results, faults>>

\* Fault: the id is handed on, the row itself is to be inserted later.
MintRevisionLater(r) ==
  /\ req[r].pc = "mint"
  /\ \E b \in Approval :
       /\ appr[b] = NoRow
       /\ req' = [req EXCEPT ![r] = Replaced(@, b)]
  /\ UNCHANGED <<turn, queued, live, plan, args, appr, snap, journal, effect,
                 results, faults>>

\* create_approval for the same call: committed before the old row changes.
MintRevision(r) ==
  /\ req[r].pc = "mint"
  /\ \E b \in Approval :
       /\ appr[b] = NoRow
       /\ appr' = Minted(appr, b, req[r].thread, appr[req[r].appr].call,
                         req[r].payload)
       /\ req' = [req EXCEPT ![r] = Replaced(@, b)]
  /\ UNCHANGED <<turn, queued, live, plan, args, snap, journal, effect,
                 results, faults>>

\* Fault: the old row is superseded whatever its status.
SupersedeUnconditional(r) ==
  /\ req[r].pc = "supersede"
  /\ appr' = [appr EXCEPT ![req[r].appr] = Superseded(@, req[r].fresh)]
  /\ req' = [req EXCEPT ![r] = Idle]
  /\ UNCHANGED <<turn, queued, live, plan, args, snap, journal, effect,
                 results, faults>>

\* The conditional UPDATE; when the old row was decided meanwhile the handler
\* fails and the replacement stays behind, pending.
Supersede(r) ==
  /\ req[r].pc = "supersede"
  /\ LET a == req[r].appr IN
       appr' = IF appr[a].status = "pending"
                 THEN [appr EXCEPT ![a] = Superseded(@, req[r].fresh)]
                 ELSE appr
  /\ req' = [req EXCEPT ![r] = Idle]
  /\ UNCHANGED <<turn, queued, live, plan, args, snap, journal, effect,
                 results, faults>>

-----------------------------------------------------------------------------
(* Retry and resume: an unexecuted write gets a fresh approval *)

\* The guards of POST .../retry and the reading of the transcript: a call of
\* the latest turn without a successful tool row is to be retried.
Retry(r, t) ==
  /\ req[r].pc = "idle" /\ live[t] = "idle"
  /\ appr' = Expired(t)
  /\ \/ UNCHANGED req          \* refused, or nothing that may be retried
     \/ /\ \A a \in Pending(t) : appr'[a].status = "expired"
        /\ \E c \in plan[t] :
             /\ ~Completed(c)
             /\ req' = [req EXCEPT ![r] =
                             Handling("remint", t, None, c, args[c])]
  /\ UNCHANGED <<turn, queued, live, plan, args, snap, journal, effect,
                 results, faults>>

\* create_approval of retry_failed_steps, with the arguments of the transcript.
Remint(r) ==
  /\ req[r].pc = "remint"
  /\ \E b \in Approval :
       /\ appr[b] = NoRow
       /\ appr' = Minted(appr, b, req[r].thread, req[r].call, req[r].payload)
  /\ req' = [req EXCEPT ![r] = Idle]
  /\ UNCHANGED <<turn, queued, live, plan, args, snap, journal, effect,
                 results, faults>>

\* pause_suspended_on_approval: no live task; the oldest pending row (rows of
\* one second are not ordered) is to be frozen, or nothing is to be paused ...
Pause(r, t) ==
  /\ req[r].pc = "idle" /\ live[t] = "idle"
  /\ appr' = Expired(t)
  /\ LET left == {a \in Pending(t) : appr'[a].status = "pending"} IN
       \/ left = {} /\ UNCHANGED req
       \/ \E a \in left :
            req' = [req EXCEPT ![r] = Handling("freeze", t, a, None, None)]
  /\ UNCHANGED <<turn, queued, live, plan, args, snap, journal, effect,
                 results, faults>>

\* ... and the snapshot is saved once the transcript has been read.
Freeze(r) ==
  /\ req[r].pc = "freeze"
  /\ snap' = [snap EXCEPT ![req[r].thread] = req[r].appr]
  /\ req' = [req EXCEPT ![r] = Idle]
  /\ UNCHANGED <<turn, queued, live, plan, args, appr, journal, effect,
                 results, faults>>

\* resume_prepare reads the snapshot ...
Resume(r, t) ==
  /\ req[r].pc = "idle" /\ snap[t] # None
  /\ req' = [req EXCEPT ![r] =
               Handling("settle", t, snap[t], None, None)]
  /\ UNCHANGED <<turn, queued, live, plan, args, appr, snap, journal, effect,
                 results, faults>>

\* ... then consumes it; an approval that expired meanwhile is minted anew.
Settle(r) ==
  /\ req[r].pc = "settle"
  /\ LET t == req[r].thread
         a == req[r].appr
     IN /\ snap' = [snap EXCEPT ![t] = None]
        /\ IF Expired(t)[a].status = "expired"
             THEN \E b \in Approval :
                    /\ appr[b] = NoRow
                    /\ appr' = Minted(Expired(t), b, t, appr[a].call,
                                      appr[a].payload)
             ELSE appr' = Expired(t)
  /\ req' = [req EXCEPT ![r] = Idle]
  /\ UNCHANGED <<turn, queued, live, plan, args, journal, effect, results,
                 faults>>

-----------------------------------------------------------------------------
\* The process restarts: tasks and handlers are gone, the tables are not.
Crash ==
  /\ faults < MaxFaults
  /\ faults' = faults + 1
  /\ queued' = [t \in Thread |-> 0]
  /\ live' = [t \in Thread |-> "idle"]
  /\ req' = [r \in Request |-> Idle]
  /\ UNCHANGED <<turn, plan, args, appr, snap, journal, effect, results>>

TurnStep(t) ==
  \/ Post(t) \/ StartTurn(t) \/ ProviderAnswers(t) \/ ProviderSuspends(t)
  \/ ProviderDenied(t)

HandlerStep(r) ==
  \/ \E a \in Approval : Approve(r, a)
  \/ Claim(r) \/ Policy(r) \/ Lookup(r) \/ Invoke(r) \/ Record(r)
  \/ AppendResult(r)
  \/ \E a \in Approval, p \in Payload : Revise(r, a, p)
  \/ MintRevision(r) \/ Supersede(r)
  \/ \E t \in Thread : Retry(r, t) \/ Pause(r, t) \/ Resume(r, t)
  \/ Remint(r) \/ Freeze(r) \/ Settle(r)

Next ==
  \/ \E t \in Thread : TurnStep(t)
  \/ \E r \in Request : HandlerStep(r)
  \/ \E a \in Approval : Age(a) \/ Reject(a)
  \/ Crash

Spec == Init /\ [][Next]_vars

-----------------------------------------------------------------------------
(* Properties *)

\* Two concurrent approves of one row never both run its write, whatever
\* revise, reject, expiry, retry or a restart does meanwhile (take_approval).
ExecutedAtMostOnce == \A a \in Approval : effect[a].n <= 1

\* A write that ran belongs to a row the user approved: no row that ended
\* rejected, expired or superseded was ever executed, before or after.
ExecutedOnlyIfApproved ==
  \A a \in Approval : effect[a].n > 0 => appr[a].status = "approved"

\* The pointer of a superseded row leads to a row for the same call, even when
\* the process stops between the two statements of revise_approval.
SupersededPointsToReplacement ==
  \A a \in Approval : appr[a].status = "superseded" =>
    /\ appr[a].by # None
    /\ appr[appr[a].by].status # "none"
    /\ appr[appr[a].by].call = appr[a].call
    /\ appr[appr[a].by].thread = appr[a].thread

\* A decision is final: neither a late expiry nor a racing revise or reject
\* rewrites the status of a decided row.
DecisionsAreFinal ==
  [][\A a \in Approval : appr[a].status \in Decided =>
       appr'[a].status = appr[a].status]_appr

\* routers/agent.py, resume_turn: steps already executed are never repeated: a
\* tool call is executed at most once, over all the approvals that revise,
\* retry and resume mint for it.
\* Refuted by the resume of an expired row; not run, see the README.
CallExecutedOnce ==
  \A a, b \in Approval :
    /\ a # b
    /\ effect[a].n > 0 /\ effect[b].n > 0
    => appr[a].call # appr[b].call

\* agent.py, apply_approval: "a replayed (tool, args_hash, turn) that already
\* succeeded returns the CACHED result and never executes a second time".
NoDuplicateSideEffect ==
  \A a, b \in Approval :
    /\ a # b
    /\ effect[a].n > 0 /\ effect[b].n > 0
    /\ appr[a].thread = appr[b].thread /\ appr[a].payload = appr[b].payload
    => effect[a].key # effect[b].key

\* agent.py, apply_approval: "the write goes through the per-thread journal": a
\* tool row that reports success stands on a write with its arguments that ran
\* in its own conversation.
ResultsAreOwn ==
  \A a \in results : \E b \in Approval :
    /\ effect[b].n > 0
    /\ appr[b].payload = appr[a].payload /\ appr[b].thread = appr[a].thread

=============================================================================
