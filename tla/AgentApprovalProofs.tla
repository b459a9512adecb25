------------------------ MODULE AgentApprovalProofs ------------------------
(* What holds of AgentApproval for every set of threads, calls, approval    *)
(* rows and handlers, and for every bound.                                  *)
EXTENDS AgentApproval, TLAPS

\* Handlers that have claimed a row, and those that have not run its write yet.
Claimed == {"policy", "lookup", "invoke", "record", "append"}
BeforeEffect == {"policy", "lookup", "invoke"}

\* A handler at work knows its thread and, unless it retries a call, its row.
HandlersWellFormed ==
  \A r \in Request :
    /\ req[r].pc # "idle" => req[r].thread \in Thread
    /\ req[r].pc \notin {"idle", "remint"} => req[r].appr \in Approval

RowsWellFormed ==
  \A a \in Approval : appr[a].status # "none" => appr[a].thread \in Thread

\* A claimed row stays approved, belongs to one handler only, and its write has
\* not run while that handler is still on its way to it.
ClaimsExclusive ==
  /\ \A r \in Request : req[r].pc \in Claimed =>
       appr[req[r].appr].status = "approved"
  /\ \A r, s \in Request :
       r # s /\ req[r].pc \in Claimed /\ req[s].pc \in Claimed =>
         req[r].appr # req[s].appr
  /\ \A r \in Request : req[r].pc \in BeforeEffect =>
       effect[req[r].appr].n = 0

IInv ==
  /\ TypeOK
  /\ HandlersWellFormed
  /\ RowsWellFormed
  /\ ClaimsExclusive
  /\ ExecutedOnlyIfApproved
  /\ ExecutedAtMostOnce

-----------------------------------------------------------------------------
\* The tables are empty, every handler is idle: the invariant holds at first.
LEMMA InitIInv == Init => IInv
BY NoneIsNew, BoundsAreNaturals
DEF Init, IInv, TypeOK, HandlersWellFormed, RowsWellFormed, ClaimsExclusive,
    Claimed, BeforeEffect, ExecutedOnlyIfApproved, ExecutedAtMostOnce,
    Decided, Steps, Row, Handler, NoRow, Idle, Handling

\* Deciding a row changes its status and nothing that identifies it.
LEMMA DecideRow ==
  ASSUME NEW row \in Row, NEW s \in Decided
  PROVE  /\ Decide(row, s) \in Row
         /\ Decide(row, s).status = s
         /\ Decide(row, s).thread = row.thread
         /\ Decide(row, s).payload = row.payload
         /\ Decide(row, s).call = row.call
BY DEF Decide, Row, Decided

\* Ageing a row changes nothing but its age.
LEMMA AgedRow ==
  ASSUME NEW row \in Row
  PROVE  /\ Aged(row) \in Row
         /\ Aged(row).status = row.status
         /\ Aged(row).thread = row.thread
         /\ Aged(row).payload = row.payload
         /\ Aged(row).call = row.call
BY DEF Aged, Row

\* expire_stale only moves pending rows, and only to 'expired'.
LEMMA ExpiredRows ==
  ASSUME TypeOK, NEW t
  PROVE  /\ Expired(t) \in [Approval -> Row]
         /\ \A a \in Approval :
              /\ \/ Expired(t)[a] = appr[a]
                 \/ appr[a].status = "pending" /\ Expired(t)[a].status = "expired"
              /\ Expired(t)[a].thread = appr[a].thread
              /\ Expired(t)[a].payload = appr[a].payload
              /\ Expired(t)[a].call = appr[a].call
<1>1. ASSUME NEW a \in Approval
      PROVE  /\ Expired(t)[a] \in Row
             /\ \/ Expired(t)[a] = appr[a]
                \/ appr[a].status = "pending" /\ Expired(t)[a].status = "expired"
             /\ Expired(t)[a].thread = appr[a].thread
             /\ Expired(t)[a].payload = appr[a].payload
             /\ Expired(t)[a].call = appr[a].call
  <2>1. appr[a] \in Row
    BY DEF TypeOK
  <2>2. "expired" \in Decided
    BY DEF Decided
  <2> QED
    BY <2>1, <2>2, DecideRow DEF Expired
<1> QED
  BY <1>1 DEF Expired

\* A freshly minted row is well typed.
LEMMA MintedRows ==
  ASSUME NEW rows \in [Approval -> Row], NEW b \in Approval,
         NEW t \in Thread, NEW c \in Call \cup {None},
         NEW p \in Payload \cup {None}
  PROVE  /\ Minted(rows, b, t, c, p) \in [Approval -> Row]
         /\ Minted(rows, b, t, c, p)[b].status = "pending"
         /\ Minted(rows, b, t, c, p)[b].thread = t
         /\ \A a \in Approval \ {b} : Minted(rows, b, t, c, p)[a] = rows[a]
BY DEF Minted, Row

\* Steps that neither claim a row nor run a write: approved rows stay approved
\* and the claiming handlers move on or finish.
LEMMA NeutralStep ==
  ASSUME IInv, TypeOK', HandlersWellFormed', RowsWellFormed',
         UNCHANGED effect,
         \A a \in Approval : appr[a].status = "approved" =>
                               appr'[a].status = "approved",
         \A r \in Request : req'[r].pc \in Claimed =>
           /\ req[r].pc \in Claimed
           /\ req'[r].appr = req[r].appr
           /\ req'[r].pc \in BeforeEffect => req[r].pc \in BeforeEffect
  PROVE  IInv'
<1>1. ClaimsExclusive'
  BY DEF IInv, ClaimsExclusive, HandlersWellFormed, Claimed, BeforeEffect
<1>2. ExecutedOnlyIfApproved' /\ ExecutedAtMostOnce'
  BY DEF IInv, ExecutedOnlyIfApproved, ExecutedAtMostOnce
<1> QED BY <1>1, <1>2 DEF IInv

-----------------------------------------------------------------------------
(* Turns, time and restarts leave the handlers' claims alone *)

\* Turns that neither mint nor expire a row preserve the invariant.
LEMMA TurnKeeps ==
  ASSUME IInv, NEW t \in Thread,
         \/ StartTurn(t) \/ ProviderAnswers(t) \/ ProviderDenied(t)
  PROVE  IInv'
<1>1. TypeOK'
  <2>1. CASE StartTurn(t)
    BY <2>1, BoundsAreNaturals DEF IInv, TypeOK, StartTurn
  <2>2. CASE ProviderAnswers(t)
    BY <2>2 DEF IInv, TypeOK, ProviderAnswers
  <2>3. CASE ProviderDenied(t)
    <3>1. PICK C \in SUBSET Call, f \in [Call -> Payload] : Emit(t, C, f)
      BY <2>3 DEF ProviderDenied
    <3> QED
      BY <2>3, <3>1 DEF IInv, TypeOK, ProviderDenied, Emit
  <2> QED BY <2>1, <2>2, <2>3
<1>2. UNCHANGED <<appr, req, effect>>
  BY DEF StartTurn, ProviderAnswers, ProviderDenied
<1>3. HandlersWellFormed' /\ RowsWellFormed'
  BY <1>2 DEF IInv, HandlersWellFormed, RowsWellFormed
<1> QED
  BY <1>1, <1>2, <1>3, NeutralStep

\* So does a message whose only effect on the rows is expire_stale.
LEMMA PostKeeps ==
  ASSUME IInv, NEW t \in Thread, Post(t)
  PROVE  IInv'
<1>0. TypeOK
  BY DEF IInv
<1>1. appr' = Expired(t) /\ UNCHANGED <<req, effect>>
  BY DEF Post
<1>2. TypeOK'
  BY <1>0, <1>1, ExpiredRows, BoundsAreNaturals DEF TypeOK, Post
<1>3. HandlersWellFormed' /\ RowsWellFormed'
  BY <1>0, <1>1, ExpiredRows DEF IInv, HandlersWellFormed, RowsWellFormed
<1>4. \A a \in Approval : appr[a].status = "approved" =>
                            appr'[a].status = "approved"
  BY <1>0, <1>1, ExpiredRows
<1> QED
  BY <1>1, <1>2, <1>3, <1>4, NeutralStep

\* A turn that suspends mints a row nobody has claimed.
LEMMA SuspendKeeps ==
  ASSUME IInv, NEW t \in Thread, ProviderSuspends(t)
  PROVE  IInv'
<1>0. TypeOK
  BY DEF IInv
<1>1. UNCHANGED <<req, effect>>
  BY DEF ProviderSuspends
<1>a. PICK C \in SUBSET Call, f \in [Call -> Payload] :
        /\ Emit(t, C, f)
        /\ \E c \in C, b \in Approval :
             /\ appr[b] = NoRow
             /\ appr' = Minted(appr, b, t, c, f[c])
  BY DEF ProviderSuspends
<1>2. PICK c \in C, b \in Approval :
        appr[b] = NoRow /\ appr' = Minted(appr, b, t, c, f[c])
  BY <1>a
<1>3. /\ appr' \in [Approval -> Row]
      /\ appr'[b].thread = t
      /\ \A a \in Approval \ {b} : appr'[a] = appr[a]
  BY <1>0, <1>2, MintedRows DEF TypeOK
<1>4. TypeOK'
  BY <1>0, <1>1, <1>a, <1>3 DEF TypeOK, ProviderSuspends, Emit
<1>5. HandlersWellFormed' /\ RowsWellFormed'
  BY <1>1, <1>3 DEF IInv, HandlersWellFormed, RowsWellFormed
<1>6. \A a \in Approval : appr[a].status = "approved" =>
                            appr'[a].status = "approved"
  BY <1>2, <1>3 DEF NoRow
<1> QED
  BY <1>1, <1>4, <1>5, <1>6, NeutralStep

\* Time alone decides no row.
LEMMA AgeKeeps ==
  ASSUME IInv, NEW a \in Approval, Age(a)
  PROVE  IInv'
<1>0. TypeOK /\ appr[a] \in Row
  BY DEF IInv, TypeOK
<1>a. appr' = [appr EXCEPT ![a] = Aged(appr[a])] /\ UNCHANGED <<req, effect>>
  BY DEF Age
<1>1. TypeOK'
  BY <1>0, <1>a, AgedRow DEF TypeOK, Age
<1>2. /\ UNCHANGED <<req, effect>>
      /\ \A b \in Approval : /\ appr'[b].status = appr[b].status
                             /\ appr'[b].thread = appr[b].thread
  BY <1>0, <1>a, AgedRow DEF TypeOK
<1>3. HandlersWellFormed' /\ RowsWellFormed'
  BY <1>2 DEF IInv, HandlersWellFormed, RowsWellFormed
<1> QED
  BY <1>1, <1>2, <1>3, NeutralStep

\* A restart forgets the claims of the handlers, not the decisions.
LEMMA CrashKeeps ==
  ASSUME IInv, Crash
  PROVE  IInv'
<1>1. TypeOK'
  BY NoneIsNew, BoundsAreNaturals
  DEF IInv, TypeOK, Crash, Idle, Handling, Handler, Steps
<1>2. UNCHANGED <<appr, effect>> /\ \A r \in Request : req'[r].pc = "idle"
  BY DEF Crash, Idle, Handling
<1>3. HandlersWellFormed' /\ RowsWellFormed'
  BY <1>2 DEF IInv, HandlersWellFormed, RowsWellFormed
<1> QED
  BY <1>1, <1>2, <1>3, NeutralStep DEF Claimed

-----------------------------------------------------------------------------
(* Handlers *)

\* The record of a handler that starts.
LEMMA HandlingFields ==
  ASSUME NEW pc \in Steps, NEW t \in Thread \cup {None},
         NEW a \in Approval \cup {None}, NEW c \in Call \cup {None},
         NEW p \in Payload \cup {None}
  PROVE  LET h == Handling(pc, t, a, c, p)
         IN  h \in Handler /\ h.pc = pc /\ h.thread = t /\ h.appr = a
BY BoundsAreNaturals DEF Handling, Handler

\* The record of a slot that is free.
LEMMA IdleFields == Idle \in Handler /\ Idle.pc = "idle"
BY HandlingFields DEF Idle, Steps

\* A handler that goes on keeps its thread and its row.
LEMMA GotoFields ==
  ASSUME NEW h \in Handler, NEW pc \in Steps
  PROVE  /\ Goto(h, pc) \in Handler
         /\ Goto(h, pc).pc = pc
         /\ Goto(h, pc).thread = h.thread
         /\ Goto(h, pc).appr = h.appr
BY DEF Goto, Handler

\* So does one that has computed its turn key.
LEMMA KeyedFields ==
  ASSUME NEW h \in Handler, NEW k \in 0 .. MaxTurns
  PROVE  /\ Keyed(h, k) \in Handler
         /\ Keyed(h, k).pc = "lookup"
         /\ Keyed(h, k).thread = h.thread
         /\ Keyed(h, k).appr = h.appr
<1>1. PICK g : g = Goto(h, "lookup")
  OBVIOUS
<1>2. g \in Handler /\ g.pc = "lookup" /\ g.thread = h.thread /\ g.appr = h.appr
  BY <1>1, GotoFields DEF Steps
<1>3. Keyed(h, k) = [g EXCEPT !.key = k]
  BY <1>1 DEF Keyed
<1> QED
  BY <1>2, <1>3 DEF Handler

\* So does one that has minted the replacement of its row.
LEMMA ReplacedFields ==
  ASSUME NEW h \in Handler, NEW b \in Approval
  PROVE  /\ Replaced(h, b) \in Handler
         /\ Replaced(h, b).pc = "supersede"
         /\ Replaced(h, b).thread = h.thread
         /\ Replaced(h, b).appr = h.appr
<1>1. PICK g : g = Goto(h, "supersede")
  OBVIOUS
<1>2. /\ g \in Handler /\ g.pc = "supersede"
      /\ g.thread = h.thread /\ g.appr = h.appr
  BY <1>1, GotoFields DEF Steps
<1>3. Replaced(h, b) = [g EXCEPT !.fresh = b, !.payload = None]
  BY <1>1 DEF Replaced
<1> QED
  BY <1>2, <1>3 DEF Handler

\* One handler takes a step that neither claims a row nor runs a write.
LEMMA HandlerStepKeeps ==
  ASSUME IInv, TypeOK', RowsWellFormed', UNCHANGED effect,
         NEW r \in Request, NEW h \in Handler, req' = [req EXCEPT ![r] = h],
         h.pc # "idle" => h.thread \in Thread,
         h.pc \notin {"idle", "remint"} => h.appr \in Approval,
         \A a \in Approval : appr[a].status = "approved" =>
                               appr'[a].status = "approved",
         h.pc \in Claimed =>
           /\ req[r].pc \in Claimed
           /\ h.appr = req[r].appr
           /\ h.pc \in BeforeEffect => req[r].pc \in BeforeEffect
  PROVE  IInv'
<1>1. \A s \in Request : req'[s] = IF s = r THEN h ELSE req[s]
  BY DEF IInv, TypeOK
<1>2. HandlersWellFormed'
  BY <1>1 DEF IInv, HandlersWellFormed
<1>3. \A s \in Request : req'[s].pc \in Claimed =>
        /\ req[s].pc \in Claimed
        /\ req'[s].appr = req[s].appr
        /\ req'[s].pc \in BeforeEffect => req[s].pc \in BeforeEffect
  BY <1>1
<1> QED
  BY <1>2, <1>3, NeutralStep

\* apply_approval up to the SELECT decides nothing but expiries.
LEMMA ApproveKeeps ==
  ASSUME IInv, NEW r \in Request, NEW a \in Approval, Approve(r, a)
  PROVE  IInv'
<1> DEFINE t == appr[a].thread
<1>0. TypeOK /\ RowsWellFormed /\ t \in Thread
  BY DEF IInv, Approve, RowsWellFormed
<1>1. appr' = Expired(t) /\ UNCHANGED effect
  BY DEF Approve
<1>2. PICK h : /\ req' = [req EXCEPT ![r] = h]
               /\ \/ h = Idle
                  \/ h = Handling("claim", t, a, None, None)
  BY DEF Approve
<1> HIDE DEF t
<1>3. /\ h \in Handler
      /\ h.pc # "idle" => h.thread \in Thread /\ h.appr \in Approval
      /\ h.pc \in {"idle", "claim"}
  BY <1>0, <1>2, IdleFields, HandlingFields DEF Steps
<1>4. RowsWellFormed' /\ appr' \in [Approval -> Row]
  BY <1>0, <1>1, ExpiredRows DEF RowsWellFormed
<1>5. TypeOK'
  BY <1>0, <1>2, <1>3, <1>4 DEF TypeOK, Approve
<1>6. \A b \in Approval : appr[b].status = "approved" =>
                            appr'[b].status = "approved"
  BY <1>0, <1>1, ExpiredRows
<1> QED
  BY <1>1, <1>2, <1>3, <1>4, <1>5, <1>6, HandlerStepKeeps DEF Claimed

\* Reading the policy keeps the claim, or gives the row up for good.
LEMMA PolicyKeeps ==
  ASSUME IInv, NEW r \in Request, Policy(r)
  PROVE  IInv'
<1>0. /\ TypeOK /\ RowsWellFormed /\ req[r] \in Handler
      /\ req[r].thread \in Thread /\ req[r].appr \in Approval
  BY DEF IInv, TypeOK, Policy, HandlersWellFormed
<1>1. UNCHANGED <<appr, effect>> /\ req[r].pc = "policy"
  BY DEF Policy
<1>2. PICK h : /\ req' = [req EXCEPT ![r] = h]
               /\ h = Idle \/ h = Keyed(req[r], turn[req[r].thread])
  BY DEF Policy
<1>3. /\ h \in Handler
      /\ \/ h.pc = "idle"
         \/ /\ h.pc = "lookup"
            /\ h.thread = req[r].thread /\ h.appr = req[r].appr
  BY <1>0, <1>2, IdleFields, KeyedFields DEF TypeOK
<1>4. TypeOK' /\ RowsWellFormed'
  BY <1>0, <1>1, <1>2, <1>3 DEF TypeOK, RowsWellFormed, Policy
<1> QED
  BY <1>0, <1>1, <1>2, <1>3, <1>4, HandlerStepKeeps DEF Claimed, BeforeEffect

\* So does the lookup in the journal.
LEMMA LookupKeeps ==
  ASSUME IInv, NEW r \in Request, Lookup(r)
  PROVE  IInv'
<1>0. /\ TypeOK /\ RowsWellFormed /\ req[r] \in Handler
      /\ req[r].thread \in Thread /\ req[r].appr \in Approval
  BY DEF IInv, TypeOK, Lookup, HandlersWellFormed
<1>1. UNCHANGED <<appr, effect>> /\ req[r].pc = "lookup"
  BY DEF Lookup
<1> DEFINE pc == IF Journaled(appr[req[r].appr].payload, req[r].key)
                   THEN "append" ELSE "invoke"
<1>2. req' = [req EXCEPT ![r] = Goto(req[r], pc)] /\ pc \in {"append", "invoke"}
  BY DEF Lookup
<1> HIDE DEF pc
<1>3. /\ Goto(req[r], pc) \in Handler
      /\ Goto(req[r], pc).pc = pc
      /\ Goto(req[r], pc).thread = req[r].thread
      /\ Goto(req[r], pc).appr = req[r].appr
  BY <1>0, <1>2, GotoFields DEF Steps
<1>4. TypeOK' /\ RowsWellFormed'
  BY <1>0, <1>1, <1>2, <1>3 DEF TypeOK, RowsWellFormed, Lookup
<1> QED
  BY <1>0, <1>1, <1>2, <1>3, <1>4, HandlerStepKeeps DEF Claimed, BeforeEffect

\* The journal entry is made after the effect; the claim is over.
LEMMA RecordKeeps ==
  ASSUME IInv, NEW r \in Request, Record(r)
  PROVE  IInv'
<1>0. /\ TypeOK /\ RowsWellFormed /\ req[r] \in Handler
      /\ req[r].thread \in Thread /\ req[r].appr \in Approval
  BY DEF IInv, TypeOK, Record, HandlersWellFormed
<1>1. UNCHANGED <<appr, effect>> /\ req[r].pc = "record"
  BY DEF Record
<1>2. PICK h : /\ req' = [req EXCEPT ![r] = h]
               /\ h = Idle \/ h = Goto(req[r], "append")
  BY DEF Record
<1>3. /\ h \in Handler
      /\ \/ h.pc = "idle"
         \/ /\ h.pc = "append"
            /\ h.thread = req[r].thread /\ h.appr = req[r].appr
  BY <1>0, <1>2, IdleFields, GotoFields DEF Steps
<1>4. journal' \subseteq [payload : Payload \cup {None}, key : 0 .. MaxTurns,
                          appr : Approval]
  BY <1>0 DEF Record, TypeOK, Row, Handler
<1>5. TypeOK' /\ RowsWellFormed'
  BY <1>0, <1>1, <1>2, <1>3, <1>4 DEF TypeOK, RowsWellFormed, Record
<1> QED
  BY <1>0, <1>1, <1>2, <1>3, <1>5, HandlerStepKeeps DEF Claimed, BeforeEffect

\* The tool row ends the handler.
LEMMA AppendKeeps ==
  ASSUME IInv, NEW r \in Request, AppendResult(r)
  PROVE  IInv'
<1>0. TypeOK /\ RowsWellFormed /\ req[r].appr \in Approval
  BY DEF IInv, AppendResult, HandlersWellFormed
<1>1. UNCHANGED <<appr, effect>> /\ req' = [req EXCEPT ![r] = Idle]
  BY DEF AppendResult
<1>2. TypeOK' /\ RowsWellFormed'
  BY <1>0, <1>1, IdleFields DEF TypeOK, RowsWellFormed, AppendResult
<1> QED
  BY <1>1, <1>2, IdleFields, HandlerStepKeeps DEF Claimed

\* reject_pending decides a pending row only, so no claimed one.
LEMMA RejectKeeps ==
  ASSUME IInv, NEW a \in Approval, Reject(a)
  PROVE  IInv'
<1>0. TypeOK
  BY DEF IInv
<1> DEFINE rows == Expired(appr[a].thread)
<1>1. /\ UNCHANGED <<req, effect>>
      /\ appr' = [rows EXCEPT ![a] =
                    IF rows[a].status = "pending"
                      THEN Decide(rows[a], "rejected") ELSE rows[a]]
  BY DEF Reject
<1>2. /\ rows \in [Approval -> Row]
      /\ \A b \in Approval : rows[b].thread = appr[b].thread
      /\ \A b \in Approval : rows[b].status = "none" => appr[b].status = "none"
      /\ \A b \in Approval : appr[b].status = "approved" =>
                               rows[b].status = "approved"
  BY <1>0, ExpiredRows
<1> HIDE DEF rows
<1>3. \A b \in Approval :
        /\ appr'[b] \in Row
        /\ appr'[b].thread = appr[b].thread
        /\ appr'[b].status = "none" => appr[b].status = "none"
        /\ appr[b].status = "approved" => appr'[b].status = "approved"
  BY <1>1, <1>2, DecideRow DEF Decided
<1>4. \A b \in Approval : appr'[b].status # "none" => appr[b].status # "none"
  <2>1. appr[a].status # "none"
    BY DEF Reject
  <2>2. \A b \in Approval : appr[b].status = "none" => rows[b].status = "none"
    BY <1>0, ExpiredRows DEF rows
  <2> QED BY <1>1, <1>2, <2>1, <2>2
<1>5. TypeOK'
  BY <1>0, <1>1, <1>2, <1>3 DEF TypeOK, Reject
<1>6. HandlersWellFormed' /\ RowsWellFormed'
  BY <1>1, <1>3, <1>4 DEF IInv, HandlersWellFormed, RowsWellFormed
<1> QED
  BY <1>1, <1>3, <1>5, <1>6, NeutralStep

\* A row is minted and nothing else changes: new rows belong to a thread, and
\* approved rows are not touched.
LEMMA MintKeepsRows ==
  ASSUME TypeOK, RowsWellFormed,
         NEW rows \in [Approval -> Row],
         \A a \in Approval : /\ rows[a].thread = appr[a].thread
                             /\ rows[a].status = "none" <=> appr[a].status = "none"
                             /\ appr[a].status = "approved" =>
                                  rows[a].status = "approved",
         NEW b \in Approval, appr[b] = NoRow,
         NEW t \in Thread, NEW c \in Call \cup {None},
         NEW p \in Payload \cup {None},
         appr' = Minted(rows, b, t, c, p)
  PROVE  /\ appr' \in [Approval -> Row]
         /\ RowsWellFormed'
         /\ \A a \in Approval : appr[a].status = "approved" =>
                                  appr'[a].status = "approved"
<1> DEFINE new == Minted(rows, b, t, c, p)
<1>a. /\ new \in [Approval -> Row] /\ new[b].thread = t
      /\ \A a \in Approval \ {b} : new[a] = rows[a]
  BY DEF Minted, Row
<1> HIDE DEF new
<1>1. /\ appr' \in [Approval -> Row] /\ appr'[b].thread = t
      /\ \A a \in Approval \ {b} : appr'[a] = rows[a]
  BY <1>a DEF new
<1>2. appr[b].status = "none"
  BY DEF NoRow
<1> QED
  BY <1>1, <1>2 DEF RowsWellFormed

\* The SELECT of revise_approval claims nothing.
LEMMA ReviseKeeps ==
  ASSUME IInv, NEW r \in Request, NEW a \in Approval, NEW p \in Payload,
         Revise(r, a, p)
  PROVE  IInv'
<1>0. /\ TypeOK /\ RowsWellFormed /\ appr[a] \in Row
      /\ appr[a].thread \in Thread /\ appr[a].status = "pending"
  BY DEF IInv, TypeOK, Revise, RowsWellFormed
<1>1. CASE appr[a].stale
  <2>1. /\ appr' = [appr EXCEPT ![a] = Decide(appr[a], "expired")]
        /\ UNCHANGED <<req, effect>>
    BY <1>1 DEF Revise
  <2>2. \A b \in Approval :
          /\ appr'[b] \in Row
          /\ appr'[b].thread = appr[b].thread
          /\ b # a => appr'[b] = appr[b]
    BY <1>0, <2>1, DecideRow DEF TypeOK, Decided
  <2>3. TypeOK'
    BY <1>0, <2>1, <2>2 DEF TypeOK, Revise
  <2>4. HandlersWellFormed' /\ RowsWellFormed'
    BY <1>0, <2>1, <2>2 DEF IInv, HandlersWellFormed, RowsWellFormed
  <2>5. \A b \in Approval : appr[b].status = "approved" =>
                              appr'[b].status = "approved"
    BY <1>0, <2>2
  <2> QED
    BY <2>1, <2>3, <2>4, <2>5, NeutralStep
<1>2. CASE ~appr[a].stale
  <2> DEFINE t == appr[a].thread
             h == Handling("mint", t, a, None, p)
  <2>1. UNCHANGED <<appr, effect>> /\ req' = [req EXCEPT ![r] = h]
    BY <1>2 DEF Revise
  <2>a. t \in Thread
    BY <1>0
  <2> HIDE DEF t
  <2>2. h \in Handler /\ h.pc = "mint" /\ h.thread \in Thread /\ h.appr \in Approval
    BY <2>a, HandlingFields DEF Steps
  <2> HIDE DEF h
  <2>3. TypeOK' /\ RowsWellFormed'
    BY <1>0, <2>1, <2>2 DEF TypeOK, RowsWellFormed, Revise
  <2> QED
    BY <2>1, <2>2, <2>3, HandlerStepKeeps DEF Claimed
<1> QED BY <1>1, <1>2

\* The replacement is a new row: nobody has claimed it.
LEMMA MintRevisionKeeps ==
  ASSUME IInv, NEW r \in Request, MintRevision(r)
  PROVE  IInv'
<1>0. /\ TypeOK /\ RowsWellFormed /\ req[r] \in Handler
      /\ req[r].thread \in Thread /\ req[r].appr \in Approval
      /\ appr[req[r].appr] \in Row
  BY DEF IInv, TypeOK, MintRevision, HandlersWellFormed
<1>1. PICK b \in Approval :
        /\ appr[b] = NoRow
        /\ appr' = Minted(appr, b, req[r].thread, appr[req[r].appr].call,
                          req[r].payload)
        /\ req' = [req EXCEPT ![r] = Replaced(req[r], b)]
  BY DEF MintRevision
<1>2. UNCHANGED effect
  BY DEF MintRevision
<1>3. /\ appr[req[r].appr].call \in Call \cup {None}
      /\ req[r].payload \in Payload \cup {None}
  BY <1>0 DEF Row, Handler
<1>4. /\ appr' \in [Approval -> Row] /\ RowsWellFormed'
      /\ \A a \in Approval : appr[a].status = "approved" =>
                               appr'[a].status = "approved"
  BY <1>0, <1>1, <1>3, MintKeepsRows DEF TypeOK
<1>5. /\ Replaced(req[r], b) \in Handler
      /\ Replaced(req[r], b).pc = "supersede"
      /\ Replaced(req[r], b).thread \in Thread
      /\ Replaced(req[r], b).appr \in Approval
  BY <1>0, ReplacedFields
<1>6. TypeOK'
  BY <1>0, <1>1, <1>4, <1>5 DEF TypeOK, MintRevision
<1> QED
  BY <1>1, <1>2, <1>4, <1>5, <1>6, HandlerStepKeeps DEF Claimed

\* What superseding does to a row.
LEMMA SupersededRow ==
  ASSUME NEW row \in Row, NEW b \in Approval \cup {None}
  PROVE  /\ Superseded(row, b) \in Row
         /\ Superseded(row, b).status = "superseded"
         /\ Superseded(row, b).thread = row.thread
         /\ Superseded(row, b).payload = row.payload
         /\ Superseded(row, b).call = row.call
         /\ Superseded(row, b).by = b
<1>1. PICK d : d = Decide(row, "superseded")
  OBVIOUS
<1>2. /\ d \in Row /\ d.status = "superseded" /\ d.thread = row.thread
      /\ d.payload = row.payload /\ d.call = row.call
  BY <1>1, DecideRow DEF Decided
<1>3. Superseded(row, b) = [d EXCEPT !.by = b]
  BY <1>1 DEF Superseded
<1> QED
  BY <1>2, <1>3 DEF Row

\* The conditional UPDATE leaves an approved row alone.
LEMMA SupersedeKeeps ==
  ASSUME IInv, NEW r \in Request, Supersede(r)
  PROVE  IInv'
<1> DEFINE a == req[r].appr
<1>0. /\ TypeOK /\ RowsWellFormed /\ req[r] \in Handler
      /\ a \in Approval /\ appr[a] \in Row
  BY DEF IInv, TypeOK, Supersede, HandlersWellFormed
<1>1. /\ req' = [req EXCEPT ![r] = Idle] /\ UNCHANGED effect
      /\ \/ UNCHANGED appr
         \/ /\ appr[a].status = "pending"
            /\ appr' = [appr EXCEPT ![a] = Superseded(appr[a], req[r].fresh)]
  BY DEF Supersede
<1>2. req[r].fresh \in Approval \cup {None}
  BY <1>0 DEF Handler
<1> HIDE DEF a
<1>3. \A b \in Approval :
        /\ appr'[b] \in Row
        /\ appr'[b].thread = appr[b].thread
        /\ \/ appr'[b] = appr[b]
           \/ appr[b].status = "pending"
  <2> DEFINE row == Superseded(appr[a], req[r].fresh)
  <2>1. row \in Row /\ row.thread = appr[a].thread
    BY <1>0, <1>2, SupersededRow
  <2> HIDE DEF row
  <2> QED
    BY <1>0, <1>1, <2>1 DEF TypeOK, row
<1>4. appr' \in [Approval -> Row]
  BY <1>0, <1>1, <1>3 DEF TypeOK
<1>5. TypeOK' /\ RowsWellFormed'
  <2>1. req' \in [Request -> Handler]
    BY <1>0, <1>1, IdleFields DEF TypeOK
  <2>2. UNCHANGED <<turn, queued, live, plan, args, snap, journal, effect,
                    results, faults>>
    BY DEF Supersede
  <2>3. TypeOK'
    BY <1>0, <1>4, <2>1, <2>2 DEF TypeOK
  <2>4. RowsWellFormed'
    BY <1>0, <1>3 DEF RowsWellFormed
  <2> QED
    BY <2>3, <2>4
<1>6. \A b \in Approval : appr[b].status = "approved" =>
                            appr'[b].status = "approved"
  BY <1>3
<1> QED
  BY <1>1, <1>5, <1>6, IdleFields, HandlerStepKeeps DEF Claimed

\* Reading the transcript for a retry decides nothing but expiries.
LEMMA RetryKeeps ==
  ASSUME IInv, NEW r \in Request, NEW t \in Thread, Retry(r, t)
  PROVE  IInv'
<1>0. TypeOK /\ RowsWellFormed
  BY DEF IInv
<1>1. appr' = Expired(t) /\ UNCHANGED effect
  BY DEF Retry
<1>2. /\ RowsWellFormed' /\ appr' \in [Approval -> Row]
      /\ \A b \in Approval : appr[b].status = "approved" =>
                               appr'[b].status = "approved"
  BY <1>0, <1>1, ExpiredRows DEF RowsWellFormed
<1>3. CASE UNCHANGED req
  <2>1. TypeOK'
    BY <1>0, <1>2, <1>3 DEF TypeOK, Retry
  <2>2. HandlersWellFormed'
    BY <1>3 DEF IInv, HandlersWellFormed
  <2> QED
    BY <1>1, <1>2, <1>3, <2>1, <2>2, NeutralStep
<1>4. CASE req' # req
  <2>1. PICK c \in plan[t] :
          req' = [req EXCEPT ![r] = Handling("remint", t, None, c, args[c])]
    BY <1>4 DEF Retry
  <2>2. c \in Call /\ args[c] \in Payload \cup {None}
    BY <1>0 DEF TypeOK
  <2> DEFINE h == Handling("remint", t, None, c, args[c])
  <2>3. h \in Handler /\ h.pc = "remint" /\ h.thread \in Thread
    BY <2>2, HandlingFields DEF Steps
  <2>4. req' = [req EXCEPT ![r] = h]
    BY <2>1
  <2> HIDE DEF h
  <2>5. TypeOK'
    BY <1>0, <1>2, <2>3, <2>4 DEF TypeOK, Retry
  <2> QED
    BY <1>1, <1>2, <2>3, <2>4, <2>5, HandlerStepKeeps DEF Claimed
<1> QED BY <1>3, <1>4

\* The approval of a retried call is a new row.
LEMMA RemintKeeps ==
  ASSUME IInv, NEW r \in Request, Remint(r)
  PROVE  IInv'
<1>0. /\ TypeOK /\ RowsWellFormed /\ req[r] \in Handler /\ req[r].thread \in Thread
  BY DEF IInv, TypeOK, Remint, HandlersWellFormed
<1>1. PICK b \in Approval :
        /\ appr[b] = NoRow
        /\ appr' = Minted(appr, b, req[r].thread, req[r].call, req[r].payload)
  BY DEF Remint
<1>2. req' = [req EXCEPT ![r] = Idle] /\ UNCHANGED effect
  BY DEF Remint
<1>3. req[r].call \in Call \cup {None} /\ req[r].payload \in Payload \cup {None}
  BY <1>0 DEF Handler
<1>4. /\ appr' \in [Approval -> Row] /\ RowsWellFormed'
      /\ \A a \in Approval : appr[a].status = "approved" =>
                               appr'[a].status = "approved"
  BY <1>0, <1>1, <1>3, MintKeepsRows DEF TypeOK
<1>5. TypeOK'
  BY <1>0, <1>2, <1>4, IdleFields DEF TypeOK, Remint
<1> QED
  BY <1>2, <1>4, <1>5, IdleFields, HandlerStepKeeps DEF Claimed

\* Choosing the row to freeze decides nothing but expiries.
LEMMA PauseKeeps ==
  ASSUME IInv, NEW r \in Request, NEW t \in Thread, Pause(r, t)
  PROVE  IInv'
<1>0. TypeOK /\ RowsWellFormed
  BY DEF IInv
<1>1. appr' = Expired(t) /\ UNCHANGED effect
  BY DEF Pause
<1>2. /\ RowsWellFormed' /\ appr' \in [Approval -> Row]
      /\ \A b \in Approval : appr[b].status = "approved" =>
                               appr'[b].status = "approved"
  BY <1>0, <1>1, ExpiredRows DEF RowsWellFormed
<1>3. CASE UNCHANGED req
  <2>1. TypeOK'
    BY <1>0, <1>2, <1>3 DEF TypeOK, Pause
  <2>2. HandlersWellFormed'
    BY <1>3 DEF IInv, HandlersWellFormed
  <2> QED
    BY <1>1, <1>2, <1>3, <2>1, <2>2, NeutralStep
<1>4. CASE req' # req
  <2>1. PICK a \in Approval :
          req' = [req EXCEPT ![r] = Handling("freeze", t, a, None, None)]
    BY <1>4 DEF Pause, Pending
  <2> DEFINE h == Handling("freeze", t, a, None, None)
  <2>2. h \in Handler /\ h.pc = "freeze" /\ h.thread = t /\ h.appr = a
    BY HandlingFields DEF Steps
  <2>3. req' = [req EXCEPT ![r] = h]
    BY <2>1
  <2> HIDE DEF h
  <2>4. TypeOK'
    BY <1>0, <1>2, <2>2, <2>3 DEF TypeOK, Pause
  <2> QED
    BY <1>1, <1>2, <2>2, <2>3, <2>4, HandlerStepKeeps DEF Claimed
<1> QED BY <1>3, <1>4

\* Saving the pause snapshot changes no row.
LEMMA FreezeKeeps ==
  ASSUME IInv, NEW r \in Request, Freeze(r)
  PROVE  IInv'
<1>0. /\ TypeOK /\ RowsWellFormed
      /\ req[r].thread \in Thread /\ req[r].appr \in Approval
  BY DEF IInv, HandlersWellFormed, Freeze
<1>1. req' = [req EXCEPT ![r] = Idle] /\ UNCHANGED <<appr, effect>>
  BY DEF Freeze
<1>2. TypeOK' /\ RowsWellFormed'
  BY <1>0, <1>1, IdleFields DEF TypeOK, RowsWellFormed, Freeze
<1> QED
  BY <1>1, <1>2, IdleFields, HandlerStepKeeps DEF Claimed

\* Reading the pause snapshot changes no row.
LEMMA ResumeKeeps ==
  ASSUME IInv, NEW r \in Request, NEW t \in Thread, Resume(r, t)
  PROVE  IInv'
<1> DEFINE h == Handling("settle", t, snap[t], None, None)
<1>0. TypeOK /\ RowsWellFormed /\ snap[t] \in Approval
  BY DEF IInv, TypeOK, Resume
<1>1. req' = [req EXCEPT ![r] = h] /\ UNCHANGED <<appr, effect>>
  BY DEF Resume
<1>2. h \in Handler /\ h.pc = "settle" /\ h.thread = t /\ h.appr \in Approval
  BY <1>0, HandlingFields DEF Steps
<1> HIDE DEF h
<1>3. TypeOK' /\ RowsWellFormed'
  BY <1>0, <1>1, <1>2 DEF TypeOK, RowsWellFormed, Resume
<1> QED
  BY <1>1, <1>2, <1>3, HandlerStepKeeps DEF Claimed

\* Consuming the snapshot mints at most a new row.
LEMMA SettleKeeps ==
  ASSUME IInv, NEW r \in Request, Settle(r)
  PROVE  IInv'
<1> DEFINE t == req[r].thread
           a == req[r].appr
<1>0. /\ TypeOK /\ RowsWellFormed /\ t \in Thread /\ a \in Approval
      /\ appr[a].call \in Call \cup {None} /\ appr[a].payload \in Payload \cup {None}
  BY DEF IInv, TypeOK, Settle, HandlersWellFormed, Row
<1>1. /\ req' = [req EXCEPT ![r] = Idle] /\ UNCHANGED effect
      /\ snap' = [snap EXCEPT ![t] = None]
      /\ \/ appr' = Expired(t)
         \/ \E b \in Approval :
              /\ appr[b] = NoRow
              /\ appr' = Minted(Expired(t), b, t, appr[a].call, appr[a].payload)
  BY DEF Settle
<1> HIDE DEF t, a
<1>2. /\ Expired(t) \in [Approval -> Row]
      /\ \A b \in Approval :
           /\ Expired(t)[b].thread = appr[b].thread
           /\ Expired(t)[b].status = "none" <=> appr[b].status = "none"
           /\ appr[b].status = "approved" => Expired(t)[b].status = "approved"
  BY <1>0, ExpiredRows
<1>3. /\ appr' \in [Approval -> Row] /\ RowsWellFormed'
      /\ \A b \in Approval : appr[b].status = "approved" =>
                               appr'[b].status = "approved"
  <2>1. CASE appr' = Expired(t)
    BY <1>0, <1>2, <2>1 DEF RowsWellFormed
  <2>2. CASE appr' # Expired(t)
    BY <1>0, <1>1, <1>2, <2>2, MintKeepsRows
  <2> QED BY <2>1, <2>2
<1>4. TypeOK'
  <2>1. req' \in [Request -> Handler]
    BY <1>0, <1>1, IdleFields DEF TypeOK
  <2>2. snap' \in [Thread -> Approval \cup {None}]
    BY <1>0, <1>1 DEF TypeOK
  <2>3. UNCHANGED <<turn, queued, live, plan, args, journal, effect, results, faults>>
    BY DEF Settle
  <2> QED
    BY <1>0, <1>3, <2>1, <2>2, <2>3 DEF TypeOK
<1> QED
  BY <1>1, <1>3, <1>4, IdleFields, HandlerStepKeeps DEF Claimed

-----------------------------------------------------------------------------
(* The two steps the claims are about *)

\* take_approval: the claimed row was pending, so no other handler holds it and
\* its write has not run.
LEMMA ClaimKeeps ==
  ASSUME IInv, NEW r \in Request, Claim(r)
  PROVE  IInv'
<1> DEFINE a == req[r].appr
           h == Goto(req[r], "policy")
<1>0. /\ TypeOK /\ RowsWellFormed /\ ClaimsExclusive /\ ExecutedOnlyIfApproved
      /\ ExecutedAtMostOnce /\ HandlersWellFormed
      /\ req[r] \in Handler /\ req[r].thread \in Thread
      /\ a \in Approval /\ appr[a] \in Row /\ effect[a].n \in Nat
  BY DEF IInv, TypeOK, Claim, HandlersWellFormed
<1>1. UNCHANGED effect
  BY DEF Claim
<1>2. CASE appr[a].status # "pending"
  <2>1. req' = [req EXCEPT ![r] = Idle] /\ UNCHANGED appr
    BY <1>2 DEF Claim
  <2>2. TypeOK' /\ RowsWellFormed'
    BY <1>0, <1>1, <2>1, IdleFields DEF TypeOK, RowsWellFormed, Claim
  <2> QED
    BY <1>1, <2>1, <2>2, IdleFields, HandlerStepKeeps DEF Claimed
<1>3. CASE appr[a].status = "pending"
  <2>1. /\ req' = [req EXCEPT ![r] = h]
        /\ appr' = [appr EXCEPT ![a] = Decide(appr[a], "approved")]
    BY <1>3 DEF Claim
  <2>2. /\ h \in Handler /\ h.pc = "policy"
        /\ h.thread = req[r].thread /\ h.appr = a
    BY <1>0, GotoFields DEF Steps
  <2>3. /\ Decide(appr[a], "approved") \in Row
        /\ Decide(appr[a], "approved").status = "approved"
        /\ Decide(appr[a], "approved").thread = appr[a].thread
    BY <1>0, DecideRow DEF Decided
  <2> HIDE DEF a, h
  <2>4. TypeOK'
    BY <1>0, <1>1, <2>1, <2>2, <2>3 DEF TypeOK, Claim
  <2>5. /\ \A s \in Request : req'[s] = IF s = r THEN h ELSE req[s]
        /\ \A b \in Approval : b # a => appr'[b] = appr[b]
        /\ appr'[a].status = "approved" /\ appr'[a].thread = appr[a].thread
    BY <1>0, <2>1, <2>3 DEF TypeOK
  <2>6. HandlersWellFormed' /\ RowsWellFormed'
    BY <1>0, <1>3, <2>2, <2>5 DEF HandlersWellFormed, RowsWellFormed
  <2>7. effect[a].n = 0
    BY <1>0, <1>3 DEF ExecutedOnlyIfApproved
  <2>8. \A s \in Request : req[s].pc \in Claimed => req[s].appr # a
    BY <1>0, <1>3 DEF ClaimsExclusive
  <2>9. ClaimsExclusive'
    <3>1. \A s \in Request : req'[s].pc \in Claimed =>
            appr'[req'[s].appr].status = "approved"
      BY <1>0, <2>2, <2>5, <2>8
      DEF ClaimsExclusive, HandlersWellFormed, Claimed
    <3>2. \A s, u \in Request :
            s # u /\ req'[s].pc \in Claimed /\ req'[u].pc \in Claimed =>
              req'[s].appr # req'[u].appr
      BY <1>0, <2>2, <2>5, <2>8 DEF ClaimsExclusive
    <3>3. \A s \in Request : req'[s].pc \in BeforeEffect =>
            effect'[req'[s].appr].n = 0
      BY <1>0, <1>1, <2>2, <2>5, <2>7 DEF ClaimsExclusive
    <3> QED
      BY <3>1, <3>2, <3>3 DEF ClaimsExclusive
  <2>10. ExecutedOnlyIfApproved' /\ ExecutedAtMostOnce'
    BY <1>0, <1>1, <2>5, <2>7 DEF ExecutedOnlyIfApproved, ExecutedAtMostOnce
  <2> QED
    BY <2>4, <2>6, <2>9, <2>10 DEF IInv
<1> QED BY <1>2, <1>3

\* invoke_write: the row is approved and its write has not run yet; afterwards
\* the handler is no longer before the effect.
LEMMA InvokeKeeps ==
  ASSUME IInv, NEW r \in Request, Invoke(r)
  PROVE  IInv'
<1> DEFINE a == req[r].appr
           g == Goto(req[r], "record")
<1>0. /\ TypeOK /\ RowsWellFormed /\ ClaimsExclusive /\ ExecutedOnlyIfApproved
      /\ ExecutedAtMostOnce /\ HandlersWellFormed
      /\ req[r] \in Handler /\ req[r].thread \in Thread
      /\ a \in Approval /\ appr[a].status = "approved" /\ effect[a].n = 0
  BY DEF IInv, TypeOK, Invoke, HandlersWellFormed, ClaimsExclusive,
         Claimed, BeforeEffect
<1>1. UNCHANGED appr /\ req[r].pc = "invoke"
  BY DEF Invoke
<1>2. PICK h : /\ req' = [req EXCEPT ![r] = h]
               /\ h = Idle \/ h = g
  BY DEF Invoke
<1>3. /\ h \in Handler
      /\ \/ h.pc = "idle"
         \/ h.pc = "record" /\ h.thread = req[r].thread /\ h.appr = a
  BY <1>0, <1>2, IdleFields, GotoFields DEF Steps
<1>4. CASE UNCHANGED effect
  <2>1. TypeOK' /\ RowsWellFormed'
    <3>1. faults' \in 0 .. MaxFaults
      BY <1>0, BoundsAreNaturals DEF TypeOK, Invoke
    <3> QED
      BY <1>0, <1>1, <1>2, <1>3, <1>4, <3>1 DEF TypeOK, RowsWellFormed, Invoke
  <2> HIDE DEF a, g
  <2> QED
    BY <1>0, <1>1, <1>2, <1>3, <1>4, <2>1, HandlerStepKeeps
    DEF Claimed, BeforeEffect, a
<1>5. CASE effect' # effect
  <2>1. effect' = [effect EXCEPT ![a] = [n |-> effect[a].n + 1, key |-> req[r].key]]
    BY <1>5 DEF Invoke
  <2>2. req[r].key \in 0 .. MaxTurns /\ faults' \in 0 .. MaxFaults
    BY <1>0, BoundsAreNaturals DEF TypeOK, Invoke, Handler
  <2>3. UNCHANGED <<turn, queued, live, plan, args, snap, journal, results>>
    BY DEF Invoke
  <2> HIDE DEF a, g
  <2>4. /\ effect' \in [Approval -> [n : Nat, key : 0 .. MaxTurns]]
        /\ effect'[a].n = 1
        /\ \A b \in Approval : b # a => effect'[b] = effect[b]
    BY <1>0, <2>1, <2>2 DEF TypeOK
  <2>5. TypeOK'
    BY <1>0, <1>1, <1>2, <1>3, <2>2, <2>3, <2>4 DEF TypeOK
  <2>6. \A s \in Request : req'[s] = IF s = r THEN h ELSE req[s]
    BY <1>0, <1>2 DEF TypeOK
  <2>7. HandlersWellFormed' /\ RowsWellFormed'
    BY <1>0, <1>1, <1>3, <2>6 DEF HandlersWellFormed, RowsWellFormed
  <2>8. \A s \in Request : s # r /\ req[s].pc \in Claimed => req[s].appr # a
    BY <1>0, <1>1 DEF ClaimsExclusive, Claimed, a
  <2>9. ClaimsExclusive'
    <3>1. \A s \in Request : req'[s].pc \in Claimed =>
            appr'[req'[s].appr].status = "approved"
      BY <1>0, <1>1, <1>3, <2>6 DEF ClaimsExclusive, Claimed
    <3>2. \A s, u \in Request :
            s # u /\ req'[s].pc \in Claimed /\ req'[u].pc \in Claimed =>
              req'[s].appr # req'[u].appr
      BY <1>0, <1>3, <2>6, <2>8 DEF ClaimsExclusive, Claimed
    <3>3. \A s \in Request : req'[s].pc \in BeforeEffect =>
            effect'[req'[s].appr].n = 0
      BY <1>0, <1>3, <2>4, <2>6, <2>8
      DEF ClaimsExclusive, HandlersWellFormed, BeforeEffect, Claimed
    <3> QED
      BY <3>1, <3>2, <3>3 DEF ClaimsExclusive
  <2>10. ExecutedOnlyIfApproved' /\ ExecutedAtMostOnce'
    BY <1>0, <1>1, <2>4 DEF ExecutedOnlyIfApproved, ExecutedAtMostOnce
  <2> QED
    BY <2>5, <2>7, <2>9, <2>10 DEF IInv
<1> QED BY <1>4, <1>5

-----------------------------------------------------------------------------
\* Every step preserves the invariant.
LEMMA NextKeeps == IInv /\ [Next]_vars => IInv'
<1> SUFFICES ASSUME IInv, [Next]_vars PROVE IInv'
  OBVIOUS
<1>1. CASE UNCHANGED vars
  BY <1>1 DEF vars, IInv, TypeOK, HandlersWellFormed, RowsWellFormed,
    ClaimsExclusive, ExecutedOnlyIfApproved, ExecutedAtMostOnce
<1>2. ASSUME NEW t \in Thread, TurnStep(t) PROVE IInv'
  BY <1>2, PostKeeps, TurnKeeps, SuspendKeeps DEF TurnStep
<1>3. ASSUME NEW r \in Request, HandlerStep(r) PROVE IInv'
  BY <1>3, ApproveKeeps, ClaimKeeps, PolicyKeeps, LookupKeeps, InvokeKeeps,
     RecordKeeps, AppendKeeps, ReviseKeeps, MintRevisionKeeps, SupersedeKeeps,
     RetryKeeps, PauseKeeps, FreezeKeeps, ResumeKeeps, RemintKeeps, SettleKeeps
  DEF HandlerStep
<1>4. ASSUME NEW a \in Approval, Age(a) \/ Reject(a) PROVE IInv'
  BY <1>4, AgeKeeps, RejectKeeps
<1> QED
  BY <1>1, <1>2, <1>3, <1>4, CrashKeeps DEF Next

\* The inductive invariant holds in every reachable state.
THEOREM Invariant == Spec => []IInv
BY InitIInv, NextKeeps, PTL DEF Spec

\* Every column and every handler keeps its type, for any number of threads,
\* rows and handlers.
THEOREM TypeCorrect == Spec => []TypeOK
BY Invariant, PTL DEF IInv

\* take_approval is the only gate in front of a write: however approve, revise,
\* reject, expiry, retry, resume and restarts interleave, one row runs its write
\* at most once.
THEOREM AtMostOneExecution == Spec => []ExecutedAtMostOnce
BY Invariant, PTL DEF IInv

\* A row whose write ran is approved and stays so.
THEOREM OnlyApprovedWritesRun == Spec => []ExecutedOnlyIfApproved
BY Invariant, PTL DEF IInv

-----------------------------------------------------------------------------
(* What a step may do to a row *)

\* What binds a row to the call it was minted for.
SameBinding(row, old) ==
  row.thread = old.thread /\ row.call = old.call /\ row.payload = old.payload

\* A row becomes superseded by a handler that minted its replacement.
SupersededNow(a) ==
  \E r \in Request : /\ req[r].pc = "supersede" /\ req[r].appr = a
                     /\ appr'[a].by = req[r].fresh

\* A minted row keeps what it is bound to and a decided one every column.
RowsPersist ==
  \A a \in Approval :
    /\ appr[a].status # "none" =>
         appr'[a].status # "none" /\ SameBinding(appr'[a], appr[a])
    /\ appr[a].status \in Decided => appr'[a] = appr[a]
    /\ appr'[a].status = "superseded" =>
         appr[a].status = "superseded" \/ SupersededNow(a)

\* Changing one pending row at most, by a decision or by its age.
LEMMA PendingRowChanges ==
  ASSUME TypeOK, NEW a \in Approval, appr[a].status = "pending",
         NEW row \in Row, SameBinding(row, appr[a]), row.status # "none",
         appr' = [appr EXCEPT ![a] = row],
         row.status = "superseded" => SupersededNow(a)
  PROVE  RowsPersist
<1>1. \A b \in Approval : appr'[b] = IF b = a THEN row ELSE appr[b]
  BY DEF TypeOK
<1>2. \A b \in Approval : SameBinding(appr[b], appr[b])
  BY DEF SameBinding
<1> QED
  BY <1>1, <1>2 DEF RowsPersist, Decided

\* expire_stale leaves the identity of every row, and every decision.
LEMMA ExpireRowsPersist ==
  ASSUME TypeOK, NEW t, appr' = Expired(t)
  PROVE  RowsPersist
BY ExpiredRows DEF RowsPersist, SameBinding, Decided

\* So does minting a row that did not exist.
LEMMA MintRowsPersist ==
  ASSUME TypeOK, NEW b \in Approval, appr[b] = NoRow,
         NEW rows \in [Approval -> Row],
         rows = appr \/ \E u \in Thread : rows = Expired(u),
         NEW t, NEW c, NEW p, appr' = Minted(rows, b, t, c, p)
  PROVE  RowsPersist
<1>1. \A a \in Approval : a # b => appr'[a] = rows[a]
  BY DEF Minted
<1>2. appr[b].status = "none"
  BY DEF NoRow
<1>3. \A a \in Approval :
        \/ rows[a] = appr[a]
        \/ /\ appr[a].status = "pending"
           /\ rows[a].status = "expired"
           /\ SameBinding(rows[a], appr[a])
  BY ExpiredRows DEF SameBinding
<1>4. appr'[b].status = "pending"
  BY DEF Minted
<1>5. \A a \in Approval : SameBinding(appr[a], appr[a])
  BY DEF SameBinding
<1> QED
  BY <1>1, <1>2, <1>3, <1>4, <1>5 DEF RowsPersist, Decided

\* Every step does: rows are never deleted, rebound or decided twice.
LEMMA NextRowsPersist ==
  ASSUME IInv, [Next]_vars
  PROVE  RowsPersist
<1>0. TypeOK /\ HandlersWellFormed /\ appr \in [Approval -> Row]
  BY DEF IInv, TypeOK
<1>1. CASE UNCHANGED appr
  BY <1>1 DEF RowsPersist, SameBinding
<1>2. ASSUME NEW t \in Thread, TurnStep(t) PROVE RowsPersist
  <2>1. CASE Post(t)
    BY <1>0, <2>1, ExpireRowsPersist DEF Post
  <2>2. CASE StartTurn(t) \/ ProviderAnswers(t) \/ ProviderDenied(t)
    BY <1>1, <2>2 DEF StartTurn, ProviderAnswers, ProviderDenied
  <2>3. CASE ProviderSuspends(t)
    BY <1>0, <2>3, MintRowsPersist DEF ProviderSuspends
  <2> QED
    BY <1>2, <2>1, <2>2, <2>3 DEF TurnStep
<1>3. ASSUME NEW r \in Request, HandlerStep(r) PROVE RowsPersist
  <2>1. CASE \E a \in Approval : Approve(r, a)
    BY <1>0, <2>1, ExpireRowsPersist DEF Approve
  <2>2. CASE Claim(r) \/ Supersede(r)
    <3> DEFINE a == req[r].appr
    <3>1. a \in Approval /\ appr[a] \in Row /\ req[r].fresh \in Approval \cup {None}
      BY <1>0, <2>2 DEF HandlersWellFormed, TypeOK, Handler, Claim, Supersede
    <3> HIDE DEF a
    <3>2. \/ UNCHANGED appr
          \/ /\ appr[a].status = "pending"
             /\ \/ appr' = [appr EXCEPT ![a] = Decide(appr[a], "approved")]
                \/ /\ req[r].pc = "supersede"
                   /\ appr' = [appr EXCEPT ![a] = Superseded(appr[a], req[r].fresh)]
      BY <2>2 DEF Claim, Supersede, a
    <3>3. CASE UNCHANGED appr
      BY <1>1, <3>3
    <3>4. CASE appr' = [appr EXCEPT ![a] = Decide(appr[a], "approved")]
               /\ appr[a].status = "pending"
      <4>1. PICK row : row = Decide(appr[a], "approved")
        OBVIOUS
      <4>2. row \in Row /\ row.status = "approved" /\ SameBinding(row, appr[a])
        BY <3>1, <4>1, DecideRow DEF Decided, SameBinding
      <4> QED
        BY <1>0, <3>1, <3>4, <4>1, <4>2, PendingRowChanges
    <3>5. CASE appr' = [appr EXCEPT ![a] = Superseded(appr[a], req[r].fresh)]
               /\ appr[a].status = "pending" /\ req[r].pc = "supersede"
      <4>1. PICK row : row = Superseded(appr[a], req[r].fresh)
        OBVIOUS
      <4>2. row \in Row /\ row.status = "superseded" /\ SameBinding(row, appr[a])
            /\ row.by = req[r].fresh
        BY <3>1, <4>1, SupersededRow DEF SameBinding
      <4>3. appr'[a] = row
        BY <1>0, <3>1, <3>5, <4>1
      <4>4. SupersededNow(a)
        BY <3>5, <4>2, <4>3 DEF SupersededNow, a
      <4> QED
        BY <1>0, <3>1, <3>5, <4>1, <4>2, <4>4, PendingRowChanges
    <3> QED BY <3>2, <3>3, <3>4, <3>5
  <2>3. CASE \/ Policy(r) \/ Lookup(r) \/ Invoke(r) \/ Record(r)
             \/ AppendResult(r) \/ Freeze(r) \/ \E t \in Thread : Resume(r, t)
    BY <1>1, <2>3 DEF Policy, Lookup, Invoke, Record, AppendResult, Freeze, Resume
  <2>4. ASSUME NEW a \in Approval, NEW p \in Payload, Revise(r, a, p)
        PROVE  RowsPersist
    <3>1. appr[a].status = "pending" /\ appr[a] \in Row
      BY <1>0, <2>4 DEF Revise
    <3>2. PICK row : row = Decide(appr[a], "expired")
      OBVIOUS
    <3>3. row \in Row /\ row.status = "expired" /\ SameBinding(row, appr[a])
      BY <3>1, <3>2, DecideRow DEF Decided, SameBinding
    <3>4. UNCHANGED appr \/ appr' = [appr EXCEPT ![a] = row]
      BY <2>4, <3>2 DEF Revise
    <3> QED
      BY <1>0, <1>1, <3>1, <3>3, <3>4, PendingRowChanges
  <2>5. CASE MintRevision(r) \/ Remint(r)
    BY <1>0, <2>5, MintRowsPersist DEF MintRevision, Remint
  <2>6. CASE \E t \in Thread : Retry(r, t) \/ Pause(r, t)
    BY <1>0, <2>6, ExpireRowsPersist DEF Retry, Pause
  <2>7. CASE Settle(r)
    <3> DEFINE u == req[r].thread
    <3>1. u \in Thread
      BY <1>0, <2>7 DEF HandlersWellFormed, Settle
    <3>2. Expired(u) \in [Approval -> Row]
      BY <1>0, ExpiredRows
    <3> QED
      BY <1>0, <2>7, <3>1, <3>2, MintRowsPersist, ExpireRowsPersist DEF Settle
  <2> QED
    BY <1>3, <2>1, <2>2, <2>3, <2>4, <2>5, <2>6, <2>7 DEF HandlerStep
<1>4. ASSUME NEW a \in Approval, Age(a) PROVE RowsPersist
  <2>1. PICK row : row = Aged(appr[a])
    OBVIOUS
  <2>2. row \in Row /\ row.status = "pending" /\ SameBinding(row, appr[a])
    BY <1>0, <1>4, <2>1, AgedRow DEF Age, SameBinding
  <2> QED
    BY <1>0, <1>4, <2>1, <2>2, PendingRowChanges DEF Age
<1>5. ASSUME NEW a \in Approval, Reject(a) PROVE RowsPersist
  <2> DEFINE rows == Expired(appr[a].thread)
  <2>1. /\ appr[a].status # "none"
        /\ appr' = [rows EXCEPT ![a] =
                      IF rows[a].status = "pending"
                        THEN Decide(rows[a], "rejected") ELSE rows[a]]
    BY <1>5 DEF Reject
  <2>2. /\ rows \in [Approval -> Row]
        /\ \A b \in Approval :
             \/ rows[b] = appr[b]
             \/ /\ appr[b].status = "pending"
                /\ rows[b].status = "expired"
                /\ SameBinding(rows[b], appr[b])
    BY <1>0, ExpiredRows DEF SameBinding
  <2> HIDE DEF rows
  <2>3. /\ rows[a] \in Row
        /\ SameBinding(Decide(rows[a], "rejected"), rows[a])
        /\ Decide(rows[a], "rejected").status = "rejected"
    BY <2>2, DecideRow DEF Decided, SameBinding
  <2> QED
    BY <2>1, <2>2, <2>3 DEF RowsPersist, Decided, SameBinding
<1>6. CASE Crash
  BY <1>1, <1>6 DEF Crash
<1> QED
  BY <1>1, <1>2, <1>3, <1>4, <1>5, <1>6 DEF Next, vars

\* No step rewrites the status of a decided row: the conditional UPDATEs of
\* take, reject, revise and expire never override one another.
THEOREM DecisionsStand == Spec => DecisionsAreFinal
<1>1. IInv /\ [Next]_vars =>
        [\A a \in Approval : appr[a].status \in Decided =>
           appr'[a].status = appr[a].status]_appr
  BY NextRowsPersist DEF RowsPersist, SameBinding
<1> QED
  BY <1>1, Invariant, PTL DEF Spec, DecisionsAreFinal

\* What the user decided on is what runs: no revision, retry, resume or expiry
\* binds a minted row to another conversation, call or argument list, so a write
\* runs with the arguments its row was proposed with (revise_approval mints a
\* new row for new arguments).  Deleting a conversation is not in the model.
THEOREM RowsKeepTheirBinding ==
  Spec => [][\A a \in Approval : appr[a].status # "none" =>
               SameBinding(appr'[a], appr[a])]_appr
<1>1. IInv /\ [Next]_vars =>
        [\A a \in Approval : appr[a].status # "none" =>
           SameBinding(appr'[a], appr[a])]_appr
  BY NextRowsPersist DEF RowsPersist
<1> QED
  BY <1>1, Invariant, PTL DEF Spec

-----------------------------------------------------------------------------
(* Results stand on writes of their own conversation, as long as no handler  *)
(* finds in the journal what another conversation wrote there: the key has   *)
(* no conversation in it, and a run refutes ResultsAreOwn without this.      *)

\* A handler that looks its write up finds only its own conversation's.
OwnKeys ==
  \A r \in Request, j \in journal :
    LET row == appr[req[r].appr]
    IN  req[r].pc = "lookup" /\ j.payload = row.payload /\ j.key = req[r].key
          => appr[j.appr].thread = row.thread

\* Some write of this row's conversation, with its arguments, has run.
Ran(rows, eff, row) ==
  \E b \in Approval : /\ eff[b].n > 0
                      /\ rows[b].payload = row.payload
                      /\ rows[b].thread = row.thread

\* What the journal and the handlers on their way to a tool row rest on.
RealInv ==
  /\ IInv
  /\ \A j \in journal : effect[j.appr].n > 0 /\ appr[j.appr].payload = j.payload
  /\ \A r \in Request : req[r].pc = "record" => effect[req[r].appr].n > 0
  /\ \A r \in Request : req[r].pc = "append" => Ran(appr, effect, appr[req[r].appr])
  /\ \A a \in results : appr[a].status # "none" /\ Ran(appr, effect, appr[a])

\* No result, no journal entry at first.
LEMMA InitReal == Init => RealInv
BY InitIInv DEF Init, RealInv, Idle, Handling

\* What has run keeps having run, for the same arguments.
LEMMA RanPersists ==
  ASSUME IInv, RowsPersist, NEW row, NEW later, SameBinding(later, row),
         Ran(appr, effect, row),
         \A a \in Approval : effect[a].n > 0 => effect'[a].n > 0
  PROVE  Ran(appr', effect', later)
<1>1. \A b \in Approval : effect[b].n > 0 =>
        appr[b].status = "approved" /\ SameBinding(appr'[b], appr[b])
  BY DEF IInv, ExecutedOnlyIfApproved, RowsPersist, SameBinding
<1> QED BY <1>1 DEF Ran, SameBinding

\* The parts of RealInv that a step does not add to are kept.
LEMMA RealKept ==
  ASSUME RealInv, RowsPersist,
         \A a \in Approval : effect[a].n > 0 => effect'[a].n > 0
  PROVE  /\ \A j \in journal :
              effect'[j.appr].n > 0 /\ appr'[j.appr].payload = j.payload
         /\ \A r \in Request : req[r].pc = "record" => effect'[req[r].appr].n > 0
         /\ \A r \in Request : req[r].pc = "append" =>
              Ran(appr', effect', appr'[req[r].appr])
         /\ \A a \in results : appr'[a].status # "none" /\ Ran(appr', effect', appr'[a])
<1>1. \A j \in journal : j.appr \in Approval
  BY DEF RealInv, IInv, TypeOK
<1>2. \A j \in journal :
        effect'[j.appr].n > 0 /\ appr'[j.appr].payload = j.payload
  BY <1>1 DEF RealInv, IInv, ExecutedOnlyIfApproved, RowsPersist, SameBinding
<1>3. \A r \in Request : req[r].pc \in {"record", "append"} =>
        /\ req[r].appr \in Approval
        /\ SameBinding(appr'[req[r].appr], appr[req[r].appr])
  BY DEF RealInv, IInv, HandlersWellFormed, ClaimsExclusive, Claimed, RowsPersist
<1>4. \A r \in Request : req[r].pc = "record" => effect'[req[r].appr].n > 0
  BY <1>3 DEF RealInv
<1>5. \A r \in Request : req[r].pc = "append" => Ran(appr', effect', appr'[req[r].appr])
  BY <1>3, RanPersists DEF RealInv
<1>6. \A a \in results : appr'[a].status # "none" /\ Ran(appr', effect', appr'[a])
  BY RanPersists DEF RealInv, IInv, TypeOK, RowsPersist
<1> QED
  BY <1>2, <1>4, <1>5, <1>6

\* Steps that bring no handler closer to a tool row.
LEMMA QuietStep ==
  ASSUME RealInv, IInv', RowsPersist, UNCHANGED <<journal, effect, results>>,
         \A r \in Request : req'[r].pc \in {"record", "append"} => req'[r] = req[r]
  PROVE  RealInv'
<1>1. /\ \A j \in journal :
           effect'[j.appr].n > 0 /\ appr'[j.appr].payload = j.payload
      /\ \A r \in Request : req[r].pc = "record" => effect'[req[r].appr].n > 0
      /\ \A r \in Request : req[r].pc = "append" =>
           Ran(appr', effect', appr'[req[r].appr])
      /\ \A a \in results : appr'[a].status # "none" /\ Ran(appr', effect', appr'[a])
  BY RealKept
<1> QED
  BY <1>1 DEF RealInv

\* A handler that has claimed a row: the row keeps its arguments.
LEMMA ClaimedRow ==
  ASSUME IInv, RowsPersist, NEW r \in Request, req[r].pc \in Claimed
  PROVE  /\ req[r].appr \in Approval /\ req[r] \in Handler
         /\ appr[req[r].appr].status = "approved"
         /\ appr'[req[r].appr].status = "approved"
         /\ appr'[req[r].appr].payload = appr[req[r].appr].payload
BY DEF IInv, TypeOK, HandlersWellFormed, ClaimsExclusive, Claimed, RowsPersist, SameBinding,
       Decided

\* find_replayed_write: an answer from the cache stands on the journal's row.
LEMMA LookupReal ==
  ASSUME RealInv, IInv', RowsPersist, OwnKeys, NEW r \in Request, Lookup(r)
  PROVE  RealInv'
<1> DEFINE a == req[r].appr
           hit == Journaled(appr[a].payload, req[r].key)
<1>0. /\ IInv /\ TypeOK /\ a \in Approval /\ req[r] \in Handler
      /\ appr'[a].payload = appr[a].payload
  BY ClaimedRow DEF RealInv, IInv, Lookup, Claimed
<1>1. PICK h : h = Goto(req[r], IF hit THEN "append" ELSE "invoke")
  OBVIOUS
<1>2. /\ h \in Handler /\ h.appr = a
      /\ h.pc = IF hit THEN "append" ELSE "invoke"
  BY <1>0, <1>1, GotoFields DEF Steps
<1>3. /\ req' = [req EXCEPT ![r] = h]
      /\ UNCHANGED <<appr, journal, effect, results>>
  BY <1>1 DEF Lookup
<1>4. hit => Ran(appr, effect, appr[a])
  BY <1>0 DEF Journaled, OwnKeys, RealInv, TypeOK, Ran, Lookup
<1> HIDE DEF a, hit
<1>5. \A s \in Request : req'[s] = IF s = r THEN h ELSE req[s]
  BY <1>0, <1>3 DEF TypeOK
<1>6. \A s \in Request : req'[s].pc = "append" =>
        Ran(appr', effect', appr'[req'[s].appr])
  BY <1>2, <1>3, <1>4, <1>5 DEF RealInv
<1>7. \A s \in Request : req'[s].pc = "record" => effect'[req'[s].appr].n > 0
  BY <1>2, <1>3, <1>5 DEF RealInv
<1> QED
  BY <1>3, <1>6, <1>7 DEF RealInv

\* A write that goes on to the journal has run.
LEMMA InvokeReal ==
  ASSUME RealInv, IInv', RowsPersist, NEW r \in Request, Invoke(r)
  PROVE  RealInv'
<1> DEFINE a == req[r].appr
<1>0. IInv /\ TypeOK /\ a \in Approval /\ req[r] \in Handler
  BY ClaimedRow DEF RealInv, IInv, Invoke, Claimed
<1>1. PICK h : req' = [req EXCEPT ![r] = h] /\ (h = Idle \/ h = Goto(req[r], "record"))
               /\ (h # Idle => effect'[a].n = effect[a].n + 1)
  BY <1>0 DEF Invoke, TypeOK
<1>2. /\ h.pc \in {"idle", "record"}
      /\ h.pc = "record" => h.appr = a /\ h # Idle
  BY <1>0, <1>1, GotoFields, IdleFields DEF Steps
<1>3. /\ UNCHANGED <<appr, journal, results>>
      /\ \A b \in Approval : effect[b].n > 0 => effect'[b].n > 0
      /\ effect[a].n \in Nat
  <2>1. \A b \in Approval : effect[b].n \in Nat
    BY <1>0 DEF TypeOK
  <2>2. UNCHANGED <<appr, journal, results>>
    BY DEF Invoke
  <2>3. \/ effect' = effect
        \/ effect' = [effect EXCEPT ![a] = [n |-> @.n + 1, key |-> req[r].key]]
    BY DEF Invoke
  <2>4. CASE effect' = effect
    BY <2>1, <2>2, <2>4, <1>0
  <2>5. CASE effect' = [effect EXCEPT ![a] = [n |-> @.n + 1, key |-> req[r].key]]
    <3>1. effect \in [Approval -> [n : Nat, key : 0 .. MaxTurns]]
      BY <1>0 DEF TypeOK
    <3>2. \A b \in Approval :
            effect'[b].n = IF b = a THEN effect[a].n + 1 ELSE effect[b].n
      BY <2>5, <3>1, <1>0
    <3> QED
      BY <2>1, <2>2, <3>2, <1>0
  <2> QED
    BY <2>3, <2>4, <2>5
<1> HIDE DEF a
<1>4. \A s \in Request : req'[s] = IF s = r THEN h ELSE req[s]
  BY <1>0, <1>1 DEF TypeOK
<1>5. /\ \A j \in journal :
           effect'[j.appr].n > 0 /\ appr'[j.appr].payload = j.payload
      /\ \A s \in Request : req[s].pc = "record" => effect'[req[s].appr].n > 0
      /\ \A s \in Request : req[s].pc = "append" =>
           Ran(appr', effect', appr'[req[s].appr])
      /\ \A b \in results : /\ appr'[b].status # "none"
                            /\ Ran(appr', effect', appr'[b])
  BY <1>3, RealKept
<1>6. \A s \in Request : req'[s].pc = "record" => effect'[req'[s].appr].n > 0
  BY <1>1, <1>2, <1>3, <1>4, <1>5
<1>7. \A s \in Request : req'[s].pc = "append" =>
        Ran(appr', effect', appr'[req'[s].appr])
  BY <1>2, <1>4, <1>5
<1> QED
  BY <1>3, <1>5, <1>6, <1>7 DEF RealInv

\* The journal entry stands on the write of its own handler.
LEMMA RecordReal ==
  ASSUME RealInv, IInv', RowsPersist, NEW r \in Request, Record(r)
  PROVE  RealInv'
<1> DEFINE a == req[r].appr
           new == [payload |-> appr[a].payload, key |-> req[r].key, appr |-> a]
<1>0. /\ IInv /\ TypeOK /\ a \in Approval /\ req[r] \in Handler
      /\ effect[a].n > 0
  BY ClaimedRow DEF RealInv, IInv, Record, Claimed
<1>1. PICK h : /\ req' = [req EXCEPT ![r] = h]
               /\ h = Idle \/ h = Goto(req[r], "append")
  BY DEF Record
<1>2. h.pc \in {"idle", "append"} /\ (h.pc = "append" => h.appr = a)
  BY <1>0, <1>1, GotoFields, IdleFields DEF Steps
<1>3. /\ UNCHANGED <<appr, effect, results>>
      /\ journal' \in {journal, journal \cup {new}}
  BY DEF Record
<1>4. Ran(appr, effect, appr[a])
  BY <1>0 DEF Ran
<1>5. new.appr = a /\ new.payload = appr[a].payload
  OBVIOUS
<1> HIDE DEF a, new
<1>6. \A s \in Request : req'[s] = IF s = r THEN h ELSE req[s]
  BY <1>0, <1>1 DEF TypeOK
<1>7. \A j \in journal' :
        effect'[j.appr].n > 0 /\ appr'[j.appr].payload = j.payload
  BY <1>0, <1>3, <1>5 DEF RealInv
<1>8. \A s \in Request : req'[s].pc = "append" =>
        Ran(appr', effect', appr'[req'[s].appr])
  BY <1>2, <1>3, <1>4, <1>6 DEF RealInv
<1>9. \A s \in Request : req'[s].pc = "record" => effect'[req'[s].appr].n > 0
  BY <1>2, <1>3, <1>6 DEF RealInv
<1> QED
  BY <1>3, <1>7, <1>8, <1>9 DEF RealInv

\* The tool row stands on a write that ran, or on a journal entry.
LEMMA AppendReal ==
  ASSUME RealInv, IInv', RowsPersist, NEW r \in Request, AppendResult(r)
  PROVE  RealInv'
<1>0. /\ IInv /\ TypeOK /\ req[r].appr \in Approval
      /\ appr[req[r].appr].status = "approved"
      /\ Ran(appr, effect, appr[req[r].appr])
  BY ClaimedRow DEF RealInv, IInv, AppendResult, Claimed
<1>1. /\ UNCHANGED <<appr, effect, journal>> /\ req' = [req EXCEPT ![r] = Idle]
      /\ results' = results \cup {req[r].appr}
  BY DEF AppendResult
<1>2. \A s \in Request : req'[s] = IF s = r THEN Idle ELSE req[s]
  BY <1>0, <1>1 DEF TypeOK
<1> QED
  BY <1>0, <1>1, <1>2, IdleFields DEF RealInv

\* Every step preserves it while keys are kept apart.
LEMMA NextReal == RealInv /\ OwnKeys /\ [Next]_vars => RealInv'
<1> SUFFICES ASSUME RealInv, OwnKeys, [Next]_vars PROVE RealInv'
  OBVIOUS
<1>0. IInv /\ IInv' /\ RowsPersist /\ TypeOK /\ HandlersWellFormed
  BY NextKeeps, NextRowsPersist DEF RealInv, IInv
<1>1. CASE UNCHANGED <<req, journal, effect, results>>
  BY <1>0, <1>1, QuietStep
<1>2. ASSUME NEW r \in Request, NEW h \in Handler,
             req' = [req EXCEPT ![r] = h], h.pc \notin {"record", "append"},
             UNCHANGED <<journal, effect, results>>
      PROVE  RealInv'
  <2>1. \A s \in Request : req'[s] = IF s = r THEN h ELSE req[s]
    BY <1>0, <1>2 DEF TypeOK
  <2> QED
    BY <1>0, <1>2, <2>1, QuietStep
<1>3. ASSUME NEW r \in Request, req' = [req EXCEPT ![r] = Idle],
             UNCHANGED <<journal, effect, results>>
      PROVE  RealInv'
  BY <1>2, <1>3, IdleFields
<1>4. ASSUME NEW t \in Thread, TurnStep(t) PROVE RealInv'
  BY <1>1, <1>4 DEF TurnStep, Post, StartTurn, ProviderAnswers,
                    ProviderSuspends, ProviderDenied
<1>5. ASSUME NEW a \in Approval, Age(a) \/ Reject(a) PROVE RealInv'
  BY <1>1, <1>5 DEF Age, Reject
<1>6. CASE Crash
  <2>1. /\ \A r \in Request : req'[r].pc = "idle"
        /\ UNCHANGED <<journal, effect, results>>
    BY <1>6 DEF Crash, Idle, Handling
  <2> QED
    BY <1>0, <2>1, QuietStep
<1>7. ASSUME NEW r \in Request, HandlerStep(r) PROVE RealInv'
  <2>1. ASSUME NEW a \in Approval, Approve(r, a) PROVE RealInv'
    <3> DEFINE t == appr[a].thread
    <3>1. t \in Thread \cup {None}
      BY <1>0 DEF TypeOK, Row
    <3>2. /\ UNCHANGED <<journal, effect, results>>
          /\ \/ req' = [req EXCEPT ![r] = Idle]
             \/ req' = [req EXCEPT ![r] = Handling("claim", t, a, None, None)]
      BY <2>1 DEF Approve
    <3> HIDE DEF t
    <3>3. PICK h : h = Handling("claim", t, a, None, None)
      OBVIOUS
    <3>4. h \in Handler /\ h.pc = "claim"
      BY <3>1, <3>3, HandlingFields DEF Steps
    <3> QED
      BY <1>2, <1>3, <3>2, <3>3, <3>4
  <2>2. CASE Claim(r)
    <3>1. /\ UNCHANGED <<journal, effect, results>>
          /\ \/ req' = [req EXCEPT ![r] = Idle]
             \/ req' = [req EXCEPT ![r] = Goto(req[r], "policy")]
      BY <2>2 DEF Claim
    <3>2. PICK h : h = Goto(req[r], "policy")
      OBVIOUS
    <3>3. h \in Handler /\ h.pc = "policy"
      <4>1. req[r] \in Handler /\ "policy" \in Steps
        BY <1>0 DEF TypeOK, Steps
      <4> QED
        BY <3>2, <4>1, GotoFields
    <3> QED
      BY <1>2, <1>3, <3>1, <3>2, <3>3
  <2>3. CASE Policy(r)
    <3>1. /\ UNCHANGED <<journal, effect, results>>
          /\ \/ req' = [req EXCEPT ![r] = Idle]
             \/ req' = [req EXCEPT ![r] = Keyed(req[r], turn[req[r].thread])]
      BY <2>3 DEF Policy
    <3>2. PICK h : h = Keyed(req[r], turn[req[r].thread])
      OBVIOUS
    <3>3. req[r].thread \in Thread /\ req[r] \in Handler
      BY <1>0, <2>3 DEF HandlersWellFormed, Policy, TypeOK
    <3>4. h \in Handler /\ h.pc = "lookup"
      BY <1>0, <3>2, <3>3, KeyedFields DEF TypeOK
    <3> QED
      BY <1>2, <1>3, <3>1, <3>2, <3>4
  <2>4. ASSUME NEW a \in Approval, NEW p \in Payload, Revise(r, a, p)
        PROVE  RealInv'
    <3> DEFINE t == appr[a].thread
    <3>1. t \in Thread \cup {None}
      BY <1>0 DEF TypeOK, Row
    <3>2. /\ UNCHANGED <<journal, effect, results>>
          /\ \/ UNCHANGED req
             \/ req' = [req EXCEPT ![r] = Handling("mint", t, a, None, p)]
      BY <2>4 DEF Revise
    <3> HIDE DEF t
    <3>3. PICK h : h = Handling("mint", t, a, None, p)
      OBVIOUS
    <3>4. h \in Handler /\ h.pc = "mint"
      <4>1. "mint" \in Steps /\ p \in Payload \cup {None}
        BY DEF Steps
      <4> QED
        BY <3>1, <3>3, <4>1, HandlingFields
    <3> QED
      BY <1>1, <1>2, <3>2, <3>3, <3>4
  <2>5. CASE MintRevision(r)
    <3>1. PICK b \in Approval : req' = [req EXCEPT ![r] = Replaced(req[r], b)]
      BY <2>5 DEF MintRevision
    <3>2. PICK h : h = Replaced(req[r], b)
      OBVIOUS
    <3>3. h \in Handler /\ h.pc = "supersede"
      BY <1>0, <3>2, ReplacedFields DEF TypeOK
    <3>4. UNCHANGED <<journal, effect, results>>
      BY <2>5 DEF MintRevision
    <3> QED
      BY <1>2, <3>1, <3>2, <3>3, <3>4
  <2>6. CASE Supersede(r) \/ Remint(r) \/ Freeze(r) \/ Settle(r)
    BY <1>3, <2>6 DEF Supersede, Remint, Freeze, Settle
  <2>7. ASSUME NEW t \in Thread, Retry(r, t) PROVE RealInv'
    <3>1. CASE UNCHANGED req
      BY <1>1, <2>7, <3>1 DEF Retry
    <3>2. CASE req' # req
      <4>1. PICK c \in plan[t] :
              req' = [req EXCEPT ![r] = Handling("remint", t, None, c, args[c])]
        BY <2>7, <3>2 DEF Retry
      <4>2. c \in Call /\ args[c] \in Payload \cup {None}
        BY <1>0 DEF TypeOK
      <4>3. PICK h : h = Handling("remint", t, None, c, args[c])
        OBVIOUS
      <4>4. h \in Handler /\ h.pc = "remint"
        BY <4>2, <4>3, HandlingFields DEF Steps
      <4>5. UNCHANGED <<journal, effect, results>>
        BY <2>7 DEF Retry
      <4> QED
        BY <1>2, <4>1, <4>3, <4>4, <4>5
    <3> QED BY <3>1, <3>2
  <2>8. ASSUME NEW t \in Thread, Resume(r, t) PROVE RealInv'
    <3>1. snap[t] \in Approval \cup {None}
      BY <1>0 DEF TypeOK
    <3>2. PICK h : h = Handling("settle", t, snap[t], None, None)
      OBVIOUS
    <3>3. h \in Handler /\ h.pc = "settle"
      BY <3>1, <3>2, HandlingFields DEF Steps
    <3>4. req' = [req EXCEPT ![r] = h] /\ UNCHANGED <<journal, effect, results>>
      BY <2>8, <3>2 DEF Resume
    <3> QED
      BY <1>2, <3>3, <3>4
  <2>9. ASSUME NEW t \in Thread, Pause(r, t) PROVE RealInv'
    <3>1. CASE UNCHANGED req
      BY <1>1, <2>9, <3>1 DEF Pause
    <3>2. CASE req' # req
      <4>1. PICK a \in Approval :
              req' = [req EXCEPT ![r] = Handling("freeze", t, a, None, None)]
        BY <2>9, <3>2 DEF Pause, Pending
      <4>2. PICK h : h = Handling("freeze", t, a, None, None)
        OBVIOUS
      <4>3. h \in Handler /\ h.pc = "freeze"
        BY <4>2, HandlingFields DEF Steps
      <4>4. UNCHANGED <<journal, effect, results>>
        BY <2>9 DEF Pause
      <4> QED
        BY <1>2, <4>1, <4>2, <4>3, <4>4
    <3> QED BY <3>1, <3>2
  <2> QED
    BY <1>0, <1>3, <1>7, <2>1, <2>2, <2>3, <2>4, <2>5, <2>6, <2>7, <2>8, <2>9,
       LookupReal, InvokeReal, RecordReal, AppendReal
    DEF HandlerStep
<1> QED
  BY <1>1, <1>4, <1>5, <1>6, <1>7 DEF Next, vars

\* A tool row that reports success stands on a write of its conversation with
\* its arguments, through the journal's cache, crashes and racing handlers, in
\* every behaviour in which no handler finds another conversation's entry
\* (find_replayed_write).  Without the hypothesis TLC refutes it.
THEOREM OwnKeysSuffice == Spec /\ []OwnKeys => []ResultsAreOwn
<1>1. RealInv => ResultsAreOwn
  BY DEF RealInv, ResultsAreOwn, Ran
<1> QED
  BY <1>1, InitReal, NextReal, PTL DEF Spec

-----------------------------------------------------------------------------
(* The pointer of a superseded row *)

\* Row b stands for the same call, on the same thread, as row a.
Replaces(rows, b, a) ==
  /\ b # None
  /\ rows[b].status # "none"
  /\ rows[b].call = rows[a].call
  /\ rows[b].thread = rows[a].thread

\* A handler between the two statements of revise_approval already has the
\* replacement, and one before them still has the row's own thread.
RevisionsWellFormed ==
  \A r \in Request :
    /\ req[r].pc \in {"mint", "supersede"} =>
         /\ appr[req[r].appr].status # "none"
         /\ req[r].thread = appr[req[r].appr].thread
    /\ req[r].pc = "supersede" => Replaces(appr, req[r].fresh, req[r].appr)

PointInv ==
  /\ IInv
  /\ RevisionsWellFormed
  /\ \A a \in Approval :
       appr[a].status = "superseded" => Replaces(appr, appr[a].by, a)

\* The tables are empty at first.
LEMMA InitPoint == Init => PointInv
BY InitIInv DEF Init, PointInv, RevisionsWellFormed, NoRow, Idle, Handling

\* A replacement stays one: rows are neither deleted nor bound to another call.
LEMMA ReplacesPersists ==
  ASSUME IInv, RowsPersist, NEW a \in Approval, appr[a].status # "none",
         NEW b \in Approval \cup {None}, Replaces(appr, b, a)
  PROVE  Replaces(appr', b, a)
BY DEF Replaces, RowsPersist, SameBinding

\* Steps that take no handler further on its way through revise_approval.
LEMMA QuietPoint ==
  ASSUME PointInv, IInv', RowsPersist,
         \A r \in Request : req'[r].pc \in {"mint", "supersede"} =>
           \/ req'[r] = req[r]
           \/ /\ req'[r].appr \in Approval
              /\ appr'[req'[r].appr].status # "none"
              /\ req'[r].thread = appr'[req'[r].appr].thread
              /\ req'[r].pc = "supersede" =>
                   Replaces(appr', req'[r].fresh, req'[r].appr)
  PROVE  PointInv'
<1>0. /\ \A r \in Request : req[r] \in Handler
      /\ \A a \in Approval : appr[a] \in Row
      /\ \A r \in Request : req[r].pc \in {"mint", "supersede"} =>
           req[r].appr \in Approval
  BY DEF PointInv, IInv, TypeOK, HandlersWellFormed
<1>1. \A r \in Request : req[r].pc = "supersede" =>
        Replaces(appr', req[r].fresh, req[r].appr)
  BY <1>0, ReplacesPersists DEF PointInv, RevisionsWellFormed, Handler
<1>2. \A r \in Request : req[r].pc \in {"mint", "supersede"} =>
        /\ appr'[req[r].appr].status # "none"
        /\ req[r].thread = appr'[req[r].appr].thread
  BY <1>0 DEF PointInv, RevisionsWellFormed, RowsPersist, SameBinding
<1>3. RevisionsWellFormed'
  BY <1>1, <1>2 DEF RevisionsWellFormed
<1>4. ASSUME NEW a \in Approval, appr'[a].status = "superseded"
      PROVE  Replaces(appr', appr'[a].by, a)
  <2>1. CASE appr[a].status = "superseded"
    <3>1. appr[a].by \in Approval \cup {None} /\ appr'[a].by = appr[a].by
      BY <1>0, <2>1 DEF Row, RowsPersist, Decided
    <3> QED
      BY <2>1, <3>1, ReplacesPersists DEF PointInv
  <2>2. CASE appr[a].status # "superseded"
    <3>1. PICK r \in Request : /\ req[r].pc = "supersede" /\ req[r].appr = a
                               /\ appr'[a].by = req[r].fresh
      BY <1>4, <2>2 DEF RowsPersist, SupersededNow
    <3> QED
      BY <1>1, <3>1
  <2> QED BY <2>1, <2>2
<1> QED
  BY <1>3, <1>4 DEF PointInv

\* The SELECT of revise_approval: the row is there, and its thread with it.
LEMMA RevisePoint ==
  ASSUME PointInv, IInv', RowsPersist, NEW r \in Request, NEW a \in Approval,
         NEW p \in Payload, Revise(r, a, p)
  PROVE  PointInv'
<1>0. req \in [Request -> Handler]
  BY DEF PointInv, IInv, TypeOK
<1>1. CASE UNCHANGED req
  BY <1>1, QuietPoint
<1>2. CASE ~UNCHANGED req
  <2> DEFINE h == Handling("mint", appr[a].thread, a, None, p)
  <2>1. /\ h.pc = "mint" /\ h.appr = a /\ h.thread = appr[a].thread
        /\ req' = [req EXCEPT ![r] = h] /\ UNCHANGED appr
        /\ appr[a].status = "pending"
    BY <1>2 DEF Revise, Handling
  <2> HIDE DEF h
  <2>2. \A s \in Request : req'[s] = IF s = r THEN h ELSE req[s]
    BY <1>0, <2>1
  <2> QED
    BY <2>1, <2>2, QuietPoint
<1> QED BY <1>1, <1>2

\* create_approval of revise_approval: the same call, on the same thread.
LEMMA MintRevisionPoint ==
  ASSUME PointInv, IInv', RowsPersist, NEW r \in Request, MintRevision(r)
  PROVE  PointInv'
<1> DEFINE a == req[r].appr
<1>0. /\ req \in [Request -> Handler] /\ req[r] \in Handler
      /\ a \in Approval /\ appr[a].status # "none"
      /\ req[r].thread = appr[a].thread
      /\ appr \in [Approval -> Row]
  BY DEF PointInv, IInv, TypeOK, HandlersWellFormed, RevisionsWellFormed,
         MintRevision
<1>1. PICK b \in Approval :
        /\ appr[b] = NoRow
        /\ appr' = Minted(appr, b, req[r].thread, appr[a].call, req[r].payload)
        /\ req' = [req EXCEPT ![r] = Replaced(req[r], b)]
  BY DEF MintRevision
<1>2. PICK h : h = Replaced(req[r], b)
  OBVIOUS
<1>3. /\ h.pc = "supersede" /\ h.thread = req[r].thread /\ h.appr = a
      /\ h.fresh = b
  <2>1. PICK g : g = Goto(req[r], "supersede")
    OBVIOUS
  <2>2. g \in Handler
    BY <1>0, <2>1, GotoFields DEF Steps
  <2>3. h = [g EXCEPT !.fresh = b, !.payload = None]
    BY <1>2, <2>1 DEF Replaced
  <2>4. h.fresh = b
    BY <2>2, <2>3 DEF Handler
  <2> QED
    BY <1>0, <1>2, <2>4, ReplacedFields
<1>4. /\ appr'[b].status = "pending" /\ appr'[b].call = appr[a].call
      /\ appr'[b].thread = appr[a].thread
  BY <1>0, <1>1 DEF Minted
<1> HIDE DEF a
<1>5. /\ appr'[a].status # "none" /\ appr'[a].call = appr[a].call
      /\ appr'[a].thread = appr[a].thread
  BY <1>0 DEF RowsPersist, SameBinding
<1>6. Replaces(appr', b, a)
  BY <1>4, <1>5, NoneIsNew DEF Replaces
<1>7. \A s \in Request : req'[s] = IF s = r THEN h ELSE req[s]
  BY <1>0, <1>1, <1>2
<1> QED
  BY <1>0, <1>3, <1>5, <1>6, <1>7, QuietPoint

\* Where one step of a handler takes it; the other handlers stay where they are.
LEMMA HandlerMoves ==
  ASSUME TypeOK, NEW r \in Request, HandlerStep(r)
  PROVE  /\ \A s \in Request : s # r => req'[s] = req[s]
         /\ \/ req'[r] = req[r]
            \/ req'[r].pc \in {"idle", "claim", "policy", "lookup", "remint",
                               "freeze", "settle"}
            \/ req'[r].pc \in {"invoke", "append"} /\ Lookup(r)
            \/ req'[r].pc = "record" /\ Invoke(r)
            \/ req'[r].pc = "append" /\ Record(r)
            \/ req'[r].pc = "mint" /\ \E a \in Approval, p \in Payload : Revise(r, a, p)
            \/ req'[r].pc = "supersede" /\ MintRevision(r)
<1> DEFINE Moves ==
             /\ \A s \in Request : s # r => req'[s] = req[s]
             /\ \/ req'[r] = req[r]
                \/ req'[r].pc \in {"idle", "claim", "policy", "lookup", "remint",
                                   "freeze", "settle"}
                \/ req'[r].pc \in {"invoke", "append"} /\ Lookup(r)
                \/ req'[r].pc = "record" /\ Invoke(r)
                \/ req'[r].pc = "append" /\ Record(r)
                \/ req'[r].pc = "mint" /\ \E a \in Approval, p \in Payload : Revise(r, a, p)
                \/ req'[r].pc = "supersede" /\ MintRevision(r)
<1>0. req \in [Request -> Handler] /\ req[r] \in Handler
  BY DEF TypeOK
<1>1. ASSUME NEW h, req' = [req EXCEPT ![r] = h]
      PROVE  req'[r] = h /\ \A s \in Request : s # r => req'[s] = req[s]
  BY <1>0, <1>1
<1>2. ASSUME NEW pc \in Steps
      PROVE  /\ Goto(req[r], pc).pc = pc
             /\ \A t, a, c, p : Handling(pc, t, a, c, p).pc = pc
  BY <1>0, <1>2, GotoFields DEF Handling
<1>3. Idle.pc = "idle"
  BY IdleFields
<1>4. CASE \E a \in Approval : Approve(r, a)
  BY <1>1, <1>2, <1>3, <1>4 DEF Approve, Steps
<1>5. CASE Claim(r)
  <2>1. req' = [req EXCEPT ![r] = Idle] \/ req' = [req EXCEPT ![r] = Goto(req[r], "policy")]
    BY <1>5 DEF Claim
  <2>2. Goto(req[r], "policy").pc = "policy"
    BY <1>2 DEF Steps
  <2> QED
    BY <1>1, <1>3, <2>1, <2>2
<1>6. CASE Policy(r)
  <2>1. \A k : Keyed(req[r], k).pc = "lookup"
    BY <1>0 DEF Keyed, Goto, Handler
  <2> QED
    BY <1>1, <1>3, <1>6, <2>1 DEF Policy
<1>7. CASE Lookup(r)
  <2>1. PICK pc \in {"invoke", "append"} : req' = [req EXCEPT ![r] = Goto(req[r], pc)]
    BY <1>7 DEF Lookup
  <2> QED
    BY <1>1, <1>2, <1>7, <2>1 DEF Steps
<1>8. CASE Invoke(r)
  BY <1>1, <1>2, <1>3, <1>8 DEF Invoke, Steps
<1>9. CASE Record(r)
  <2>1. req' = [req EXCEPT ![r] = Idle] \/ req' = [req EXCEPT ![r] = Goto(req[r], "append")]
    BY <1>9 DEF Record
  <2>2. Goto(req[r], "append").pc = "append"
    BY <1>2 DEF Steps
  <2> QED
    BY <1>1, <1>3, <1>9, <2>1, <2>2
<1>10. CASE AppendResult(r) \/ Supersede(r) \/ Remint(r) \/ Freeze(r) \/ Settle(r)
  BY <1>1, <1>3, <1>10 DEF AppendResult, Supersede, Remint, Freeze, Settle
<1>11. ASSUME NEW t \in Thread, Retry(r, t) PROVE Moves
  <2>1. CASE ~UNCHANGED req
    <3>1. PICK c \in plan[t] :
            req' = [req EXCEPT ![r] = Handling("remint", t, None, c, args[c])]
      BY <1>11, <2>1 DEF Retry
    <3> QED
      BY <1>1, <1>2, <3>1 DEF Steps
  <2> QED
    BY <2>1
<1>12. ASSUME NEW t \in Thread, Pause(r, t) PROVE Moves
  BY <1>1, <1>2, <1>12 DEF Pause, Steps
<1>13. ASSUME NEW t \in Thread, Resume(r, t) PROVE Moves
  BY <1>1, <1>2, <1>13 DEF Resume, Steps
<1>14. ASSUME NEW a \in Approval, NEW p \in Payload, Revise(r, a, p) PROVE Moves
  BY <1>1, <1>2, <1>14 DEF Revise, Steps
<1>15. CASE MintRevision(r)
  <2>1. PICK b \in Approval : req' = [req EXCEPT ![r] = Replaced(req[r], b)]
    BY <1>15 DEF MintRevision
  <2> QED
    BY <1>0, <1>1, <1>15, <2>1, ReplacedFields
<1> QED
  BY <1>4, <1>5, <1>6, <1>7, <1>8, <1>9, <1>10, <1>11, <1>12, <1>13, <1>14, <1>15
  DEF HandlerStep

\* Every step preserves it.
LEMMA NextPoint == PointInv /\ [Next]_vars => PointInv'
<1> SUFFICES ASSUME PointInv, [Next]_vars PROVE PointInv'
  OBVIOUS
<1>0. IInv /\ IInv' /\ RowsPersist /\ TypeOK
  BY NextKeeps, NextRowsPersist DEF PointInv, IInv
<1>1. CASE UNCHANGED req
  BY <1>0, <1>1, QuietPoint
<1>2. ASSUME NEW t \in Thread, TurnStep(t) PROVE PointInv'
  BY <1>1, <1>2 DEF TurnStep, Post, StartTurn, ProviderAnswers,
                    ProviderSuspends, ProviderDenied
<1>3. ASSUME NEW r \in Request, HandlerStep(r) PROVE PointInv'
  <2>1. CASE \E a \in Approval, p \in Payload : Revise(r, a, p)
    BY <1>0, <2>1, RevisePoint
  <2>2. CASE MintRevision(r)
    BY <1>0, <2>2, MintRevisionPoint
  <2>3. CASE ~MintRevision(r) /\ ~\E a \in Approval, p \in Payload : Revise(r, a, p)
    <3>1. \A s \in Request : req'[s].pc \in {"mint", "supersede"} => req'[s] = req[s]
      BY <1>0, <1>3, <2>3, HandlerMoves
    <3> QED
      BY <1>0, <3>1, QuietPoint
  <2> QED
    BY <2>1, <2>2, <2>3
<1>4. ASSUME NEW a \in Approval, Age(a) \/ Reject(a) PROVE PointInv'
  BY <1>1, <1>4 DEF Age, Reject
<1>5. CASE Crash
  <2>1. \A r \in Request : req'[r].pc = "idle"
    BY <1>5, IdleFields DEF Crash
  <2> QED
    BY <1>0, <2>1, QuietPoint
<1> QED
  BY <1>1, <1>2, <1>3, <1>4, <1>5 DEF Next, vars

\* The replacement is committed before the old row points to it and is never
\* bound to another call, so a restart between the two statements of
\* revise_approval, or a decision that races them, leaves no dangling pointer.
THEOREM PointersLead == Spec => []SupersededPointsToReplacement
<1>1. PointInv => SupersededPointsToReplacement
  BY DEF PointInv, Replaces, SupersededPointsToReplacement
<1> QED
  BY <1>1, InitPoint, NextPoint, PTL DEF Spec

-----------------------------------------------------------------------------
(* What the journal is good for.  apply_approval looks a write up, runs it  *)
(* and records it in three steps: NoDuplicateSideEffect is refuted by two   *)
(* handlers between lookup and record, and by a write that fails after its  *)
(* effect.  Without either, the journal does what its comment claims.       *)

\* No two handlers run writes with the same arguments in the same turn.
SerialWrites ==
  \A r, s \in Request :
    /\ r # s
    /\ req[r].pc \in {"invoke", "record"} /\ req[s].pc \in {"invoke", "record"}
    /\ appr[req[r].appr].payload = appr[req[s].appr].payload
    => req[r].key # req[s].key

Undisturbed == SerialWrites /\ faults = 0

\* Journal J has a write with arguments p for turn key k.
InJournal(J, p, k) == \E j \in J : j.payload = p /\ j.key = k

\* A write that ran is in the journal, or its handler is about to put it there;
\* a handler that is to run a write has not missed an entry.
JournalInv ==
  /\ IInv
  /\ \A a, b \in Approval :
       a # b /\ effect[a].n > 0 /\ effect[b].n > 0
       /\ appr[a].payload = appr[b].payload => effect[a].key # effect[b].key
  /\ \A a \in Approval : effect[a].n > 0 =>
       \/ InJournal(journal, appr[a].payload, effect[a].key)
       \/ \E r \in Request : /\ req[r].pc = "record" /\ req[r].appr = a
                             /\ req[r].key = effect[a].key
  /\ \A r \in Request : req[r].pc = "invoke" =>
       ~InJournal(journal, appr[req[r].appr].payload, req[r].key)

\* No write has run at first.
LEMMA InitJournal == Init => JournalInv
BY InitIInv DEF Init, JournalInv, Idle, Handling

\* What the rows and the handlers of a JournalInv state refer to.
LEMMA JournalRefs ==
  ASSUME IInv, RowsPersist
  PROVE  /\ \A a \in Approval : effect[a].n > 0 => appr'[a].payload = appr[a].payload
         /\ \A r \in Request : req[r].pc \in Claimed =>
              appr'[req[r].appr].payload = appr[req[r].appr].payload
BY DEF IInv, ExecutedOnlyIfApproved, HandlersWellFormed, ClaimsExclusive,
       Claimed, RowsPersist, SameBinding

\* Steps that run no write, record none and send no handler to run one.
LEMMA QuietJournal ==
  ASSUME JournalInv, IInv', RowsPersist, UNCHANGED <<journal, effect>>,
         \A r \in Request : req[r].pc = "record" => req'[r] = req[r],
         \A r \in Request : req'[r].pc = "invoke" => req'[r] = req[r]
  PROVE  JournalInv'
<1>1. /\ \A a \in Approval : effect[a].n > 0 => appr'[a].payload = appr[a].payload
      /\ \A r \in Request : req[r].pc \in Claimed =>
           appr'[req[r].appr].payload = appr[req[r].appr].payload
  BY JournalRefs DEF JournalInv
<1>3. \A a \in Approval : effect'[a].n > 0 =>
        \/ InJournal(journal', appr'[a].payload, effect'[a].key)
        \/ \E r \in Request : /\ req'[r].pc = "record" /\ req'[r].appr = a
                              /\ req'[r].key = effect'[a].key
  BY <1>1 DEF JournalInv
<1>4. \A r \in Request : req'[r].pc = "invoke" =>
        ~InJournal(journal', appr'[req'[r].appr].payload, req'[r].key)
  BY <1>1 DEF JournalInv, Claimed
<1>5. \A a, b \in Approval :
        a # b /\ effect'[a].n > 0 /\ effect'[b].n > 0
        /\ appr'[a].payload = appr'[b].payload => effect'[a].key # effect'[b].key
  BY <1>1 DEF JournalInv
<1> QED
  BY <1>3, <1>4, <1>5 DEF JournalInv

\* A handler that goes on keeps its turn key.
LEMMA GotoKey ==
  ASSUME NEW h \in Handler, NEW pc \in Steps
  PROVE  Goto(h, pc).key = h.key
BY DEF Goto, Handler

\* Looking up: who is sent to run a write has found no entry.
LEMMA LookupJournal ==
  ASSUME JournalInv, IInv', RowsPersist, NEW r \in Request, Lookup(r)
  PROVE  JournalInv'
<1> DEFINE a == req[r].appr
<1>0. /\ IInv /\ TypeOK /\ a \in Approval /\ req[r] \in Handler
      /\ req[r].pc = "lookup"
  BY ClaimedRow DEF JournalInv, IInv, Lookup, Claimed
<1>1. UNCHANGED <<appr, effect, journal>>
  BY DEF Lookup
<1>2. PICK h : /\ req' = [req EXCEPT ![r] = h]
               /\ \/ h = Goto(req[r], "append")
                  \/ /\ h = Goto(req[r], "invoke")
                     /\ ~InJournal(journal, appr[a].payload, req[r].key)
  BY DEF Lookup, Journaled, InJournal
<1>3. /\ h.pc \in {"append", "invoke"} /\ h.appr = a /\ h.key = req[r].key
      /\ h.pc = "invoke" => ~InJournal(journal, appr[a].payload, req[r].key)
  <2>1. \A pc \in {"append", "invoke"} :
          /\ Goto(req[r], pc).pc = pc /\ Goto(req[r], pc).appr = a
          /\ Goto(req[r], pc).key = req[r].key
    <3>1. {"append", "invoke"} \subseteq Steps
      BY DEF Steps
    <3>2. req[r].appr = a
      OBVIOUS
    <3> HIDE DEF a
    <3> QED
      BY <1>0, <3>1, <3>2, GotoFields, GotoKey
  <2>2. CASE h = Goto(req[r], "append")
    BY <2>1, <2>2
  <2>3. CASE /\ h = Goto(req[r], "invoke")
             /\ ~InJournal(journal, appr[a].payload, req[r].key)
    BY <2>1, <2>3
  <2> QED
    BY <1>2, <2>2, <2>3
<1> HIDE DEF a
<1>4. \A s \in Request : req'[s] = IF s = r THEN h ELSE req[s]
  BY <1>0, <1>2 DEF TypeOK
<1>5. \A s \in Request : req'[s].pc = "invoke" =>
        ~InJournal(journal', appr'[req'[s].appr].payload, req'[s].key)
  BY <1>1, <1>3, <1>4 DEF JournalInv
<1>6. \A s \in Request : req[s].pc = "record" => req'[s] = req[s]
  BY <1>0, <1>4
<1> QED
  BY <1>1, <1>5, <1>6 DEF JournalInv

\* Running a write that is not in the journal: no other one with its
\* arguments has run in this turn, for it would be in the journal or on its
\* way there, in another handler.
LEMMA InvokeJournal ==
  ASSUME JournalInv, IInv', RowsPersist, SerialWrites, faults' = 0,
         NEW r \in Request, Invoke(r)
  PROVE  JournalInv'
<1> DEFINE a == req[r].appr
<1>0. /\ IInv /\ TypeOK /\ a \in Approval /\ req[r] \in Handler
      /\ req[r].pc = "invoke" /\ effect[a].n = 0 /\ faults \in Nat
  <2>1. IInv /\ req[r].pc = "invoke"
    BY DEF JournalInv, Invoke
  <2> QED
    BY <2>1, ClaimedRow, BoundsAreNaturals
    DEF IInv, ClaimsExclusive, Claimed, BeforeEffect, TypeOK
<1>1. UNCHANGED <<appr, journal>>
  BY DEF Invoke
<1>2. \/ req' = [req EXCEPT ![r] = Idle] /\ UNCHANGED effect
      \/ /\ req' = [req EXCEPT ![r] = Goto(req[r], "record")]
         /\ effect' = [effect EXCEPT ![a] = [n |-> effect[a].n + 1, key |-> req[r].key]]
  BY <1>0 DEF Invoke
<1>3. CASE req' = [req EXCEPT ![r] = Idle] /\ UNCHANGED effect
  <2>1. \A s \in Request : req'[s] = IF s = r THEN Idle ELSE req[s]
    BY <1>0, <1>3 DEF TypeOK
  <2>2. \A s \in Request : /\ req[s].pc = "record" => req'[s] = req[s]
                           /\ req'[s].pc = "invoke" => req'[s] = req[s]
    BY <1>0, <2>1, IdleFields
  <2> QED
    BY <1>1, <1>3, <2>2, QuietJournal
<1>4. CASE /\ req' = [req EXCEPT ![r] = Goto(req[r], "record")]
           /\ effect' = [effect EXCEPT ![a] = [n |-> effect[a].n + 1, key |-> req[r].key]]
  <2>1. PICK h : h = Goto(req[r], "record")
    OBVIOUS
  <2>2. h.pc = "record" /\ h.appr = a /\ h.key = req[r].key
    BY <1>0, <2>1, GotoFields, GotoKey DEF Steps
  <2>3. \A s \in Request : req'[s] = IF s = r THEN h ELSE req[s]
    BY <1>0, <1>4, <2>1 DEF TypeOK
  <2>4. /\ effect'[a].key = req[r].key
        /\ \A b \in Approval : b # a => effect'[b] = effect[b]
    BY <1>0, <1>4 DEF TypeOK
  <2> HIDE DEF a
  <2>5. ASSUME NEW b \in Approval, b # a, effect[b].n > 0,
               appr[b].payload = appr[a].payload
        PROVE  effect[b].key # req[r].key
    <3> SUFFICES ASSUME effect[b].key = req[r].key PROVE FALSE
      OBVIOUS
    <3>1. ~InJournal(journal, appr[a].payload, req[r].key)
      BY <1>0 DEF JournalInv, a
    <3>2. PICK s \in Request : /\ req[s].pc = "record" /\ req[s].appr = b
                              /\ req[s].key = effect[b].key
      BY <2>5, <3>1 DEF JournalInv
    <3>3. s # r
      BY <1>0, <3>2
    <3> QED
      BY <1>0, <2>5, <3>2, <3>3 DEF SerialWrites, a
  <2>6. \A b, c \in Approval :
          b # c /\ effect'[b].n > 0 /\ effect'[c].n > 0
          /\ appr'[b].payload = appr'[c].payload => effect'[b].key # effect'[c].key
    BY <1>1, <2>4, <2>5 DEF JournalInv
  <2>7. \A b \in Approval : effect'[b].n > 0 =>
          \/ InJournal(journal', appr'[b].payload, effect'[b].key)
          \/ \E s \in Request : /\ req'[s].pc = "record" /\ req'[s].appr = b
                                /\ req'[s].key = effect'[b].key
    <3>1. ASSUME NEW b \in Approval, b # a, effect[b].n > 0
          PROVE  \/ InJournal(journal', appr'[b].payload, effect'[b].key)
                 \/ \E s \in Request : /\ req'[s].pc = "record" /\ req'[s].appr = b
                                       /\ req'[s].key = effect'[b].key
      BY <1>0, <1>1, <2>3, <2>4, <3>1 DEF JournalInv
    <3> QED
      BY <2>2, <2>3, <2>4, <3>1
  <2>8. \A s \in Request : req'[s].pc = "invoke" =>
          ~InJournal(journal', appr'[req'[s].appr].payload, req'[s].key)
    BY <1>1, <2>2, <2>3 DEF JournalInv
  <2> QED
    BY <2>6, <2>7, <2>8 DEF JournalInv
<1> QED
  BY <1>2, <1>3, <1>4

\* Recording: the entry is there for its write, and no handler that is to run
\* one waits for the same arguments.
LEMMA RecordJournal ==
  ASSUME JournalInv, IInv', RowsPersist, SerialWrites, NEW r \in Request, Record(r)
  PROVE  JournalInv'
<1> DEFINE a == req[r].appr
           p == appr[a].payload
           k == req[r].key
<1>0. /\ IInv /\ TypeOK /\ a \in Approval /\ req[r] \in Handler
      /\ req[r].pc = "record"
  BY ClaimedRow DEF JournalInv, IInv, Record, Claimed
<1>1. UNCHANGED <<appr, effect>>
  BY DEF Record
<1>2. /\ InJournal(journal', p, k)
      /\ \A q, m : InJournal(journal', q, m) <=>
                     InJournal(journal, q, m) \/ (q = p /\ m = k)
  <2>1. CASE Journaled(p, k)
    <3>1. journal' = journal /\ InJournal(journal, p, k)
      BY <2>1 DEF Record, Journaled, InJournal
    <3> QED
      BY <3>1
  <2>2. CASE ~Journaled(p, k)
    <3> DEFINE new == [payload |-> p, key |-> k, appr |-> a]
    <3>1. journal' = journal \cup {new}
      BY <2>2 DEF Record
    <3>2. new.payload = p /\ new.key = k
      OBVIOUS
    <3> HIDE DEF new, p, k
    <3> QED
      BY <3>1, <3>2 DEF InJournal
  <2> QED BY <2>1, <2>2
<1>3. PICK h : /\ req' = [req EXCEPT ![r] = h]
               /\ h = Idle \/ h = Goto(req[r], "append")
  BY DEF Record
<1>4. h.pc \in {"idle", "append"}
  BY <1>0, <1>3, GotoFields, IdleFields DEF Steps
<1>5. \A s \in Request : req'[s] = IF s = r THEN h ELSE req[s]
  BY <1>0, <1>3 DEF TypeOK
<1>6. \A b \in Approval : effect'[b].n > 0 =>
        \/ InJournal(journal', appr'[b].payload, effect'[b].key)
        \/ \E s \in Request : /\ req'[s].pc = "record" /\ req'[s].appr = b
                              /\ req'[s].key = effect'[b].key
  BY <1>1, <1>2, <1>5 DEF JournalInv
<1>7. ASSUME NEW s \in Request, req'[s].pc = "invoke"
      PROVE  ~InJournal(journal', appr'[req'[s].appr].payload, req'[s].key)
  <2>1. s # r /\ req'[s] = req[s] /\ req[s].pc = "invoke"
    BY <1>4, <1>5, <1>7
  <2>2. ~InJournal(journal, appr[req[s].appr].payload, req[s].key)
    BY <2>1 DEF JournalInv
  <2>3. ~(appr[req[s].appr].payload = p /\ req[s].key = k)
    BY <1>0, <2>1 DEF SerialWrites
  <2> QED
    BY <1>1, <1>2, <2>1, <2>2, <2>3
<1> QED
  BY <1>1, <1>6, <1>7 DEF JournalInv

\* Every step that keeps writes apart and completes them preserves it.
LEMMA NextJournal ==
  JournalInv /\ Undisturbed /\ Undisturbed' /\ [Next]_vars => JournalInv'
<1> SUFFICES ASSUME JournalInv, Undisturbed, Undisturbed', [Next]_vars
             PROVE  JournalInv'
  OBVIOUS
<1>0. IInv /\ IInv' /\ RowsPersist /\ TypeOK
  BY NextKeeps, NextRowsPersist DEF JournalInv, IInv
<1>1. CASE UNCHANGED <<req, journal, effect>>
  BY <1>0, <1>1, QuietJournal
<1>2. ASSUME NEW t \in Thread, TurnStep(t) PROVE JournalInv'
  BY <1>1, <1>2 DEF TurnStep, Post, StartTurn, ProviderAnswers,
                    ProviderSuspends, ProviderDenied
<1>3. ASSUME NEW r \in Request, HandlerStep(r) PROVE JournalInv'
  <2>1. CASE Lookup(r)
    BY <1>0, <2>1, LookupJournal
  <2>2. CASE Invoke(r)
    BY <1>0, <2>2, InvokeJournal DEF Undisturbed
  <2>3. CASE Record(r)
    BY <1>0, <2>3, RecordJournal DEF Undisturbed
  <2>4. CASE ~Lookup(r) /\ ~Invoke(r) /\ ~Record(r)
    <3>1. req[r].pc # "record" /\ UNCHANGED <<journal, effect>>
      BY <1>3, <2>4
      DEF HandlerStep, Approve, Claim, Policy, AppendResult, Revise,
          MintRevision, Supersede, Retry, Pause, Resume, Remint, Freeze, Settle
    <3>2. /\ \A s \in Request : s # r => req'[s] = req[s]
          /\ req'[r] = req[r] \/ req'[r].pc # "invoke"
      BY <1>0, <1>3, <2>4, HandlerMoves
    <3> QED
      BY <1>0, <3>1, <3>2, QuietJournal
  <2> QED BY <2>1, <2>2, <2>3, <2>4
<1>4. ASSUME NEW a \in Approval, Age(a) \/ Reject(a) PROVE JournalInv'
  BY <1>1, <1>4 DEF Age, Reject
<1>5. ~Crash
  BY DEF Crash, Undisturbed
<1> QED
  BY <1>1, <1>2, <1>3, <1>4, <1>5 DEF Next, vars

\* apply_approval's promise that a replayed write is never executed twice holds
\* of every behaviour in which writes with the same arguments do not overlap
\* and none fails, or is cut off by a restart, half-way (agent.py,
\* agent_tool_writes).  Without these hypotheses TLC refutes it.
THEOREM JournalSuffices ==
  Spec /\ []Undisturbed => []NoDuplicateSideEffect
<1>1. JournalInv => NoDuplicateSideEffect
  BY DEF JournalInv, NoDuplicateSideEffect
<1> QED
  BY <1>1, InitJournal, NextJournal, PTL DEF Spec
=============================================================================
