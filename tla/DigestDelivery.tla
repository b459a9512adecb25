---------------------------- MODULE DigestDelivery ----------------------------
(***************************************************************************)
(* The mail digest (mail_digest.py, newsletter_issues.py and the routes    *)
(* that send): the hourly scheduler of every instance, the window lease it *)
(* takes, deliver_digest with its conversation with the SMTP relay, the    *)
(* ledger of issues, send-now and the retry of a failed issue.             *)
(*                                                                         *)
(* A step of an actor ends where the code awaits.  The relay answers each  *)
(* address on its own (send_digest_to_recipients); the address list is a   *)
(* set, so the order of delivery is any order.  An actor may be on any     *)
(* instance: two actors of one instance also exclude each other during the *)
(* conversation, which is a synchronous call, and that only takes          *)
(* interleavings away.                                                     *)
(***************************************************************************)
EXTENDS RuntimeLeases, FiniteSets

CONSTANTS Scheduler,   \* one digest loop per instance
          Handler,     \* slots for requests to POST .../send-now and .../retry
          Address,     \* the addresses the setting to_addr may name
          Hour,        \* Hour[t] : the hour (a scope) unit t lies in
          DueHour,     \* the hours that match the configured one
          LastUnit,    \* bound: the clock stops here
          MaxFaults    \* bound: refusals, outages, crashes and changes of to_addr

ASSUME HoursAreScopes ==
    /\ LastUnit \in Nat
    /\ Hour \in [0..LastUnit -> Scope]
    /\ DueHour \subseteq Scope
ASSUME Actors ==
    /\ Scheduler \cap Handler = {}
    /\ Handler \cap Scope = {}
ASSUME NoneIsNeither ==
    /\ None \notin Scope \cup Handler
    /\ None \notin [sent : SUBSET Address, failed : SUBSET Address]
    /\ None \notin [status : {"sent", "failed"},
                    sent : SUBSET Address, failed : SUBSET Address]
ASSUME BoundsAreNatural == MaxFaults \in Nat

VARIABLES run,       \* run[a] : where actor a is and what it carries
          ledger,    \* newsletter_issues : one row per hour, or per send-now
          to,        \* digest_settings.to_addr
          lastSent,  \* digest_settings.last_sent_at, as the hour it lies in
          reached,   \* history: <<row, address>> the relay accepted mail for
          edited,    \* history: addresses put into or taken out of to_addr
          faults

digestVars == <<run, ledger, to, lastSent, reached, edited, faults>>
vars == <<leaseVars, digestVars>>

Actor == Scheduler \cup Handler
RowId == Scope \cup Handler      \* dedupe_key, or the new row of a send-now
Tally == [sent : SUBSET Address, failed : SUBSET Address]
Issue == [status : {"sent", "failed"}, sent : SUBSET Address,
          failed : SUBSET Address]

NoTally == [sent |-> {}, failed |-> {}]

(* pc: "idle", then for a scheduler "acquire" (the row was read), "prepare" *)
(* (the lease is held); for a handler "prepare" (a retry read its row);    *)
(* for both "smtp", "write", "mark"; "release" for a scheduler.  `scope',  *)
(* `owner' and `until' describe the lease, `until' as a history of what    *)
(* acquire wrote; `base' is the issue that was read before the write,      *)
(* `todo' and `tally' are the conversation with the relay.                 *)
Idle == [pc |-> "idle", kind |-> "none", scope |-> None, owner |-> None,
         until |-> 0, row |-> None, base |-> None, todo |-> {},
         tally |-> NoTally]

PC == {"idle", "acquire", "prepare", "smtp", "write", "mark", "release"}
Attempt == [pc : PC, kind : {"none", "scheduled", "retry", "now"},
            scope : Scope \cup {None}, owner : Owner \cup {None}, until : Nat,
            row : RowId \cup {None}, base : Issue \cup Tally \cup {None},
            todo : SUBSET Address, tally : Tally]

Holding == {"prepare", "smtp", "write", "mark", "release"}

Init ==
    /\ LeaseInit
    /\ run = [a \in Actor |-> Idle]
    /\ ledger = [r \in RowId |-> None]
    /\ to \in SUBSET Address
    /\ lastSent = None
    /\ reached = {} /\ edited = {}
    /\ faults = 0

At(a, pc) == run[a].pc = pc
Put(a, rec) == run' = [run EXCEPT ![a] = rec]

\* (A fault, for mutation checks: the end of an attempt forgets its lease.)
EndedAnonymous(a) ==
    IF a \in Scheduler THEN [Idle EXCEPT !.pc = "release"] ELSE Idle

\* An attempt has ended, well or by an exception: the scheduler's finally
\* clause is left to release the lease, a route returns.
Ended(a) ==
    IF a \in Scheduler
    THEN [Idle EXCEPT !.pc = "release", !.scope = run[a].scope,
                      !.owner = run[a].owner, !.until = run[a].until]
    ELSE Idle

-----------------------------------------------------------------------------
(* The scheduler around the attempt: DigestScheduler.maybe_send.           *)

\* The settings row, read once; the hour is compared with the last mark.
Check(p) ==
    /\ At(p, "idle")
    /\ Hour[now] \in DueHour
    /\ lastSent # Hour[now]
    /\ Put(p, [Idle EXCEPT !.pc = "acquire", !.scope = Hour[now]])
    /\ UNCHANGED <<leaseVars, ledger, to, lastSent, reached, edited,
                   faults>>

\* Each tick builds its DigestScheduler, and with it an owner token that is
\* found nowhere else.
Seen == {run[p].owner : p \in Scheduler} \cup
        {lease[s].owner : s \in {t \in Scope : lease[t] # None}}

TakeLease(p) ==
    /\ At(p, "acquire")
    /\ \E o \in Owner \ Seen :
          \/ /\ Acquire(o, run[p].scope)
             /\ Put(p, [run[p] EXCEPT !.pc = "prepare", !.kind = "scheduled",
                                      !.owner = o, !.until = now + TTL])
          \/ /\ Refused(o, run[p].scope)
             /\ Put(p, Idle)
    /\ UNCHANGED <<now, ledger, to, lastSent, reached, edited, faults>>

GiveBackLease(p) ==
    /\ At(p, "release")
    /\ Release(run[p].owner, run[p].scope)
    /\ Put(p, Idle)
    /\ UNCHANGED <<now, ledger, to, lastSent, reached, edited, faults>>

\* _send_scheduled_digest: settings, items, and the key of the hour it is now.
PrepareScheduled(p) ==
    /\ At(p, "prepare") /\ p \in Scheduler
    /\ \/ /\ to # {}
          /\ Put(p, [run[p] EXCEPT !.pc = "smtp", !.row = Hour[now],
                                   !.todo = to])
       \/ Put(p, Ended(p))             \* no recipient, or nothing to send
    /\ UNCHANGED <<leaseVars, ledger, to, lastSent, reached, edited,
                   faults>>

-----------------------------------------------------------------------------
(* The routes.                                                             *)

\* send-now: settings and items, then the attempt, for a row of its own
\* (the bound: a slot has one such row).
SendNow(h) ==
    /\ At(h, "idle") /\ h \in Handler
    /\ ledger[h] = None /\ \A x \in Address : <<h, x>> \notin reached
    /\ to # {}
    /\ Put(h, [Idle EXCEPT !.pc = "smtp", !.kind = "now", !.row = h,
                           !.todo = to])
    /\ UNCHANGED <<leaseVars, ledger, to, lastSent, reached, edited,
                   faults>>

\* retry: the row as it was read decides, to the end, who is still missing.
ReadIssue(h) ==
    /\ At(h, "idle") /\ h \in Handler
    /\ \E r \in RowId :
          /\ ledger[r] # None
          /\ ledger[r].status = "failed"
          /\ Put(h, [Idle EXCEPT !.pc = "prepare", !.kind = "retry", !.row = r,
                                 !.base = [sent |-> ledger[r].sent,
                                            failed |-> ledger[r].failed]])
    /\ UNCHANGED <<leaseVars, ledger, to, lastSent, reached, edited,
                   faults>>

\* retry_digest_issue: those not sent that the settings still name; or an
\* error: no relay or nobody left in the settings, or no item to send.
PrepareRetry(h) ==
    /\ At(h, "prepare") /\ h \in Handler
    /\ LET missing == run[h].base.failed \cap to
       IN  \/ /\ missing # {}
              /\ Put(h, [run[h] EXCEPT !.pc = "smtp", !.todo = missing])
           \/ Put(h, Ended(h))
    /\ UNCHANGED <<leaseVars, ledger, to, lastSent, reached, edited,
                   faults>>

\* Nobody is missing in the row that was read: it is repaired to sent.
Repair(h) ==
    /\ At(h, "prepare") /\ h \in Handler
    /\ to # {} /\ run[h].base.failed = {}
    /\ ledger' = [ledger EXCEPT ![run[h].row] =
                     [status |-> "sent", sent |-> run[h].base.sent,
                      failed |-> {}]]
    /\ Put(h, Ended(h))
    /\ UNCHANGED <<leaseVars, to, lastSent, reached, edited, faults>>

-----------------------------------------------------------------------------
(* deliver_digest.                                                         *)

\* One address: accepted by the relay.
Deliver(a) ==
    /\ At(a, "smtp")
    /\ \E r \in run[a].todo :
          /\ Put(a, [run[a] EXCEPT !.todo = @ \ {r}, !.tally.sent = @ \cup {r}])
          /\ reached' = reached \cup {<<run[a].row, r>>}
    /\ UNCHANGED <<leaseVars, ledger, to, lastSent, edited, faults>>

\* The addresses that fail with r: r alone, or all the rest as well.
FailedWith(a, r) == {{r}, run[a].todo}

Refuse(a) ==
    /\ At(a, "smtp")
    /\ faults < MaxFaults
    /\ \E r \in run[a].todo : \E F \in FailedWith(a, r) :
          Put(a, [run[a] EXCEPT !.todo = @ \ F, !.tally.failed = @ \cup F])
    /\ faults' = faults + 1
    /\ UNCHANGED <<leaseVars, ledger, to, lastSent, reached, edited>>

\* The conversation over, the row is looked up: by its id to merge into it,
\* or by the dedupe key.  send-now has neither and inserts.
Find(a) ==
    /\ At(a, "smtp") /\ run[a].todo = {}
    /\ Put(a, [run[a] EXCEPT !.pc = "write",
                   !.base = IF run[a].kind = "now" THEN None
                            ELSE ledger[run[a].row]])
    /\ UNCHANGED <<leaseVars, ledger, to, lastSent, reached, edited,
                   faults>>

\* (A fault, for mutation checks: everyone listed who did not fail this time
\* counts as sent.)
MergeComplement(base, tally) ==
    [sent |-> (base.sent \cup base.failed \cup tally.sent) \ tally.failed,
     failed |-> tally.failed]

\* merge_recipients: an address once sent stays sent.
Merge(base, tally) ==
    LET sent == base.sent \cup tally.sent
    IN  [sent |-> sent, failed |-> (base.failed \cup tally.failed) \ sent]

Entries(a) == IF run[a].kind = "retry" THEN Merge(run[a].base, run[a].tally)
              ELSE run[a].tally

\* (A fault, for mutation checks: closed as soon as anybody was reached.)
StatusOptimistic(a) == IF run[a].tally.sent # {} THEN "sent" ELSE "failed"

Status(a) == IF run[a].tally.failed = {} THEN "sent" ELSE "failed"

\* record_result.  An INSERT that finds the key taken raises, and the
\* settings are then not marked.
Write(a) ==
    /\ At(a, "write")
    /\ IF run[a].base = None /\ ledger[run[a].row] # None
       THEN Put(a, Ended(a)) /\ UNCHANGED ledger
       ELSE /\ Put(a, [run[a] EXCEPT !.pc = "mark", !.base = None])
            /\ ledger' = [ledger EXCEPT ![run[a].row] =
                             [status |-> Status(a), sent |-> Entries(a).sent,
                              failed |-> Entries(a).failed]]
    /\ UNCHANGED <<leaseVars, to, lastSent, reached, edited, faults>>

\* mark_sent: the hour marked is the hour of this moment.  (mark_error only
\* leaves a message for the settings page, which is not modelled.)
Mark(a) ==
    /\ At(a, "mark")
    /\ lastSent' = IF Status(a) = "sent" THEN Hour[now] ELSE lastSent
    /\ Put(a, Ended(a))
    /\ UNCHANGED <<leaseVars, ledger, to, reached, edited, faults>>

-----------------------------------------------------------------------------
(* The surroundings.                                                       *)

\* The process is gone; its lease row stays.  The slot is used again, by the
\* loop of a restarted process or by another request.
Crash(a) ==
    /\ ~At(a, "idle")
    /\ faults < MaxFaults
    /\ faults' = faults + 1
    /\ Put(a, Idle)
    /\ UNCHANGED <<leaseVars, ledger, to, lastSent, reached, edited>>

EditRecipients ==
    /\ faults < MaxFaults
    /\ faults' = faults + 1
    /\ \E x \in Address :
          /\ to' = IF x \in to THEN to \ {x} ELSE to \cup {x}
          /\ edited' = edited \cup {x}
    /\ UNCHANGED <<leaseVars, run, ledger, lastSent, reached>>

Clock ==
    /\ now < LastUnit
    /\ Advance
    /\ UNCHANGED <<lease, digestVars>>

SchedulerStep(p) ==
    Check(p) \/ TakeLease(p) \/ PrepareScheduled(p) \/ GiveBackLease(p)

HandlerStep(h) == SendNow(h) \/ ReadIssue(h) \/ PrepareRetry(h) \/ Repair(h)

AttemptStep(a) ==
    Deliver(a) \/ Refuse(a) \/ Find(a) \/ Write(a) \/ Mark(a)

Next ==
    \/ \E p \in Scheduler : SchedulerStep(p)
    \/ \E h \in Handler : HandlerStep(h)
    \/ \E a \in Actor : AttemptStep(a) \/ Crash(a)
    \/ EditRecipients
    \/ Clock

Spec == Init /\ [][Next]_vars

-----------------------------------------------------------------------------
(* Properties.                                                             *)

TypeOK ==
    /\ LeaseTypeOK /\ now \in 0..LastUnit
    /\ run \in [Actor -> Attempt]
    /\ \A p \in Scheduler : run[p].pc \in Holding => run[p].owner # None
    /\ \A p \in Scheduler : run[p].pc # "idle" => run[p].scope # None
    /\ ledger \in [RowId -> Issue \cup {None}]
    /\ to \in SUBSET Address
    /\ lastSent \in Scope \cup {None}
    /\ reached \in SUBSET (RowId \X Address)
    /\ edited \in SUBSET Address
    /\ faults \in 0..MaxFaults

Protected(p) == run[p].pc \in Holding /\ run[p].until > now

(* Two schedulers are never both at work on one window while both their    *)
(* leases live, whichever instance crashes, comes back or is late to       *)
(* release (mail_digest.py:377-382, runtime.py:25-29).                     *)
SendersExclusive ==
    \A p, q \in Scheduler :
        p # q /\ Protected(p) /\ Protected(q) => run[p].scope # run[q].scope

\* The refinement mapping: who is at work on which window under a live lease.
Claims == {<<p, run[p].scope>> : p \in {q \in Scheduler : Protected(q)}}

Windows == INSTANCE ExclusiveLease WITH Owner <- Scheduler, claims <- Claims

(* The schedulers with their lease table implement the exclusive lease:    *)
(* no takeover, sweep, late release or restart lets a tick start on a      *)
(* window while another one is at work there under a lease that still      *)
(* lives (runtime.py:25-29, 229-230).                                      *)
WindowsAreExclusive == Windows!Spec

(* An address the ledger calls sent was really given mail for that issue,  *)
(* whatever retries, ticks, crashes and merges wrote the row               *)
(* (newsletter_issues.py:3-8).                                             *)
SentIsReal ==
    \A r \in RowId : ledger[r] # None =>
        \A x \in ledger[r].sent : <<r, x>> \in reached

(* An issue that is closed as sent owes nobody: each address it lists was  *)
(* reached, or has been put into or taken out of the settings since.  A    *)
(* sent issue cannot be retried (routers/newsletter.py:208-218), so an     *)
(* address left over here would be left over for good.  The exception for  *)
(* one that was put in is needed: see the README.                          *)
ClosedOwesNobody ==
    \A r \in RowId : ledger[r] # None /\ ledger[r].status = "sent" =>
        \A x \in ledger[r].sent \cup ledger[r].failed :
            <<r, x>> \in reached \/ x \in edited

(* The claim that a second process cannot send the window again            *)
(* (mail_digest.py:377-382): once a window is marked sent, no scheduled    *)
(* mail goes out for it.                                                   *)
(* Refuted by two instances; not run, see the README.                      *)
WindowSentOnce ==
    [][\A p \in Scheduler, x \in Address :
          x \in run'[p].tally.sent \ run[p].tally.sent =>
              lastSent # run[p].scope]_vars

=============================================================================
