------------------------ MODULE DigestDeliveryProofs ------------------------
(***************************************************************************)
(* Proofs about DigestDelivery.  Four arguments, each on top of ShapeInv:  *)
(*                                                                         *)
(*   ShapeInv   what an actor carries is well formed for its place in the  *)
(*              code, and a row once in the ledger stays there;            *)
(*   LeaseInv   a scheduler whose lease lives has its own row in the lease *)
(*              table, and no two schedulers have the same token: so a     *)
(*              window is exclusive (the refinement of ExclusiveLease);    *)
(*   BookInv    whatever an actor has booked or read as sent was reached,  *)
(*              and with it whatever the ledger calls sent;                *)
(*   AccountInv an address an actor or a row has on its list is accounted  *)
(*              for: still to be mailed, reached, failed, or edited since. *)
(***************************************************************************)
EXTENDS DigestDelivery, TLAPS

Conversing == {"smtp", "write", "mark"}

\* What record r of actor a must look like beside the ledger L.
ShapeOf(a, r, L) ==
    /\ r \in Attempt
    /\ a \in Scheduler /\ r.pc \in Holding => r.owner # None
    /\ a \in Scheduler /\ r.pc # "idle" => r.scope # None
    /\ a \in Scheduler => r.kind # "retry"
    /\ a \in Scheduler /\ r.pc \in {"acquire", "prepare"} => r.base = None
    /\ a \in Handler /\ r.pc = "prepare" => r.kind = "retry"
    /\ r.pc \in Conversing => r.row # None
    /\ r.pc \notin Conversing => r.tally = NoTally
    /\ r.kind = "retry" => r.row # None /\ L[r.row] # None
    /\ r.kind = "retry" /\ r.pc \in {"prepare", "write"} => r.base # None

Shape == \A a \in Actor : ShapeOf(a, run[a], ledger)

\* The types of everything but run.
OthersOK ==
    /\ LeaseTypeOK /\ now \in 0..LastUnit
    /\ ledger \in [RowId -> Issue \cup {None}]
    /\ to \in SUBSET Address
    /\ lastSent \in Scope \cup {None}
    /\ reached \in SUBSET (RowId \X Address)
    /\ edited \in SUBSET Address
    /\ faults \in 0..MaxFaults

ShapeInv == OthersOK /\ run \in [Actor -> Attempt] /\ Shape

\* A row of the ledger is rewritten, never removed.
RowsStay(L, M) == \A r \in RowId : L[r] # None => M[r] # None

\* Replacing the record of one actor leaves the others as they are.
LEMMA PutOne ==
    ASSUME run \in [Actor -> Attempt], NEW a \in Actor, NEW rec, Put(a, rec),
           rec \in Attempt
    PROVE  /\ run' \in [Actor -> Attempt]
           /\ run'[a] = rec
           /\ \A b \in Actor : b # a => run'[b] = run[b]
  BY DEF Put

\* The record of an actor that is idle is well formed beside any ledger.
LEMMA IdleShape ==
    ASSUME NEW a \in Actor, NEW L
    PROVE  ShapeOf(a, Idle, L) /\ Idle \in Attempt
<1>1. Idle \in Attempt
  BY DEF Idle, Attempt, PC, NoTally, Tally
<1>2. QED
  BY <1>1 DEF ShapeOf, Idle, Conversing, Holding

\* The record left by the end of an attempt is well formed.
LEMMA EndedShape ==
    ASSUME NEW a \in Actor, NEW L, ShapeOf(a, run[a], L),
           run[a].pc \in {"prepare", "smtp", "write", "mark"}
    PROVE  ShapeOf(a, Ended(a), L) /\ Ended(a) \in Attempt
<1>1. CASE a \notin Scheduler
  BY <1>1, IdleShape DEF Ended
<1>2. CASE a \in Scheduler
  <2>1. Ended(a) =
          [pc |-> "release", kind |-> "none", scope |-> run[a].scope,
           owner |-> run[a].owner, until |-> run[a].until, row |-> None,
           base |-> None, todo |-> {}, tally |-> NoTally]
    BY <1>2 DEF Ended, Idle
  <2>2. /\ run[a] \in Attempt /\ run[a].owner # None /\ run[a].scope # None
    BY <1>2 DEF ShapeOf, Holding
  <2>3. Ended(a) \in Attempt
    BY <2>1, <2>2 DEF Attempt, PC, NoTally, Tally
  <2>4. QED
    BY <1>2, <2>1, <2>2, <2>3, Actors
    DEF ShapeOf, Conversing, Holding, Actor
<1>3. QED
  BY <1>1, <1>2

\* Growing the ledger keeps every record well formed.
LEMMA ShapeGrows ==
    ASSUME NEW a \in Actor, NEW r, NEW L, NEW M, RowsStay(L, M),
           ShapeOf(a, r, L)
    PROVE  ShapeOf(a, r, M)
<1>1. r \in Attempt /\ (r.row # None => r.row \in RowId)
  BY DEF ShapeOf, Attempt
<1>2. QED
  BY <1>1 DEF ShapeOf, RowsStay

\* One actor takes a well-formed record and the ledger only grows: all the
\* records stay well formed.
LEMMA ShapeAfterPut ==
    ASSUME Shape, run \in [Actor -> Attempt], NEW a \in Actor, NEW rec,
           Put(a, rec), ShapeOf(a, rec, ledger'), RowsStay(ledger, ledger')
    PROVE  Shape' /\ run' \in [Actor -> Attempt]
<1>1. rec \in Attempt
  BY DEF ShapeOf
<1>2. /\ run' \in [Actor -> Attempt]
      /\ run'[a] = rec
      /\ \A b \in Actor : b # a => run'[b] = run[b]
  BY <1>1, PutOne
<1>3. ASSUME NEW b \in Actor PROVE ShapeOf(b, run'[b], ledger')
  <2>1. CASE b = a
    BY <1>2, <2>1
  <2>2. CASE b # a
    BY <1>2, <2>2, ShapeGrows DEF Shape
  <2>3. QED
    BY <2>1, <2>2
<1>4. QED
  BY <1>2, <1>3 DEF Shape

\* Taking, being refused and giving back keep the table a table of leases.
LEMMA LeaseTyped ==
    ASSUME LeaseTypeOK, NEW o \in Owner, NEW s \in Scope,
           Acquire(o, s) \/ Refused(o, s) \/ Release(o, s)
    PROVE  lease' \in [Scope -> LeaseRow \cup {None}]
<1>1. Swept \in [Scope -> LeaseRow \cup {None}]
  BY DEF Swept, LeaseTypeOK
<1>2. CASE Acquire(o, s)
  <2>1. [owner |-> o, until |-> now + TTL] \in LeaseRow
    BY LeasesLive DEF LeaseRow, LeaseTypeOK
  <2>2. QED
    BY <1>1, <1>2, <2>1 DEF Acquire
<1>3. CASE Refused(o, s)
  BY <1>1, <1>3 DEF Refused
<1>4. CASE Release(o, s)
  BY <1>4 DEF Release, LeaseTypeOK
<1>5. QED
  BY <1>2, <1>3, <1>4

\* Writing an issue keeps the ledger a ledger, and its rows in place.
LEMMA RowWritten ==
    ASSUME OthersOK, NEW r \in RowId, NEW i \in Issue,
           ledger' = [ledger EXCEPT ![r] = i]
    PROVE  /\ ledger' \in [RowId -> Issue \cup {None}]
           /\ RowsStay(ledger, ledger')
<1>1. i # None
  BY NoneIsNeither DEF Issue
<1>2. QED
  BY <1>1 DEF OthersOK, RowsStay

\* The hour of now is a window.
LEMMA HourTyped == ASSUME OthersOK PROVE Hour[now] \in Scope
BY HoursAreScopes DEF OthersOK

-----------------------------------------------------------------------------
(* ShapeInv is preserved, one action after the other.                      *)

\* Nobody has started: the invariant holds at first.
LEMMA InitShape == Init => ShapeInv
<1> SUFFICES ASSUME Init PROVE ShapeInv
  OBVIOUS
<1>2. run \in [Actor -> Attempt] /\ Shape
  <2>1. run = [a \in Actor |-> Idle]
    BY DEF Init
  <2>2. \A a \in Actor : run[a] = Idle /\ ShapeOf(a, Idle, ledger)
    BY <2>1, IdleShape
  <2>3. run \in [Actor -> Attempt]
    BY <2>1, IdleShape
  <2>4. QED
    BY <2>2, <2>3 DEF Shape
<1>3. OthersOK
  <2>1. /\ now = 0 /\ lease = [s \in Scope |-> None]
        /\ ledger = [r \in RowId |-> None]
        /\ to \in SUBSET Address /\ lastSent = None /\ reached = {} /\ edited = {}
        /\ faults = 0
    BY DEF Init, LeaseInit
  <2>2. LeaseTypeOK
    BY <2>1 DEF LeaseTypeOK
  <2>3. now \in 0..LastUnit /\ faults \in 0..MaxFaults
    BY <2>1, HoursAreScopes, BoundsAreNatural
  <2>4. QED
    BY <2>1, <2>2, <2>3 DEF OthersOK
<1>4. QED
  BY <1>2, <1>3 DEF ShapeInv

\* A scheduler reads the settings and finds the window due.
LEMMA CheckShape ==
    ASSUME ShapeInv, NEW p \in Scheduler, Check(p) PROVE ShapeInv'
<1> DEFINE rec == [Idle EXCEPT !.pc = "acquire", !.scope = Hour[now]]
<1>1. Put(p, rec) /\ p \in Actor
  BY DEF Check, Actor
<1>2. Hour[now] \in Scope /\ Hour[now] # None
  BY HourTyped, NoneIsNeither DEF ShapeInv
<1>3. rec \in Attempt
  BY <1>2, IdleShape, <1>1 DEF Attempt, PC
<1>4. /\ rec.pc = "acquire" /\ rec.scope = Hour[now] /\ rec.kind = "none"
      /\ rec.tally = NoTally /\ rec.base = None
  BY DEF Idle
<1>5. ShapeOf(p, rec, ledger')
  <2> HIDE DEF rec
  <2> QED
    BY <1>2, <1>3, <1>4, Actors DEF ShapeOf, Holding, Conversing
<1>6. RowsStay(ledger, ledger')
  BY DEF Check, RowsStay
<1>7. Shape' /\ run' \in [Actor -> Attempt]
  <2> HIDE DEF rec
  <2> QED
    BY <1>1, <1>5, <1>6, ShapeAfterPut DEF ShapeInv
<1>8. OthersOK'
  BY DEF ShapeInv, Check, OthersOK, leaseVars, LeaseTypeOK
<1>9. QED
  BY <1>7, <1>8 DEF ShapeInv

\* A scheduler asks for the lease of its window.
LEMMA TakeLeaseShape ==
    ASSUME ShapeInv, NEW p \in Scheduler, TakeLease(p) PROVE ShapeInv'
<1>1. PICK o \in Owner \ Seen :
         \/ /\ Acquire(o, run[p].scope)
            /\ Put(p, [run[p] EXCEPT !.pc = "prepare", !.kind = "scheduled",
                                     !.owner = o, !.until = now + TTL])
         \/ /\ Refused(o, run[p].scope)
            /\ Put(p, Idle)
  BY DEF TakeLease
<1>2. p \in Actor /\ ShapeOf(p, run[p], ledger) /\ run[p] \in Attempt
  BY DEF ShapeInv, Shape, ShapeOf, Actor
<1>3. run[p].pc = "acquire" /\ run[p].scope \in Scope
  BY <1>2 DEF TakeLease, At, ShapeOf, Attempt
<1>4. lease' \in [Scope -> LeaseRow \cup {None}]
  BY <1>1, <1>3, LeaseTyped DEF ShapeInv, OthersOK
<1>5. OthersOK' /\ ledger' = ledger /\ RowsStay(ledger, ledger')
  BY <1>4 DEF ShapeInv, TakeLease, OthersOK, LeaseTypeOK, RowsStay
<1>6. CASE Put(p, Idle)
  BY <1>2, <1>5, <1>6, IdleShape, ShapeAfterPut DEF ShapeInv
<1>7. CASE Put(p, [run[p] EXCEPT !.pc = "prepare", !.kind = "scheduled",
                                 !.owner = o, !.until = now + TTL])
  <2> DEFINE rec == [run[p] EXCEPT !.pc = "prepare", !.kind = "scheduled",
                                   !.owner = o, !.until = now + TTL]
  <2>1. o \in Owner /\ o # None /\ now + TTL \in Nat
    BY NobodyIsNoOwner, LeasesLive DEF ShapeInv, OthersOK, LeaseTypeOK
  <2>2. rec \in Attempt
    BY <1>2, <2>1 DEF Attempt, PC
  <2>3. /\ rec.pc = "prepare" /\ rec.kind = "scheduled" /\ rec.owner = o
        /\ rec.scope = run[p].scope /\ rec.base = run[p].base
        /\ rec.tally = run[p].tally
    BY <1>2 DEF Attempt
  <2>4. run[p].scope # None /\ run[p].base = None /\ run[p].tally = NoTally
    BY <1>2, <1>3 DEF ShapeOf, Conversing
  <2> HIDE DEF rec
  <2>5. ShapeOf(p, rec, ledger')
    BY <2>1, <2>2, <2>3, <2>4, Actors DEF ShapeOf, Holding, Conversing
  <2>6. Put(p, rec)
    BY <1>7 DEF rec
  <2>7. QED
    BY <1>2, <1>5, <2>5, <2>6, ShapeAfterPut DEF ShapeInv
<1>8. QED
  BY <1>1, <1>6, <1>7

\* The end of an attempt, by whatever action, leaves ShapeInv.
LEMMA EndShape ==
    ASSUME ShapeInv, NEW a \in Actor, Put(a, Ended(a)),
           run[a].pc \in {"prepare", "smtp", "write", "mark"},
           OthersOK', RowsStay(ledger, ledger')
    PROVE  ShapeInv'
<1>1. ShapeOf(a, run[a], ledger')
  BY ShapeGrows DEF ShapeInv, Shape
<1>2. ShapeOf(a, Ended(a), ledger')
  BY <1>1, EndedShape
<1>3. QED
  BY <1>2, ShapeAfterPut DEF ShapeInv

\* A scheduler gives its lease back.
LEMMA GiveBackShape ==
    ASSUME ShapeInv, NEW p \in Scheduler, GiveBackLease(p) PROVE ShapeInv'
<1>1. p \in Actor /\ ShapeOf(p, run[p], ledger) /\ run[p] \in Attempt
  BY DEF ShapeInv, Shape, ShapeOf, Actor
<1>2. run[p].owner \in Owner /\ run[p].scope \in Scope
  BY <1>1 DEF GiveBackLease, At, ShapeOf, Holding, Attempt
<1>3. lease' \in [Scope -> LeaseRow \cup {None}]
  BY <1>2, LeaseTyped DEF ShapeInv, OthersOK, GiveBackLease
<1>4. OthersOK' /\ ledger' = ledger /\ RowsStay(ledger, ledger')
  BY <1>3 DEF ShapeInv, GiveBackLease, OthersOK, LeaseTypeOK, RowsStay
<1>5. QED
  BY <1>1, <1>4, IdleShape, ShapeAfterPut DEF ShapeInv, GiveBackLease

\* A scheduler turns the settings into an attempt, or gives up.
LEMMA PrepareScheduledShape ==
    ASSUME ShapeInv, NEW p \in Scheduler, PrepareScheduled(p) PROVE ShapeInv'
<1>1. p \in Actor /\ ShapeOf(p, run[p], ledger) /\ run[p] \in Attempt
      /\ run[p].pc = "prepare"
  BY DEF ShapeInv, Shape, ShapeOf, Actor, PrepareScheduled, At
<1>2. OthersOK' /\ ledger' = ledger /\ RowsStay(ledger, ledger')
  BY DEF ShapeInv, PrepareScheduled, OthersOK, leaseVars, LeaseTypeOK, RowsStay
<1>3. CASE Put(p, Ended(p))
  BY <1>1, <1>2, <1>3, EndShape
<1>4. CASE Put(p, [run[p] EXCEPT !.pc = "smtp", !.row = Hour[now], !.todo = to])
  <2> DEFINE rec == [run[p] EXCEPT !.pc = "smtp", !.row = Hour[now], !.todo = to]
  <2>1. Hour[now] \in RowId /\ Hour[now] # None /\ to \in SUBSET Address
    BY HourTyped, NoneIsNeither DEF ShapeInv, RowId, OthersOK
  <2>2. rec \in Attempt
    BY <1>1, <2>1 DEF Attempt, PC
  <2>3. /\ rec.pc = "smtp" /\ rec.row = Hour[now]
        /\ \A f \in {"kind", "scope", "owner"} : rec[f] = run[p][f]
    BY <1>1 DEF Attempt
  <2> HIDE DEF rec
  <2>4. ShapeOf(p, rec, ledger')
    BY <1>1, <2>1, <2>2, <2>3, Actors DEF ShapeOf, Holding, Conversing
  <2>5. Put(p, rec)
    BY <1>4 DEF rec
  <2>6. QED
    BY <1>1, <1>2, <2>4, <2>5, ShapeAfterPut DEF ShapeInv
<1>5. QED
  BY <1>3, <1>4 DEF PrepareScheduled

\* A request to send now starts an attempt for a row of its own.
LEMMA SendNowShape ==
    ASSUME ShapeInv, NEW h \in Handler, SendNow(h) PROVE ShapeInv'
<1> DEFINE rec == [Idle EXCEPT !.pc = "smtp", !.kind = "now", !.row = h,
                               !.todo = to]
<1>1. h \in Actor /\ h \in RowId /\ h # None /\ h \notin Scheduler
  BY Actors, NoneIsNeither DEF Actor, RowId
<1>2. OthersOK' /\ ledger' = ledger /\ RowsStay(ledger, ledger')
  BY DEF ShapeInv, SendNow, OthersOK, leaseVars, LeaseTypeOK, RowsStay
<1>3. rec \in Attempt
  BY <1>1, IdleShape DEF ShapeInv, OthersOK, Attempt, PC
<1>4. rec.pc = "smtp" /\ rec.row = h /\ rec.kind = "now"
  BY DEF Idle
<1>5. Put(h, rec)
  BY DEF SendNow
<1> HIDE DEF rec
<1>6. ShapeOf(h, rec, ledger')
  BY <1>1, <1>3, <1>4 DEF ShapeOf, Holding, Conversing
<1>7. QED
  BY <1>1, <1>2, <1>5, <1>6, ShapeAfterPut DEF ShapeInv

\* A retry reads a failed issue.
LEMMA ReadIssueShape ==
    ASSUME ShapeInv, NEW h \in Handler, ReadIssue(h) PROVE ShapeInv'
<1>1. h \in Actor /\ h \notin Scheduler
  BY Actors DEF Actor
<1>2. OthersOK' /\ ledger' = ledger /\ RowsStay(ledger, ledger')
  BY DEF ShapeInv, ReadIssue, OthersOK, leaseVars, LeaseTypeOK, RowsStay
<1>3. PICK r \in RowId :
        /\ ledger[r] # None
        /\ Put(h, [Idle EXCEPT !.pc = "prepare", !.kind = "retry", !.row = r,
                      !.base = [sent |-> ledger[r].sent,
                                failed |-> ledger[r].failed]])
  BY DEF ReadIssue
<1> DEFINE base == [sent |-> ledger[r].sent, failed |-> ledger[r].failed]
           rec == [Idle EXCEPT !.pc = "prepare", !.kind = "retry", !.row = r,
                               !.base = base]
<1>4. base \in Tally
  BY <1>3 DEF ShapeInv, OthersOK, Issue, Tally
<1>5. base # None /\ r # None
  BY <1>4, NoneIsNeither DEF Tally, RowId
<1>6. Put(h, rec)
  BY <1>3
<1> HIDE DEF base
<1>7. rec \in Attempt
  BY <1>4, IdleShape, <1>1 DEF Attempt, PC
<1>8. /\ rec.pc = "prepare" /\ rec.row = r /\ rec.kind = "retry"
      /\ rec.base = base /\ rec.tally = NoTally
  BY DEF Idle
<1> HIDE DEF rec
<1>9. ShapeOf(h, rec, ledger')
  BY <1>1, <1>2, <1>3, <1>5, <1>7, <1>8 DEF ShapeOf, Holding, Conversing
<1>10. QED
  BY <1>1, <1>2, <1>6, <1>9, ShapeAfterPut DEF ShapeInv

\* A retry works out who is missing.
LEMMA PrepareRetryShape ==
    ASSUME ShapeInv, NEW h \in Handler, PrepareRetry(h) PROVE ShapeInv'
<1> DEFINE missing == run[h].base.failed \cap to
           rec == [run[h] EXCEPT !.pc = "smtp", !.todo = missing]
<1>1. h \in Actor /\ ShapeOf(h, run[h], ledger) /\ run[h] \in Attempt
      /\ run[h].pc = "prepare"
  BY DEF ShapeInv, Shape, ShapeOf, Actor, PrepareRetry, At
<1>2. OthersOK' /\ ledger' = ledger /\ RowsStay(ledger, ledger')
  BY DEF ShapeInv, PrepareRetry, OthersOK, leaseVars, LeaseTypeOK, RowsStay
<1>3. CASE Put(h, Ended(h))
  BY <1>1, <1>2, <1>3, EndShape
<1>4. CASE Put(h, rec)
  <2>1. missing \in SUBSET Address
    BY DEF ShapeInv, OthersOK
  <2> HIDE DEF missing
  <2>2. rec \in Attempt
    BY <1>1, <2>1 DEF Attempt, PC
  <2>3. /\ rec.pc = "smtp" /\ rec.row = run[h].row /\ rec.kind = run[h].kind
    BY <1>1 DEF Attempt
  <2> HIDE DEF rec
  <2>4. run[h].kind = "retry" /\ run[h].row # None /\ ledger[run[h].row] # None
    BY <1>1 DEF ShapeOf
  <2>5. ShapeOf(h, rec, ledger')
    BY <1>2, <2>2, <2>3, <2>4, Actors DEF ShapeOf, Holding, Conversing
  <2>6. QED
    BY <1>1, <1>2, <1>4, <2>5, ShapeAfterPut DEF ShapeInv
<1>5. QED
  BY <1>3, <1>4 DEF PrepareRetry

\* A retry that misses nobody closes the issue.
LEMMA RepairShape ==
    ASSUME ShapeInv, NEW h \in Handler, Repair(h) PROVE ShapeInv'
<1> DEFINE issue == [status |-> "sent", sent |-> run[h].base.sent, failed |-> {}]
<1>1. h \in Actor /\ ShapeOf(h, run[h], ledger) /\ run[h] \in Attempt
      /\ run[h].pc = "prepare"
  BY DEF ShapeInv, Shape, ShapeOf, Actor, Repair, At
<1>2. run[h].base \in Issue \cup Tally /\ run[h].row \in RowId
  BY <1>1 DEF ShapeOf, Attempt
<1>3. issue \in Issue
  BY <1>2 DEF Issue, Tally
<1>4. ledger' = [ledger EXCEPT ![run[h].row] = issue]
  BY DEF Repair
<1> HIDE DEF issue
<1>5. ledger' \in [RowId -> Issue \cup {None}] /\ RowsStay(ledger, ledger')
  BY <1>2, <1>3, <1>4, RowWritten DEF ShapeInv
<1>6. OthersOK'
  BY <1>5 DEF ShapeInv, Repair, OthersOK, leaseVars, LeaseTypeOK
<1>7. QED
  BY <1>1, <1>5, <1>6, EndShape DEF Repair

\* The relay takes the mail for one address.
LEMMA DeliverShape ==
    ASSUME ShapeInv, NEW a \in Actor, Deliver(a) PROVE ShapeInv'
<1>1. PICK r \in run[a].todo :
        /\ Put(a, [run[a] EXCEPT !.todo = @ \ {r}, !.tally.sent = @ \cup {r}])
        /\ reached' = reached \cup {<<run[a].row, r>>}
  BY DEF Deliver
<1> DEFINE rec == [run[a] EXCEPT !.todo = @ \ {r}, !.tally.sent = @ \cup {r}]
<1>2. ShapeOf(a, run[a], ledger) /\ run[a] \in Attempt /\ run[a].pc = "smtp"
  BY DEF ShapeInv, Shape, ShapeOf, Deliver, At
<1>3. r \in Address /\ run[a].row \in RowId
  BY <1>2 DEF ShapeOf, Conversing, Attempt
<1>4. OthersOK' /\ ledger' = ledger /\ RowsStay(ledger, ledger')
  BY <1>1, <1>3
  DEF ShapeInv, Deliver, OthersOK, leaseVars, LeaseTypeOK, RowsStay
<1>5. rec \in Attempt
  BY <1>2, <1>3 DEF Attempt, Tally
<1>6. \A f \in {"pc", "kind", "scope", "owner", "row", "base"} :
         rec[f] = run[a][f]
  BY <1>2 DEF Attempt
<1> HIDE DEF rec
<1>7. ShapeOf(a, rec, ledger')
  BY <1>2, <1>4, <1>5, <1>6 DEF ShapeOf, Holding, Conversing
<1>8. Put(a, rec)
  BY <1>1 DEF rec
<1>9. QED
  BY <1>4, <1>7, <1>8, ShapeAfterPut DEF ShapeInv

\* The relay refuses an address, or goes away.
LEMMA RefuseShape ==
    ASSUME ShapeInv, NEW a \in Actor, Refuse(a) PROVE ShapeInv'
<1>0. PICK r \in run[a].todo : \E F \in FailedWith(a, r) :
        Put(a, [run[a] EXCEPT !.todo = @ \ F, !.tally.failed = @ \cup F])
  BY DEF Refuse
<1>1. PICK F \in FailedWith(a, r) :
        Put(a, [run[a] EXCEPT !.todo = @ \ F, !.tally.failed = @ \cup F])
  BY <1>0
<1> DEFINE rec == [run[a] EXCEPT !.todo = @ \ F, !.tally.failed = @ \cup F]
<1>2. ShapeOf(a, run[a], ledger) /\ run[a] \in Attempt /\ run[a].pc = "smtp"
  BY DEF ShapeInv, Shape, ShapeOf, Refuse, At
<1>3. faults' \in 0..MaxFaults
  BY BoundsAreNatural DEF ShapeInv, OthersOK, Refuse
<1>4. OthersOK' /\ ledger' = ledger /\ RowsStay(ledger, ledger')
  BY <1>3 DEF ShapeInv, Refuse, OthersOK, leaseVars, LeaseTypeOK, RowsStay
<1>5. rec \in Attempt
  <2>1. F \in SUBSET Address
    BY <1>2 DEF FailedWith, Attempt
  <2>2. QED
    BY <1>2, <2>1 DEF Attempt, Tally
<1>6. \A f \in {"pc", "kind", "scope", "owner", "row", "base"} :
         rec[f] = run[a][f]
  BY <1>2 DEF Attempt
<1> HIDE DEF rec
<1>7. ShapeOf(a, rec, ledger')
  BY <1>2, <1>4, <1>5, <1>6 DEF ShapeOf, Holding, Conversing
<1>8. Put(a, rec)
  BY <1>1 DEF rec
<1>9. QED
  BY <1>4, <1>7, <1>8, ShapeAfterPut DEF ShapeInv

\* The issue is read again before it is written.
LEMMA FindShape ==
    ASSUME ShapeInv, NEW a \in Actor, Find(a) PROVE ShapeInv'
<1> DEFINE base == IF run[a].kind = "now" THEN None ELSE ledger[run[a].row]
           rec == [run[a] EXCEPT !.pc = "write", !.base = base]
<1>1. ShapeOf(a, run[a], ledger) /\ run[a] \in Attempt /\ run[a].pc = "smtp"
  BY DEF ShapeInv, Shape, ShapeOf, Find, At
<1>2. OthersOK' /\ ledger' = ledger /\ RowsStay(ledger, ledger')
  BY DEF ShapeInv, Find, OthersOK, leaseVars, LeaseTypeOK, RowsStay
<1>3. run[a].row \in RowId /\ base \in Issue \cup {None}
  BY <1>1 DEF ShapeOf, Conversing, Attempt, ShapeInv, OthersOK
<1>4. run[a].kind = "retry" => base # None
  BY <1>1 DEF ShapeOf
<1>5. Put(a, rec)
  BY DEF Find
<1> HIDE DEF base
<1>6. rec \in Attempt
  BY <1>1, <1>3 DEF Attempt, PC
<1>7. /\ rec.pc = "write" /\ rec.base = base
      /\ \A f \in {"kind", "scope", "owner", "row", "tally"} :
            rec[f] = run[a][f]
  BY <1>1 DEF Attempt
<1> HIDE DEF rec
<1>8. ShapeOf(a, rec, ledger')
  BY <1>1, <1>2, <1>4, <1>6, <1>7 DEF ShapeOf, Holding, Conversing
<1>9. QED
  BY <1>2, <1>5, <1>8, ShapeAfterPut DEF ShapeInv

\* The outcome is written into the ledger, or the insert is refused.
LEMMA WriteShape ==
    ASSUME ShapeInv, NEW a \in Actor, Write(a) PROVE ShapeInv'
<1> DEFINE rec == [run[a] EXCEPT !.pc = "mark", !.base = None]
           issue == [status |-> Status(a), sent |-> Entries(a).sent,
                     failed |-> Entries(a).failed]
<1>1. ShapeOf(a, run[a], ledger) /\ run[a] \in Attempt /\ run[a].pc = "write"
  BY DEF ShapeInv, Shape, ShapeOf, Write, At
<1>2. run[a].row \in RowId
  BY <1>1 DEF ShapeOf, Conversing, Attempt
<1>3. CASE Put(a, Ended(a)) /\ UNCHANGED ledger
  <2>1. OthersOK' /\ RowsStay(ledger, ledger')
    BY <1>3 DEF ShapeInv, Write, OthersOK, leaseVars, LeaseTypeOK, RowsStay
  <2>2. QED
    BY <1>1, <1>3, <2>1, EndShape
<1>4. CASE Put(a, rec) /\ ledger' = [ledger EXCEPT ![run[a].row] = issue]
  <2>1. Entries(a) \in Tally
    <3>1. run[a].tally \in Tally
      BY <1>1 DEF Attempt
    <3>2. run[a].kind = "retry" => run[a].base \in Issue \cup Tally
      BY <1>1 DEF ShapeOf, Attempt
    <3>3. ASSUME run[a].kind = "retry"
          PROVE  Merge(run[a].base, run[a].tally) \in Tally
      BY <3>1, <3>2, <3>3 DEF Merge, Issue, Tally
    <3>4. QED
      BY <3>1, <3>3 DEF Entries
  <2>2. Status(a) \in {"sent", "failed"}
    BY DEF Status
  <2>3. issue \in Issue
    BY <2>1, <2>2 DEF Issue, Tally
  <2> HIDE DEF issue
  <2>4. ledger' \in [RowId -> Issue \cup {None}] /\ RowsStay(ledger, ledger')
    BY <1>2, <1>4, <2>3, RowWritten DEF ShapeInv
  <2>5. OthersOK'
    BY <2>4 DEF ShapeInv, Write, OthersOK, leaseVars, LeaseTypeOK
  <2>6. rec \in Attempt
    BY <1>1 DEF Attempt, PC
  <2>7. /\ rec.pc = "mark"
        /\ \A f \in {"kind", "scope", "owner", "row", "tally"} :
              rec[f] = run[a][f]
    BY <1>1 DEF Attempt
  <2> HIDE DEF rec
  <2>8. ShapeOf(a, rec, ledger)
    BY <1>1, <2>6, <2>7 DEF ShapeOf, Holding, Conversing
  <2>9. QED
    BY <1>4, <2>4, <2>5, <2>8, ShapeGrows, ShapeAfterPut DEF ShapeInv
<1>5. QED
  BY <1>3, <1>4 DEF Write

\* The settings are marked.
LEMMA MarkShape ==
    ASSUME ShapeInv, NEW a \in Actor, Mark(a) PROVE ShapeInv'
<1>1. run[a].pc = "mark" /\ Put(a, Ended(a))
  BY DEF Mark, At
<1>2. lastSent' \in Scope \cup {None}
  BY HourTyped DEF ShapeInv, OthersOK, Mark
<1>3. OthersOK' /\ RowsStay(ledger, ledger')
  BY <1>2 DEF ShapeInv, Mark, OthersOK, leaseVars, LeaseTypeOK, RowsStay
<1>4. QED
  BY <1>1, <1>3, EndShape

\* A process dies.
LEMMA CrashShape ==
    ASSUME ShapeInv, NEW a \in Actor, Crash(a) PROVE ShapeInv'
<1>1. faults' \in 0..MaxFaults
  BY BoundsAreNatural DEF ShapeInv, OthersOK, Crash
<1>2. OthersOK' /\ RowsStay(ledger, ledger')
  BY <1>1 DEF ShapeInv, Crash, OthersOK, leaseVars, LeaseTypeOK, RowsStay
<1>3. QED
  BY <1>2, IdleShape, ShapeAfterPut DEF ShapeInv, Crash

\* The settings are edited.
LEMMA EditShape == ASSUME ShapeInv, EditRecipients PROVE ShapeInv'
<1>1. faults' \in 0..MaxFaults
  BY BoundsAreNatural DEF ShapeInv, OthersOK, EditRecipients
<1>2. to' \in SUBSET Address /\ edited' \in SUBSET Address
  BY DEF ShapeInv, OthersOK, EditRecipients
<1>3. OthersOK' /\ UNCHANGED <<run, ledger>>
  BY <1>1, <1>2 DEF ShapeInv, EditRecipients, OthersOK, leaseVars, LeaseTypeOK
<1>4. QED
  BY <1>3 DEF ShapeInv, Shape

\* Time passes.
LEMMA ClockShape == ASSUME ShapeInv, Clock PROVE ShapeInv'
<1>1. now' \in 0..LastUnit /\ now' \in Nat
  BY HoursAreScopes DEF ShapeInv, OthersOK, Clock, Advance
<1>2. OthersOK' /\ UNCHANGED <<run, ledger>>
  BY <1>1 DEF ShapeInv, Clock, OthersOK, digestVars, LeaseTypeOK
<1>3. QED
  BY <1>2 DEF ShapeInv, Shape

\* Every step of the system preserves ShapeInv.
LEMMA ShapeStep == ASSUME ShapeInv, [Next]_vars PROVE ShapeInv'
<1>1. CASE UNCHANGED vars
  BY <1>1
  DEF ShapeInv, Shape, vars, digestVars, leaseVars, OthersOK, LeaseTypeOK
<1>2. ASSUME NEW p \in Scheduler, SchedulerStep(p) PROVE ShapeInv'
  BY <1>2, CheckShape, TakeLeaseShape, PrepareScheduledShape, GiveBackShape
  DEF SchedulerStep
<1>3. ASSUME NEW h \in Handler, HandlerStep(h) PROVE ShapeInv'
  BY <1>3, SendNowShape, ReadIssueShape, PrepareRetryShape, RepairShape
  DEF HandlerStep
<1>4. ASSUME NEW a \in Actor, AttemptStep(a) \/ Crash(a) PROVE ShapeInv'
  BY <1>4, DeliverShape, RefuseShape, FindShape, WriteShape, MarkShape,
     CrashShape
  DEF AttemptStep
<1>5. QED
  BY <1>1, <1>2, <1>3, <1>4, EditShape, ClockShape DEF Next

\* What an actor carries is well formed, always.
THEOREM ShapeAlways == Spec => []ShapeInv
<1>1. Init => ShapeInv
  BY InitShape
<1>2. ShapeInv /\ [Next]_vars => ShapeInv'
  BY ShapeStep
<1>3. QED
  BY <1>1, <1>2, PTL DEF Spec

(* Every variable of the digest keeps its type, and a scheduler at work    *)
(* always knows its lease and its window (mail_digest.py:402-441).         *)
THEOREM TypeCorrect == Spec => []TypeOK
<1>1. ShapeInv => TypeOK
  <2> SUFFICES ASSUME ShapeInv PROVE TypeOK
    OBVIOUS
  <2>1. \A p \in Scheduler : ShapeOf(p, run[p], ledger)
    BY DEF ShapeInv, Shape, Actor
  <2>2. QED
    BY <2>1 DEF ShapeInv, OthersOK, TypeOK, ShapeOf
<1>2. QED
  BY <1>1, ShapeAlways, PTL

-----------------------------------------------------------------------------
(* The lease argument.  An owner token belongs to one scheduler, and a     *)
(* scheduler whose lease lives finds its own row in the table; a window is *)
(* therefore taken only when nobody is protected there.                    *)

TokensDistinct ==
    \A p, q \in Scheduler :
        p # q /\ run[p].owner # None => run[p].owner # run[q].owner

Backed ==
    \A p \in Scheduler : Protected(p) =>
        lease[run[p].scope] = [owner |-> run[p].owner, until |-> run[p].until]

LeaseInv == ShapeInv /\ TokensDistinct /\ Backed

\* Record s comes after record r without a new lease.
Heir(r, s) ==
    /\ s.owner \in {r.owner, None}
    /\ s.pc \in Holding =>
          /\ r.pc \in Holding
          /\ s.owner = r.owner /\ s.scope = r.scope /\ s.until = r.until

\* No scheduler is newly protected.
Narrow ==
    \A q \in Scheduler :
        Protected(q)' => Protected(q) /\ run'[q].scope = run[q].scope

\* Scheduler p is newly protected, where nobody was.
Grown(p) ==
    /\ now' = now
    /\ \A q \in Scheduler : q # p => run'[q] = run[q]
    /\ \A q \in Scheduler : Protected(q) => run[q].scope # run'[p].scope
    /\ Protected(p)' /\ ~Protected(p)
    /\ run'[p].scope \in Scope

\* A step that leaves the table alone and hands no lease out.
LEMMA QuietStep ==
    ASSUME LeaseInv, ShapeInv', UNCHANGED lease, now' \in Nat, now' >= now,
           \A q \in Scheduler : Heir(run[q], run'[q])
    PROVE  LeaseInv' /\ Narrow
<1>1. ASSUME NEW q \in Scheduler, Protected(q)'
      PROVE  /\ Protected(q)
             /\ run'[q].scope = run[q].scope
             /\ run'[q].owner = run[q].owner
             /\ run'[q].until = run[q].until
  <2>1. run[q].until \in Nat /\ now \in Nat
    BY DEF LeaseInv, ShapeInv, OthersOK, LeaseTypeOK, Attempt, Actor
  <2>2. QED
    BY <1>1, <2>1 DEF Protected, Heir
<1>2. TokensDistinct'
  BY DEF LeaseInv, TokensDistinct, Heir
<1>3. Backed'
  BY <1>1 DEF LeaseInv, Backed
<1>4. QED
  BY <1>1, <1>2, <1>3 DEF LeaseInv, Narrow

\* One actor takes a record that inherits its lease, or is no scheduler.
LEMMA QuietPut ==
    ASSUME LeaseInv, ShapeInv', UNCHANGED leaseVars, NEW a \in Actor, NEW rec,
           Put(a, rec), a \in Scheduler => Heir(run[a], rec)
    PROVE  LeaseInv' /\ Narrow
<1>1. /\ run'[a] = rec
      /\ \A b \in Actor : b # a => run'[b] = run[b]
  BY DEF LeaseInv, ShapeInv, Put
<1>2. \A q \in Scheduler : Heir(run[q], run'[q])
  BY <1>1 DEF Heir, Actor
<1>3. now' = now /\ now \in Nat /\ UNCHANGED lease
  BY DEF leaseVars, LeaseInv, ShapeInv, OthersOK, LeaseTypeOK
<1>4. QED
  BY <1>2, <1>3, QuietStep

\* An attempt that ends keeps its lease until it gives it back.
LEMMA EndedHeir ==
    ASSUME NEW a \in Scheduler, run[a].pc \in Holding
    PROVE  Heir(run[a], Ended(a))
BY DEF Heir, Ended, Idle, Holding

\* An idle scheduler has no lease.
LEMMA IdleHeir == ASSUME NEW r PROVE Heir(r, Idle)
BY DEF Heir, Idle, Holding

\* The steps of an attempt, the routes, the check and a crash are quiet.
LEMMA QuietActions ==
    ASSUME LeaseInv, ShapeInv', NEW a \in Actor,
           \/ a \in Scheduler /\ (Check(a) \/ PrepareScheduled(a))
           \/ a \in Handler /\ HandlerStep(a)
           \/ AttemptStep(a) \/ Crash(a)
    PROVE  LeaseInv' /\ Narrow
<1>1. UNCHANGED leaseVars
  BY DEF Check, PrepareScheduled, HandlerStep, SendNow, ReadIssue, PrepareRetry,
     Repair, AttemptStep, Deliver, Refuse, Find, Write, Mark, Crash
<1>2. run[a] \in Attempt
  BY DEF LeaseInv, ShapeInv
<1>3. CASE a \in Handler /\ HandlerStep(a)
  <2>1. a \notin Scheduler
    BY <1>3, Actors
  <2>2. PICK rec : Put(a, rec)
    BY <1>3 DEF HandlerStep, SendNow, ReadIssue, PrepareRetry, Repair
  <2>3. QED
    BY <1>1, <2>1, <2>2, QuietPut
<1>4. CASE a \in Scheduler /\ Check(a)
  <2> DEFINE rec == [Idle EXCEPT !.pc = "acquire", !.scope = Hour[now]]
  <2>1. Put(a, rec)
    BY <1>4 DEF Check
  <2>2. Heir(run[a], rec)
    BY DEF Heir, Idle, Holding
  <2> HIDE DEF rec
  <2>3. QED
    BY <1>1, <2>1, <2>2, QuietPut
<1>5. CASE a \in Scheduler /\ PrepareScheduled(a)
  <2>1. run[a].pc \in Holding
    BY <1>5 DEF PrepareScheduled, At, Holding
  <2>2. CASE Put(a, Ended(a))
    BY <1>1, <1>5, <2>1, <2>2, EndedHeir, QuietPut
  <2>3. CASE Put(a, [run[a] EXCEPT !.pc = "smtp", !.row = Hour[now],
                                   !.todo = to])
    <3> DEFINE rec == [run[a] EXCEPT !.pc = "smtp", !.row = Hour[now],
                                     !.todo = to]
    <3>1. Heir(run[a], rec)
      BY <1>2, <2>1 DEF Heir, Attempt
    <3>2. Put(a, rec)
      BY <2>3
    <3> HIDE DEF rec
    <3>3. QED
      BY <1>1, <3>1, <3>2, QuietPut
  <2>4. QED
    BY <1>5, <2>2, <2>3 DEF PrepareScheduled
<1>6. CASE Deliver(a)
  <2>1. PICK r : Put(a, [run[a] EXCEPT !.todo = @ \ {r},
                                       !.tally.sent = @ \cup {r}])
    BY <1>6 DEF Deliver
  <2> DEFINE rec == [run[a] EXCEPT !.todo = @ \ {r},
                                   !.tally.sent = @ \cup {r}]
  <2>2. Heir(run[a], rec)
    BY <1>2, <1>6 DEF Heir, Attempt, Deliver, At, Holding
  <2>3. Put(a, rec)
    BY <2>1
  <2> HIDE DEF rec
  <2>4. QED
    BY <1>1, <2>2, <2>3, QuietPut
<1>7. CASE Refuse(a)
  <2>1. PICK F : Put(a, [run[a] EXCEPT !.todo = @ \ F,
                                       !.tally.failed = @ \cup F])
    BY <1>7 DEF Refuse
  <2> DEFINE rec == [run[a] EXCEPT !.todo = @ \ F,
                                   !.tally.failed = @ \cup F]
  <2>2. Heir(run[a], rec)
    BY <1>2, <1>7 DEF Heir, Attempt, Refuse, At, Holding
  <2>3. Put(a, rec)
    BY <2>1
  <2> HIDE DEF rec
  <2>4. QED
    BY <1>1, <2>2, <2>3, QuietPut
<1>8. CASE Find(a)
  <2>1. PICK b : Put(a, [run[a] EXCEPT !.pc = "write", !.base = b])
    BY <1>8 DEF Find
  <2> DEFINE rec == [run[a] EXCEPT !.pc = "write", !.base = b]
  <2>2. Heir(run[a], rec)
    BY <1>2, <1>8 DEF Heir, Attempt, Find, At, Holding
  <2>3. Put(a, rec)
    BY <2>1
  <2> HIDE DEF rec
  <2>4. QED
    BY <1>1, <2>2, <2>3, QuietPut
<1>9. CASE Write(a) \/ Mark(a)
  <2>1. run[a].pc \in Holding
    BY <1>9 DEF Write, Mark, At, Holding
  <2>2. CASE Put(a, Ended(a))
    BY <1>1, <2>1, <2>2, EndedHeir, QuietPut
  <2>3. CASE Put(a, [run[a] EXCEPT !.pc = "mark", !.base = None])
    <3> DEFINE rec == [run[a] EXCEPT !.pc = "mark", !.base = None]
    <3>1. Heir(run[a], rec)
      BY <1>2, <2>1 DEF Heir, Attempt
    <3>2. Put(a, rec)
      BY <2>3
    <3> HIDE DEF rec
    <3>3. QED
      BY <1>1, <3>1, <3>2, QuietPut
  <2>4. QED
    BY <1>9, <2>2, <2>3 DEF Write, Mark
<1>10. CASE Crash(a)
  BY <1>1, <1>10, IdleHeir, QuietPut DEF Crash
<1>11. QED
  BY <1>3, <1>4, <1>5, <1>6, <1>7, <1>8, <1>9, <1>10 DEF AttemptStep

\* A protected scheduler's row outlives the sweep of every acquire.
LEMMA SweptKeeps ==
    ASSUME LeaseInv, NEW q \in Scheduler, Protected(q)
    PROVE  /\ run[q].scope \in Scope /\ run[q].owner \in Owner
           /\ Swept[run[q].scope] =
                 [owner |-> run[q].owner, until |-> run[q].until]
           /\ run[q].owner \in Seen
<1>1. ShapeOf(q, run[q], ledger)
  BY DEF LeaseInv, ShapeInv, Shape, Actor
<1>2. run[q].scope \in Scope /\ run[q].owner \in Owner /\ run[q].until \in Nat
  BY <1>1 DEF ShapeOf, Attempt, Protected, Holding
<1>3. lease[run[q].scope] = [owner |-> run[q].owner, until |-> run[q].until]
  BY DEF LeaseInv, Backed
<1>4. ~Expired(lease[run[q].scope])
  BY <1>2, <1>3 DEF Protected, Expired, LeaseInv, ShapeInv, OthersOK, LeaseTypeOK
<1>5. QED
  BY <1>2, <1>3, <1>4 DEF Swept, Seen

\* Asking for a lease: granted where nobody is protected, or refused.
LEMMA TakeLeaseStep ==
    ASSUME LeaseInv, ShapeInv', NEW p \in Scheduler, TakeLease(p)
    PROVE  LeaseInv' /\ (Narrow \/ Grown(p))
<1>1. PICK o \in Owner \ Seen :
         \/ /\ Acquire(o, run[p].scope)
            /\ Put(p, [run[p] EXCEPT !.pc = "prepare", !.kind = "scheduled",
                                     !.owner = o, !.until = now + TTL])
         \/ /\ Refused(o, run[p].scope)
            /\ Put(p, Idle)
  BY DEF TakeLease
<1>2. /\ p \in Actor /\ run[p] \in Attempt /\ run[p].pc = "acquire"
      /\ run[p].scope \in Scope /\ now' = now /\ now \in Nat
      /\ \A q \in Scheduler : q \in Actor /\ run[q] \in Attempt
      /\ run \in [Actor -> Attempt]
  <2>1. p \in Actor /\ ShapeOf(p, run[p], ledger) /\ run[p].pc = "acquire"
    BY DEF LeaseInv, ShapeInv, Shape, Actor, TakeLease, At
  <2>2. QED
    BY <2>1
    DEF LeaseInv, ShapeInv, ShapeOf, Attempt, Actor, TakeLease, OthersOK,
        LeaseTypeOK
<1>3. \A q \in Scheduler : Protected(q) =>
          q # p /\ run[q].scope \in Scope /\ run[q].owner # o
  BY <1>1, <1>2, SweptKeeps DEF Protected, Holding
<1>4. CASE Refused(o, run[p].scope) /\ Put(p, Idle)
  <2>1. run'[p] = Idle /\ \A q \in Scheduler : q # p => run'[q] = run[q]
    BY <1>2, <1>4 DEF Put
  <2>2. \A q \in Scheduler : Protected(q)' => q # p /\ Protected(q)
    BY <1>2, <2>1 DEF Protected, Idle, Holding
  <2>3. TokensDistinct'
    BY <2>1 DEF LeaseInv, TokensDistinct, Idle
  <2>4. Backed'
    BY <1>4, <2>1, <2>2, SweptKeeps DEF Backed, Refused
  <2>5. QED
    BY <2>1, <2>2, <2>3, <2>4 DEF LeaseInv, Narrow
<1>5. CASE /\ Acquire(o, run[p].scope)
           /\ Put(p, [run[p] EXCEPT !.pc = "prepare", !.kind = "scheduled",
                                    !.owner = o, !.until = now + TTL])
  <2>1. \A q \in Scheduler : q # p => run'[q] = run[q]
    BY <1>2, <1>5 DEF Put
  <2>2. /\ run'[p].pc = "prepare" /\ run'[p].owner = o
        /\ run'[p].until = now + TTL /\ run'[p].scope = run[p].scope
    BY <1>2, <1>5 DEF Put, Attempt
  <2>3. \A q \in Scheduler : Protected(q) => run[q].scope # run[p].scope
    <3>1. Swept[run[p].scope] # None => Swept[run[p].scope].owner = o
      BY <1>5 DEF Acquire, MayTake
    <3>2. ASSUME NEW q \in Scheduler, Protected(q),
                 run[q].scope = run[p].scope
          PROVE  FALSE
      <4>1. Swept[run[p].scope] =
              [owner |-> run[q].owner, until |-> run[q].until]
        BY <3>2, SweptKeeps
      <4>2. /\ run[q].owner \in Owner
            /\ [owner |-> run[q].owner, until |-> run[q].until]
                 \in [owner : Owner, until : Nat]
        BY <1>2, <3>2, SweptKeeps DEF Attempt
      <4>3. Swept[run[p].scope] # None
        BY <4>1, <4>2, NobodyIsNoOwner
      <4>4. QED
        BY <1>3, <3>1, <3>2, <4>1, <4>3
    <3>3. QED
      BY <3>2
  <2>4. Protected(p)' /\ ~Protected(p)
    BY <1>2, <2>2, LeasesLive DEF Protected, Holding
  <2>5. \A q \in Scheduler : q # p => (Protected(q)' <=> Protected(q))
    BY <1>2, <2>1 DEF Protected
  <2>6. TokensDistinct'
    <3>1. \A q \in Scheduler : run[q].owner # o
      BY <1>1 DEF Seen
    <3>2. QED
      BY <2>1, <2>2, <3>1 DEF LeaseInv, TokensDistinct
  <2>7. Backed'
    <3>1. lease' = [Swept EXCEPT ![run[p].scope] =
                       [owner |-> o, until |-> now + TTL]]
      BY <1>5 DEF Acquire
    <3>2. ASSUME NEW q \in Scheduler, Protected(q)'
          PROVE  lease'[run'[q].scope] =
                   [owner |-> run'[q].owner, until |-> run'[q].until]
      <4>1. CASE q = p
        BY <1>2, <2>2, <3>1, <4>1 DEF Swept
      <4>2. CASE q # p
        BY <1>3, <2>1, <2>3, <2>5, <3>1, <3>2, <4>2, SweptKeeps
      <4>3. QED
        BY <4>1, <4>2
    <3>3. QED
      BY <3>2 DEF Backed
  <2>8. QED
    BY <1>2, <2>1, <2>2, <2>3, <2>4, <2>6, <2>7 DEF LeaseInv, Grown
<1>6. QED
  BY <1>1, <1>4, <1>5

\* Giving back removes no row but one's own.
LEMMA GiveBackStep ==
    ASSUME LeaseInv, ShapeInv', NEW p \in Scheduler, GiveBackLease(p)
    PROVE  LeaseInv' /\ Narrow
<1>1. /\ p \in Actor /\ run[p].pc = "release" /\ run[p].owner # None
      /\ now' = now /\ run \in [Actor -> Attempt]
  <2>1. p \in Actor /\ ShapeOf(p, run[p], ledger) /\ run[p].pc = "release"
    BY DEF LeaseInv, ShapeInv, Shape, Actor, GiveBackLease, At
  <2>2. QED
    BY <2>1 DEF ShapeOf, Holding, GiveBackLease, LeaseInv, ShapeInv
<1>2. run'[p] = Idle /\ \A q \in Scheduler : q # p => run'[q] = run[q]
  BY <1>1 DEF GiveBackLease, Put, Actor
<1>3. \A q \in Scheduler : Protected(q)' => q # p /\ Protected(q)
  BY <1>1, <1>2 DEF Protected, Idle, Holding
<1>4. TokensDistinct'
  BY <1>2 DEF LeaseInv, TokensDistinct, Idle
<1>5. Backed'
  <2>1. ASSUME NEW q \in Scheduler, Protected(q)'
        PROVE  lease'[run'[q].scope] =
                 [owner |-> run'[q].owner, until |-> run'[q].until]
    <3>1. q # p /\ Protected(q) /\ run'[q] = run[q]
      BY <1>2, <1>3, <2>1
    <3>2. lease[run[q].scope] =
            [owner |-> run[q].owner, until |-> run[q].until]
      BY <3>1 DEF LeaseInv, Backed
    <3>3. lease[run[q].scope].owner # run[p].owner
      BY <1>1, <3>1, <3>2 DEF LeaseInv, TokensDistinct
    <3>4. run[q].scope \in Scope /\ lease \in [Scope -> LeaseRow \cup {None}]
      BY <3>1, SweptKeeps DEF LeaseInv, ShapeInv, OthersOK, LeaseTypeOK
    <3>5. lease'[run[q].scope] = lease[run[q].scope]
      BY <3>3, <3>4 DEF GiveBackLease, Release
    <3>6. QED
      BY <3>1, <3>2, <3>5
  <2>2. QED
    BY <2>1 DEF Backed
<1>6. QED
  BY <1>2, <1>3, <1>4, <1>5 DEF LeaseInv, Narrow

\* Every step keeps LeaseInv, and claims at most one window that was free.
LEMMA LeaseStep ==
    ASSUME LeaseInv, [Next]_vars
    PROVE  LeaseInv' /\ (Narrow \/ \E p \in Scheduler : Grown(p))
<1>1. ShapeInv'
  BY ShapeStep DEF LeaseInv
<1>2. now \in Nat /\ \A q \in Scheduler : Heir(run[q], run[q])
  BY DEF LeaseInv, ShapeInv, OthersOK, LeaseTypeOK, Heir
<1>3. CASE UNCHANGED vars
  BY <1>1, <1>2, <1>3, QuietStep DEF vars, leaseVars, digestVars
<1>4. CASE EditRecipients
  BY <1>1, <1>2, <1>4, QuietStep DEF EditRecipients, leaseVars
<1>5. CASE Clock
  BY <1>1, <1>2, <1>5, QuietStep DEF Clock, Advance, digestVars
<1>6. ASSUME NEW p \in Scheduler, SchedulerStep(p)
      PROVE  LeaseInv' /\ (Narrow \/ Grown(p))
  BY <1>1, <1>6, QuietActions, TakeLeaseStep, GiveBackStep
  DEF SchedulerStep, Actor
<1>7. ASSUME NEW h \in Handler, HandlerStep(h) PROVE LeaseInv' /\ Narrow
  BY <1>1, <1>7, QuietActions DEF Actor
<1>8. ASSUME NEW a \in Actor, AttemptStep(a) \/ Crash(a)
      PROVE  LeaseInv' /\ Narrow
  BY <1>1, <1>8, QuietActions
<1>9. QED
  BY <1>3, <1>4, <1>5, <1>6, <1>7, <1>8 DEF Next

\* Nobody has a lease at the start.
LEMMA InitLease == Init => LeaseInv /\ Windows!Init
<1> SUFFICES ASSUME Init PROVE LeaseInv /\ Windows!Init
  OBVIOUS
<1>1. \A q \in Scheduler : run[q].owner = None /\ ~Protected(q)
  BY DEF Init, Actor, Idle, Protected, Holding
<1>2. QED
  BY <1>1, InitShape
  DEF LeaseInv, TokensDistinct, Backed, Windows!Init, Claims

\* LeaseInv holds in every state.
THEOREM LeaseAlways == Spec => []LeaseInv
<1>1. Init => LeaseInv
  BY InitLease
<1>2. LeaseInv /\ [Next]_vars => LeaseInv'
  BY LeaseStep
<1>3. QED
  BY <1>1, <1>2, PTL DEF Spec

(* Two schedulers are never both at work on one window while both their    *)
(* leases live, on any number of instances, with any crashes               *)
(* (mail_digest.py:377-382, runtime.py:25-29).                             *)
THEOREM SendersAreExclusive == Spec => []SendersExclusive
<1>1. LeaseInv => SendersExclusive
  <2> SUFFICES ASSUME LeaseInv, NEW p \in Scheduler, NEW q \in Scheduler,
                      p # q, Protected(p), Protected(q),
                      run[p].scope = run[q].scope
               PROVE  FALSE
    BY DEF SendersExclusive
  <2>1. lease[run[p].scope].owner = run[p].owner
    <3>1. lease[run[p].scope] = [owner |-> run[p].owner, until |-> run[p].until]
      BY DEF LeaseInv, Backed
    <3>2. QED
      BY <3>1
  <2>2. lease[run[p].scope].owner = run[q].owner
    <3>1. lease[run[q].scope] = [owner |-> run[q].owner, until |-> run[q].until]
      BY DEF LeaseInv, Backed
    <3>2. QED
      BY <3>1
  <2>3. run[p].owner # None
    <3>1. p \in Actor /\ ShapeOf(p, run[p], ledger)
      BY DEF LeaseInv, ShapeInv, Shape, Actor
    <3>2. QED
      BY <3>1 DEF ShapeOf, Protected
  <2>4. QED
    BY <2>1, <2>2, <2>3 DEF LeaseInv, TokensDistinct
<1>2. QED
  BY <1>1, LeaseAlways, PTL

\* Fewer protected schedulers: claims only end.
LEMMA NarrowEnds == ASSUME Narrow PROVE Windows!End
<1>1. ASSUME NEW c \in Claims' PROVE c \in Claims
  <2>1. PICK p \in Scheduler : Protected(p)' /\ c = <<p, run'[p].scope>>
    BY <1>1 DEF Claims
  <2>2. QED
    BY <2>1 DEF Narrow, Claims
<1>2. QED
  BY <1>1 DEF Windows!End

\* A newly protected scheduler claims a window that nobody claimed.
LEMMA GrownClaims ==
    ASSUME NEW p \in Scheduler, Grown(p)
    PROVE  \E s \in Scope : Windows!Claim(p, s)
<1> DEFINE s == run'[p].scope
<1>1. s \in Scope
  BY DEF Grown
<1>2. \A q \in Scheduler : <<q, s>> \notin Claims
  BY DEF Claims, Grown
<1>3. \A q \in Scheduler : q # p =>
          (Protected(q)' <=> Protected(q)) /\ run'[q].scope = run[q].scope
  BY DEF Grown, Protected
<1>4. Claims' = Claims \cup {<<p, s>>}
  <2>1. ASSUME NEW c \in Claims' PROVE c \in Claims \cup {<<p, s>>}
    <3>1. PICK q \in Scheduler : Protected(q)' /\ c = <<q, run'[q].scope>>
      BY <2>1 DEF Claims
    <3>2. QED
      BY <1>3, <3>1 DEF Claims
  <2>2. ASSUME NEW c \in Claims PROVE c \in Claims'
    <3>1. PICK q \in Scheduler : Protected(q) /\ c = <<q, run[q].scope>>
      BY <2>2 DEF Claims
    <3>2. q # p
      BY <3>1 DEF Grown
    <3>3. QED
      BY <1>3, <3>1, <3>2 DEF Claims
  <2>3. <<p, s>> \in Claims'
    BY DEF Grown, Claims
  <2>4. QED
    BY <2>1, <2>2, <2>3
<1>5. QED
  BY <1>1, <1>2, <1>4 DEF Windows!Claim

(* The schedulers and their lease table implement the exclusive lease:     *)
(* whatever takeovers, late releases, crashes and restarts happen, a tick  *)
(* starts on a window only while nobody is protected there                 *)
(* (runtime.py:25-29, 229-230).                                            *)
THEOREM LeaseRefinement == Spec => WindowsAreExclusive
<1>1. Init => Windows!Init
  BY InitLease
<1>2. LeaseInv /\ [Next]_vars => [Windows!Next]_Claims
  BY LeaseStep, NarrowEnds, GrownClaims DEF Windows!Next
<1>3. QED
  BY <1>1, <1>2, LeaseAlways, PTL DEF Spec, WindowsAreExclusive, Windows!Spec

-----------------------------------------------------------------------------
(* The ledger argument.  SentIsReal is not inductive: a row is written     *)
(* from what the actor booked in its conversation and from the row it read *)
(* before, so these have to be real as well.                               *)

\* What is booked or was read as sent, was reached.
BookedOf(r, R) ==
    /\ \A x \in r.tally.sent : <<r.row, x>> \in R
    /\ r.base # None => \A x \in r.base.sent : <<r.row, x>> \in R

Booked == \A a \in Actor : BookedOf(run[a], reached)

BookInv == ShapeInv /\ Booked /\ SentIsReal

\* The records of an idle actor and of an attempt that ended have nothing
\* booked.
LEMMA NothingBooked ==
    ASSUME NEW a, NEW R
    PROVE  BookedOf(Idle, R) /\ BookedOf(Ended(a), R)
<1>1. /\ Idle.tally.sent = {} /\ Idle.base = None
      /\ Ended(a).tally.sent = {} /\ Ended(a).base = None
  BY DEF Idle, Ended, NoTally
<1>2. QED
  BY <1>1 DEF BookedOf

\* One actor takes a record whose bookings are real, and nothing is unsent.
LEMMA BookedAfterPut ==
    ASSUME Booked, run \in [Actor -> Attempt], NEW a \in Actor, NEW rec,
           Put(a, rec), BookedOf(rec, reached'), reached \subseteq reached'
    PROVE  Booked'
<1>1. /\ run'[a] = rec
      /\ \A b \in Actor : b # a => run'[b] = run[b]
  BY DEF Put
<1>2. ASSUME NEW b \in Actor PROVE BookedOf(run'[b], reached')
  BY <1>1 DEF Booked, BookedOf
<1>3. QED
  BY <1>2 DEF Booked

\* A step after which the ledger is the same and only records that inherit
\* the row, the tally and the base of their actor, or none, have come.
LEMMA BookedSame ==
    ASSUME BookInv, ShapeInv', NEW a \in Actor, NEW rec, Put(a, rec),
           UNCHANGED ledger, reached \subseteq reached',
           BookedOf(rec, reached')
    PROVE  BookInv'
<1>1. Booked'
  BY BookedAfterPut DEF BookInv, ShapeInv
<1>2. SentIsReal'
  BY DEF BookInv, SentIsReal
<1>3. QED
  BY <1>1, <1>2 DEF BookInv

\* The scheduler's own steps book nothing.
LEMMA SchedulerBooks ==
    ASSUME BookInv, ShapeInv', NEW p \in Scheduler, SchedulerStep(p)
    PROVE  BookInv'
<1>1. UNCHANGED <<ledger, reached>>
  BY DEF SchedulerStep, Check, TakeLease, PrepareScheduled, GiveBackLease
<1>2. p \in Actor /\ run[p] \in Attempt /\ BookedOf(run[p], reached)
      /\ ShapeOf(p, run[p], ledger)
  BY DEF BookInv, Booked, ShapeInv, Shape, Actor
<1>3. CASE Check(p)
  <2> DEFINE rec == [Idle EXCEPT !.pc = "acquire", !.scope = Hour[now]]
  <2>1. rec.tally = NoTally /\ rec.base = None
    BY DEF Idle
  <2>2. Put(p, rec)
    BY <1>3 DEF Check
  <2> HIDE DEF rec
  <2>3. BookedOf(rec, reached')
    BY <2>1 DEF BookedOf, NoTally
  <2>4. QED
    BY <1>1, <1>2, <2>2, <2>3, BookedSame
<1>4. CASE TakeLease(p)
  <2>1. PICK o \in Owner :
          \/ Put(p, [run[p] EXCEPT !.pc = "prepare", !.kind = "scheduled",
                                   !.owner = o, !.until = now + TTL])
          \/ Put(p, Idle)
    BY <1>4 DEF TakeLease
  <2> DEFINE rec == [run[p] EXCEPT !.pc = "prepare", !.kind = "scheduled",
                                   !.owner = o, !.until = now + TTL]
  <2>2. /\ rec.row = run[p].row /\ rec.tally = run[p].tally
        /\ rec.base = run[p].base
    BY <1>2 DEF Attempt
  <2>3. Put(p, rec) \/ Put(p, Idle)
    BY <2>1
  <2> HIDE DEF rec
  <2>4. BookedOf(rec, reached')
    BY <1>1, <1>2, <2>2 DEF BookedOf
  <2>5. QED
    BY <1>1, <1>2, <2>3, <2>4, BookedSame, NothingBooked
<1>5. CASE PrepareScheduled(p)
  <2> DEFINE rec == [run[p] EXCEPT !.pc = "smtp", !.row = Hour[now],
                                   !.todo = to]
  <2>1. run[p].tally = NoTally /\ run[p].base = None
    BY <1>2, <1>5 DEF ShapeOf, PrepareScheduled, At, Conversing
  <2>2. rec.tally = run[p].tally /\ rec.base = run[p].base
    BY <1>2 DEF Attempt
  <2>3. Put(p, rec) \/ Put(p, Ended(p))
    BY <1>5 DEF PrepareScheduled
  <2> HIDE DEF rec
  <2>4. BookedOf(rec, reached')
    BY <2>1, <2>2 DEF BookedOf, NoTally
  <2>5. QED
    BY <1>1, <1>2, <2>3, <2>4, BookedSame, NothingBooked
<1>6. CASE GiveBackLease(p)
  BY <1>1, <1>2, <1>6, BookedSame, NothingBooked DEF GiveBackLease
<1>7. QED
  BY <1>3, <1>4, <1>5, <1>6 DEF SchedulerStep

\* The routes: what a retry reads is real, and so is what a repair writes.
LEMMA HandlerBooks ==
    ASSUME BookInv, ShapeInv', NEW h \in Handler, HandlerStep(h)
    PROVE  BookInv'
<1>1. UNCHANGED reached
  BY DEF HandlerStep, SendNow, ReadIssue, PrepareRetry, Repair
<1>2. h \in Actor /\ run[h] \in Attempt /\ BookedOf(run[h], reached)
      /\ ShapeOf(h, run[h], ledger)
  BY DEF BookInv, Booked, ShapeInv, Shape, Actor
<1>3. CASE SendNow(h)
  <2> DEFINE rec == [Idle EXCEPT !.pc = "smtp", !.kind = "now", !.row = h,
                                 !.todo = to]
  <2>1. rec.tally = NoTally /\ rec.base = None
    BY DEF Idle
  <2>2. Put(h, rec) /\ UNCHANGED ledger
    BY <1>3 DEF SendNow
  <2> HIDE DEF rec
  <2>3. BookedOf(rec, reached')
    BY <2>1 DEF BookedOf, NoTally
  <2>4. QED
    BY <1>1, <1>2, <2>2, <2>3, BookedSame
<1>4. CASE ReadIssue(h)
  <2>1. PICK r \in RowId :
          /\ ledger[r] # None
          /\ Put(h, [Idle EXCEPT !.pc = "prepare", !.kind = "retry", !.row = r,
                        !.base = [sent |-> ledger[r].sent,
                                  failed |-> ledger[r].failed]])
    BY <1>4 DEF ReadIssue
  <2> DEFINE base == [sent |-> ledger[r].sent, failed |-> ledger[r].failed]
             rec == [Idle EXCEPT !.pc = "prepare", !.kind = "retry", !.row = r,
                                 !.base = base]
  <2>2. /\ rec.tally = NoTally /\ rec.base.sent = ledger[r].sent
        /\ rec.row = r
    BY DEF Idle
  <2>3. Put(h, rec) /\ UNCHANGED ledger
    BY <1>4, <2>1 DEF ReadIssue
  <2> HIDE DEF rec
  <2>4. BookedOf(rec, reached')
    BY <1>1, <2>1, <2>2 DEF BookedOf, NoTally, BookInv, SentIsReal
  <2>5. QED
    BY <1>1, <1>2, <2>3, <2>4, BookedSame
<1>5. CASE PrepareRetry(h)
  <2> DEFINE rec == [run[h] EXCEPT !.pc = "smtp",
                                   !.todo = run[h].base.failed \cap to]
  <2>1. /\ rec.row = run[h].row /\ rec.tally = run[h].tally
        /\ rec.base = run[h].base
    BY <1>2 DEF Attempt
  <2>2. (Put(h, rec) \/ Put(h, Ended(h))) /\ UNCHANGED ledger
    BY <1>5 DEF PrepareRetry
  <2> HIDE DEF rec
  <2>3. BookedOf(rec, reached')
    BY <1>1, <1>2, <2>1 DEF BookedOf
  <2>4. QED
    BY <1>1, <1>2, <2>2, <2>3, BookedSame, NothingBooked
<1>6. CASE Repair(h)
  <2>1. /\ ledger' = [ledger EXCEPT ![run[h].row] =
              [status |-> "sent", sent |-> run[h].base.sent, failed |-> {}]]
        /\ Put(h, Ended(h))
        /\ run[h].base # None
    BY <1>2, <1>6, Actors DEF Repair, ShapeOf, At
  <2>2. Booked'
    BY <1>1, <1>2, <2>1, BookedAfterPut, NothingBooked DEF BookInv, ShapeInv
  <2>3. \A x \in run[h].base.sent : <<run[h].row, x>> \in reached
    BY <1>2, <2>1 DEF BookedOf
  <2>4. SentIsReal'
    BY <1>1, <2>1, <2>3 DEF BookInv, ShapeInv, OthersOK, SentIsReal
  <2>5. QED
    BY <2>2, <2>4 DEF BookInv
<1>7. QED
  BY <1>3, <1>4, <1>5, <1>6 DEF HandlerStep

\* The conversation and the write: an address is booked when it is reached,
\* and the row is merged from what is booked and what was read.
LEMMA AttemptBooks ==
    ASSUME BookInv, ShapeInv', NEW a \in Actor, AttemptStep(a) \/ Crash(a)
    PROVE  BookInv'
<1>1. run[a] \in Attempt /\ BookedOf(run[a], reached)
      /\ ShapeOf(a, run[a], ledger)
  BY DEF BookInv, Booked, ShapeInv, Shape
<1>2. CASE Deliver(a)
  <2>1. PICK r \in run[a].todo :
          /\ Put(a, [run[a] EXCEPT !.todo = @ \ {r},
                                   !.tally.sent = @ \cup {r}])
          /\ reached' = reached \cup {<<run[a].row, r>>}
    BY <1>2 DEF Deliver
  <2> DEFINE rec == [run[a] EXCEPT !.todo = @ \ {r},
                                   !.tally.sent = @ \cup {r}]
  <2>2. /\ rec.row = run[a].row /\ rec.base = run[a].base
        /\ rec.tally.sent = run[a].tally.sent \cup {r}
    BY <1>1 DEF Attempt, Tally
  <2>3. Put(a, rec) /\ UNCHANGED ledger
    BY <1>2, <2>1 DEF Deliver
  <2> HIDE DEF rec
  <2>4. BookedOf(rec, reached')
    BY <1>1, <2>1, <2>2 DEF BookedOf
  <2>5. QED
    BY <2>1, <2>3, <2>4, BookedSame
<1>3. CASE Refuse(a)
  <2>1. PICK F : Put(a, [run[a] EXCEPT !.todo = @ \ F,
                                       !.tally.failed = @ \cup F])
    BY <1>3 DEF Refuse
  <2> DEFINE rec == [run[a] EXCEPT !.todo = @ \ F,
                                   !.tally.failed = @ \cup F]
  <2>2. /\ rec.row = run[a].row /\ rec.base = run[a].base
        /\ rec.tally.sent = run[a].tally.sent
    BY <1>1 DEF Attempt, Tally
  <2>3. Put(a, rec) /\ UNCHANGED <<ledger, reached>>
    BY <1>3, <2>1 DEF Refuse
  <2> HIDE DEF rec
  <2>4. BookedOf(rec, reached')
    BY <1>1, <2>2, <2>3 DEF BookedOf
  <2>5. QED
    BY <2>3, <2>4, BookedSame
<1>4. CASE Find(a)
  <2> DEFINE base == IF run[a].kind = "now" THEN None ELSE ledger[run[a].row]
             rec == [run[a] EXCEPT !.pc = "write", !.base = base]
  <2>1. /\ rec.row = run[a].row /\ rec.base = base
        /\ rec.tally = run[a].tally
    BY <1>1 DEF Attempt
  <2>2. Put(a, rec) /\ UNCHANGED <<ledger, reached>>
    BY <1>4 DEF Find
  <2>3. run[a].row \in RowId
    BY <1>1, <1>4 DEF Find, At, ShapeOf, Conversing, Attempt
  <2>4. base # None => \A x \in base.sent : <<run[a].row, x>> \in reached
    BY <2>3 DEF BookInv, SentIsReal
  <2> HIDE DEF rec, base
  <2>5. BookedOf(rec, reached')
    BY <1>1, <2>1, <2>2, <2>4 DEF BookedOf
  <2>6. QED
    BY <2>2, <2>5, BookedSame
<1>5. CASE Write(a)
  <2> DEFINE rec == [run[a] EXCEPT !.pc = "mark", !.base = None]
  <2>1. UNCHANGED reached /\ run[a].pc = "write"
    BY <1>5 DEF Write, At
  <2>2. CASE Put(a, Ended(a)) /\ UNCHANGED ledger
    BY <2>1, <2>2, BookedSame, NothingBooked
  <2>3. CASE /\ Put(a, rec)
             /\ ledger' = [ledger EXCEPT ![run[a].row] =
                   [status |-> Status(a), sent |-> Entries(a).sent,
                    failed |-> Entries(a).failed]]
    <3>1. /\ rec.row = run[a].row /\ rec.base = None
          /\ rec.tally = run[a].tally
      BY <1>1 DEF Attempt
    <3> HIDE DEF rec
    <3>2. BookedOf(rec, reached')
      BY <1>1, <2>1, <3>1 DEF BookedOf
    <3>3. Booked'
      BY <2>1, <2>3, <3>2, BookedAfterPut DEF BookInv, ShapeInv
    <3>4. run[a].kind = "retry" => run[a].base # None
      BY <1>1, <2>1 DEF ShapeOf
    <3>5. \A x \in Entries(a).sent : <<run[a].row, x>> \in reached
      BY <1>1, <3>4 DEF BookedOf, Entries, Merge
    <3>6. SentIsReal'
      BY <2>1, <2>3, <3>5 DEF BookInv, ShapeInv, OthersOK, SentIsReal
    <3>7. QED
      BY <3>3, <3>6 DEF BookInv
  <2>4. QED
    BY <1>5, <2>2, <2>3 DEF Write
<1>6. CASE Mark(a)
  BY <1>6, BookedSame, NothingBooked DEF Mark
<1>7. CASE Crash(a)
  BY <1>7, BookedSame, NothingBooked DEF Crash
<1>8. QED
  BY <1>2, <1>3, <1>4, <1>5, <1>6, <1>7 DEF AttemptStep

\* Every step keeps the books in order.
LEMMA BookStep == ASSUME BookInv, [Next]_vars PROVE BookInv'
<1>1. ShapeInv'
  BY ShapeStep DEF BookInv
<1>2. CASE UNCHANGED <<run, ledger, reached>>
  BY <1>1, <1>2 DEF BookInv, Booked, SentIsReal
<1>3. CASE EditRecipients \/ Clock \/ UNCHANGED vars
  BY <1>2, <1>3 DEF EditRecipients, Clock, vars, digestVars
<1>4. QED
  BY <1>1, <1>3, SchedulerBooks, HandlerBooks, AttemptBooks DEF Next

\* Nothing is booked at first.
LEMMA InitBook == Init => BookInv
<1> SUFFICES ASSUME Init PROVE BookInv
  OBVIOUS
<1>1. Booked
  BY NothingBooked DEF Init, Booked
<1>2. SentIsReal
  BY DEF Init, SentIsReal
<1>3. QED
  BY <1>1, <1>2, InitShape DEF BookInv

(* An address the ledger calls sent was given mail for that issue, on any  *)
(* number of instances and requests, with any crashes, refusals and edits  *)
(* (newsletter_issues.py:3-8).                                             *)
THEOREM SentIsRealAlways == Spec => []SentIsReal
<1>1. BookInv /\ [Next]_vars => BookInv'
  BY BookStep
<1>2. BookInv => SentIsReal
  BY DEF BookInv
<1>3. QED
  BY <1>1, <1>2, InitBook, PTL DEF Spec

-----------------------------------------------------------------------------
(* The account argument.  Leaving aside the addresses whose place in       *)
(* to_addr has changed, a row lists exactly the addresses of to_addr, and  *)
(* so does every conversation that is over, up to those a retry found      *)
(* reached already.  An address left failed in a row that a retry closes   *)
(* would have to be missing from its conversation, and is not.             *)

Listed(t) == t.sent \cup t.failed

\* Of the addresses outside E, t lists exactly those of T.
InStep(t, T, E) == \A x \in Address \ E : x \in Listed(t) <=> x \in T

\* What record r accounts for beside the recipients T, the edited addresses E
\* and the deliveries R.
AccountOf(r, T, E, R) ==
    /\ r.base # None => InStep(r.base, T, E)
    /\ r.pc \in {"smtp", "write"} =>
          \A x \in Address \ E :
             /\ x \in r.todo \cup Listed(r.tally) => x \in T
             /\ x \in T => \/ x \in r.todo \cup Listed(r.tally)
                           \/ r.kind = "retry" /\ <<r.row, x>> \in R
    /\ r.pc = "write" => r.todo = {}

Accounted == \A a \in Actor : AccountOf(run[a], to, edited, reached)

RowsInStep == \A r \in RowId : ledger[r] # None => InStep(ledger[r], to, edited)

AccountInv == BookInv /\ Accounted /\ RowsInStep /\ ClosedOwesNobody

\* The records of an idle actor and of an attempt that ended account for
\* nothing.
LEMMA NothingAccounted ==
    ASSUME NEW a, NEW T, NEW E, NEW R
    PROVE  AccountOf(Idle, T, E, R) /\ AccountOf(Ended(a), T, E, R)
<1>1. /\ Idle.pc = "idle" /\ Idle.base = None
      /\ Ended(a).pc \in {"idle", "release"} /\ Ended(a).base = None
  BY DEF Idle, Ended
<1>2. QED
  BY <1>1 DEF AccountOf

\* One actor takes a record that accounts for its addresses.
LEMMA AccountedAfterPut ==
    ASSUME AccountInv, NEW a \in Actor, NEW rec, Put(a, rec),
           UNCHANGED <<to, edited>>, reached \subseteq reached',
           AccountOf(rec, to, edited, reached')
    PROVE  Accounted'
<1>1. /\ run'[a] = rec
      /\ \A b \in Actor : b # a => run'[b] = run[b]
  BY DEF Put, AccountInv, BookInv, ShapeInv
<1>2. ASSUME NEW b \in Actor PROVE AccountOf(run'[b], to', edited', reached')
  <2>1. CASE b = a
    BY <1>1, <2>1
  <2>2. CASE b # a
    <3>1. AccountOf(run[b], to, edited, reached)
      BY DEF AccountInv, Accounted
    <3>2. AccountOf(run[b], to, edited, reached')
      BY <3>1 DEF AccountOf
    <3>3. QED
      BY <1>1, <2>2, <3>2
  <2>3. QED
    BY <2>1, <2>2
<1>3. QED
  BY <1>2 DEF Accounted

\* Such a step that leaves the ledger alone.
LEMMA AccountSame ==
    ASSUME AccountInv, BookInv', NEW a \in Actor, NEW rec, Put(a, rec),
           UNCHANGED <<ledger, to, edited>>, reached \subseteq reached',
           AccountOf(rec, to, edited, reached')
    PROVE  AccountInv'
<1>1. Accounted'
  BY AccountedAfterPut
<1>2. RowsInStep' /\ ClosedOwesNobody'
  BY DEF AccountInv, RowsInStep, ClosedOwesNobody
<1>3. QED
  BY <1>1, <1>2 DEF AccountInv

\* An attempt that starts has everybody it is to reach before it.
LEMMA StartAccounts ==
    ASSUME NEW rec, NEW R, NEW T, NEW E, rec.pc = "smtp", rec.base = None,
           rec.tally = NoTally, rec.todo = T
    PROVE  AccountOf(rec, T, E, R)
BY DEF AccountOf, Listed, NoTally

\* The scheduler's own steps.
LEMMA SchedulerAccounts ==
    ASSUME AccountInv, BookInv', NEW p \in Scheduler, SchedulerStep(p)
    PROVE  AccountInv'
<1>1. UNCHANGED <<ledger, to, edited, reached>>
  BY DEF SchedulerStep, Check, TakeLease, PrepareScheduled, GiveBackLease
<1>2. /\ p \in Actor /\ run[p] \in Attempt
      /\ ShapeOf(p, run[p], ledger)
  BY DEF AccountInv, BookInv, ShapeInv, Shape, Actor
<1>3. CASE Check(p)
  <2> DEFINE rec == [Idle EXCEPT !.pc = "acquire", !.scope = Hour[now]]
  <2>1. rec.pc = "acquire" /\ rec.base = None
    BY DEF Idle
  <2>2. Put(p, rec)
    BY <1>3 DEF Check
  <2> HIDE DEF rec
  <2>3. AccountOf(rec, to, edited, reached')
    BY <2>1 DEF AccountOf
  <2>4. QED
    BY <1>1, <1>2, <2>2, <2>3, AccountSame
<1>4. CASE TakeLease(p)
  <2>1. PICK o \in Owner :
          \/ Put(p, [run[p] EXCEPT !.pc = "prepare", !.kind = "scheduled",
                                   !.owner = o, !.until = now + TTL])
          \/ Put(p, Idle)
    BY <1>4 DEF TakeLease
  <2> DEFINE rec == [run[p] EXCEPT !.pc = "prepare", !.kind = "scheduled",
                                   !.owner = o, !.until = now + TTL]
  <2>2. rec.pc = "prepare" /\ rec.base = run[p].base
    BY <1>2 DEF Attempt
  <2>3. run[p].base = None
    BY <1>2, <1>4 DEF ShapeOf, TakeLease, At
  <2>4. Put(p, rec) \/ Put(p, Idle)
    BY <2>1
  <2> HIDE DEF rec
  <2>5. AccountOf(rec, to, edited, reached')
    BY <2>2, <2>3 DEF AccountOf
  <2>6. QED
    BY <1>1, <1>2, <2>4, <2>5, AccountSame, NothingAccounted
<1>5. CASE PrepareScheduled(p)
  <2> DEFINE rec == [run[p] EXCEPT !.pc = "smtp", !.row = Hour[now],
                                   !.todo = to]
  <2>1. run[p].tally = NoTally /\ run[p].base = None
    BY <1>2, <1>5 DEF ShapeOf, PrepareScheduled, At, Conversing
  <2>2. /\ rec.pc = "smtp" /\ rec.tally = run[p].tally
        /\ rec.base = run[p].base /\ rec.todo = to
    BY <1>2 DEF Attempt
  <2>3. Put(p, rec) \/ Put(p, Ended(p))
    BY <1>5 DEF PrepareScheduled
  <2> HIDE DEF rec
  <2>4. AccountOf(rec, to, edited, reached')
    BY <2>1, <2>2, StartAccounts
  <2>5. QED
    BY <1>1, <1>2, <2>3, <2>4, AccountSame, NothingAccounted
<1>6. CASE GiveBackLease(p)
  BY <1>1, <1>2, <1>6, AccountSame, NothingAccounted DEF GiveBackLease
<1>7. QED
  BY <1>3, <1>4, <1>5, <1>6 DEF SchedulerStep

\* A row is written that lists who it should and, closed, owes nobody.
LEMMA RowAccounts ==
    ASSUME AccountInv, NEW r \in RowId, NEW i \in Issue,
           ledger' = [ledger EXCEPT ![r] = i],
           UNCHANGED <<to, edited, reached>>,
           InStep(i, to, edited),
           i.status = "sent" =>
              \A x \in Listed(i) : <<r, x>> \in reached \/ x \in edited
    PROVE  RowsInStep' /\ ClosedOwesNobody'
<1>1. \A q \in RowId : ledger'[q] = IF q = r THEN i ELSE ledger[q]
  BY DEF AccountInv, BookInv, ShapeInv, OthersOK
<1>2. RowsInStep'
  BY <1>1 DEF AccountInv, RowsInStep
<1>3. ClosedOwesNobody'
  BY <1>1 DEF AccountInv, ClosedOwesNobody, Listed
<1>4. QED
  BY <1>2, <1>3

\* The routes: a retry takes on whoever the row still misses.
LEMMA HandlerAccounts ==
    ASSUME AccountInv, BookInv', NEW h \in Handler, HandlerStep(h)
    PROVE  AccountInv'
<1>1. UNCHANGED <<reached, to, edited>>
  BY DEF HandlerStep, SendNow, ReadIssue, PrepareRetry, Repair
<1>2. /\ h \in Actor /\ run[h] \in Attempt
      /\ ShapeOf(h, run[h], ledger)
      /\ BookedOf(run[h], reached)
      /\ AccountOf(run[h], to, edited, reached)
  BY DEF AccountInv, BookInv, ShapeInv, Shape, Actor, Booked, Accounted
<1>3. CASE SendNow(h)
  <2> DEFINE rec == [Idle EXCEPT !.pc = "smtp", !.kind = "now", !.row = h,
                                 !.todo = to]
  <2>1. /\ rec.pc = "smtp" /\ rec.tally = NoTally /\ rec.base = None
        /\ rec.todo = to
    BY DEF Idle
  <2>2. Put(h, rec) /\ UNCHANGED ledger
    BY <1>3 DEF SendNow
  <2> HIDE DEF rec
  <2>3. AccountOf(rec, to, edited, reached')
    BY <2>1, StartAccounts
  <2>4. QED
    BY <1>1, <1>2, <2>2, <2>3, AccountSame
<1>4. CASE ReadIssue(h)
  <2>1. PICK r \in RowId :
          /\ ledger[r] # None
          /\ Put(h, [Idle EXCEPT !.pc = "prepare", !.kind = "retry", !.row = r,
                        !.base = [sent |-> ledger[r].sent,
                                  failed |-> ledger[r].failed]])
    BY <1>4 DEF ReadIssue
  <2> DEFINE base == [sent |-> ledger[r].sent, failed |-> ledger[r].failed]
             rec == [Idle EXCEPT !.pc = "prepare", !.kind = "retry", !.row = r,
                                 !.base = base]
  <2>2. rec.pc = "prepare" /\ Listed(rec.base) = Listed(ledger[r])
    BY DEF Idle, Listed
  <2>3. Put(h, rec) /\ UNCHANGED ledger
    BY <1>4, <2>1 DEF ReadIssue
  <2> HIDE DEF rec, base
  <2>4. AccountOf(rec, to, edited, reached')
    BY <2>1, <2>2 DEF AccountOf, AccountInv, RowsInStep, InStep
  <2>5. QED
    BY <1>1, <1>2, <2>3, <2>4, AccountSame
<1>5. CASE PrepareRetry(h)
  <2> DEFINE rec == [run[h] EXCEPT !.pc = "smtp",
                                   !.todo = run[h].base.failed \cap to]
  <2>1. /\ rec.pc = "smtp" /\ rec.kind = run[h].kind /\ rec.row = run[h].row
        /\ rec.tally = run[h].tally /\ rec.base = run[h].base
        /\ rec.todo = run[h].base.failed \cap to
    BY <1>2 DEF Attempt
  <2>2. /\ run[h].kind = "retry" /\ run[h].base # None
        /\ run[h].tally = NoTally
    BY <1>2, <1>5 DEF ShapeOf, PrepareRetry, At, Conversing
  <2>3. (Put(h, rec) \/ Put(h, Ended(h))) /\ UNCHANGED ledger
    BY <1>5 DEF PrepareRetry
  <2> HIDE DEF rec
  <2>4. /\ InStep(run[h].base, to, edited)
        /\ \A x \in run[h].base.sent : <<run[h].row, x>> \in reached
    BY <1>2, <2>2 DEF AccountOf, BookedOf
  <2>5. ASSUME NEW x \in Address \ edited
        PROVE  /\ x \in rec.todo \cup Listed(rec.tally) => x \in to
               /\ x \in to => \/ x \in rec.todo \cup Listed(rec.tally)
                              \/ <<rec.row, x>> \in reached
    BY <2>1, <2>2, <2>4 DEF InStep, Listed, NoTally
  <2>6. AccountOf(rec, to, edited, reached')
    BY <1>1, <2>1, <2>2, <2>4, <2>5 DEF AccountOf
  <2>7. QED
    BY <1>1, <1>2, <2>3, <2>6, AccountSame, NothingAccounted
<1>6. CASE Repair(h)
  <2> DEFINE issue == [status |-> "sent", sent |-> run[h].base.sent,
                       failed |-> {}]
  <2>1. /\ ledger' = [ledger EXCEPT ![run[h].row] = issue]
        /\ Put(h, Ended(h))
        /\ run[h].base # None /\ run[h].base.failed = {}
        /\ run[h].row \in RowId
    BY <1>2, <1>6, Actors DEF Repair, ShapeOf, At, Attempt
  <2>2. issue \in Issue
    BY <1>2, <2>1 DEF Attempt, Issue, Tally
  <2>3. issue.status = "sent" /\ Listed(issue) = Listed(run[h].base)
    BY <2>1 DEF Listed
  <2>4. /\ InStep(run[h].base, to, edited)
        /\ \A x \in Listed(run[h].base) : <<run[h].row, x>> \in reached
    BY <1>2, <2>1 DEF AccountOf, BookedOf, Listed
  <2> HIDE DEF issue
  <2>5. InStep(issue, to, edited)
    BY <2>3, <2>4 DEF InStep
  <2>6. RowsInStep' /\ ClosedOwesNobody'
    BY <1>1, <2>1, <2>2, <2>3, <2>4, <2>5, RowAccounts
  <2>7. Accounted'
    BY <1>1, <1>2, <2>1, AccountedAfterPut, NothingAccounted
  <2>8. QED
    BY <2>6, <2>7 DEF AccountInv
<1>7. QED
  BY <1>3, <1>4, <1>5, <1>6 DEF HandlerStep

\* An attempt that goes on among the addresses it has, or closes its list.
LEMMA GoesOn ==
    ASSUME NEW r, NEW s, NEW T, NEW E, NEW R, NEW Q, AccountOf(r, T, E, R),
           R \subseteq Q, r.pc = "smtp", s.pc \in {"smtp", "write"},
           s.pc = "write" => s.todo = {},
           s.kind = r.kind, s.row = r.row,
           s.todo \cup Listed(s.tally) = r.todo \cup Listed(r.tally),
           s.base # None => InStep(s.base, T, E)
    PROVE  AccountOf(s, T, E, Q)
BY DEF AccountOf

\* The row an attempt writes: what its conversation booked, and for a retry
\* what the row had before.
LEMMA WriteAccounts ==
    ASSUME AccountInv, BookInv', NEW a \in Actor, Write(a)
    PROVE  AccountInv'
<1>1. UNCHANGED <<reached, to, edited>> /\ run[a].pc = "write"
  BY DEF Write, At
<1>2. /\ run[a] \in Attempt /\ run[a].tally \in Tally
      /\ ShapeOf(a, run[a], ledger)
      /\ BookedOf(run[a], reached)
      /\ AccountOf(run[a], to, edited, reached)
  BY DEF AccountInv, BookInv, ShapeInv, Shape, Booked, Accounted, Attempt
<1>3. CASE Put(a, Ended(a)) /\ UNCHANGED ledger
  BY <1>1, <1>3, AccountSame, NothingAccounted
<1> DEFINE rec == [run[a] EXCEPT !.pc = "mark", !.base = None]
           issue == [status |-> Status(a), sent |-> Entries(a).sent,
                     failed |-> Entries(a).failed]
           tally == run[a].tally
           base == run[a].base
<1>4. CASE Put(a, rec) /\ ledger' = [ledger EXCEPT ![run[a].row] = issue]
  <2>1. rec.pc = "mark" /\ rec.base = None
    BY <1>2 DEF Attempt
  <2> HIDE DEF rec
  <2>2. Accounted'
    <3>1. AccountOf(rec, to, edited, reached')
      BY <2>1 DEF AccountOf
    <3>2. QED
      BY <1>1, <1>4, <3>1, AccountedAfterPut
  <2>3. /\ run[a].row \in RowId
        /\ run[a].todo = {}
        /\ \A x \in Address \ edited :
              /\ x \in Listed(tally) => x \in to
              /\ x \in to => \/ x \in Listed(tally)
                             \/ run[a].kind = "retry"
                                /\ <<run[a].row, x>> \in reached
        /\ \A x \in tally.sent : <<run[a].row, x>> \in reached
        /\ Status(a) = "sent" <=> tally.failed = {}
        /\ Status(a) \in {"sent", "failed"}
    BY <1>1, <1>2
    DEF ShapeOf, Conversing, Attempt, AccountOf, BookedOf, Status
  <2>4. CASE run[a].kind = "retry"
    <3>1. /\ base # None /\ base \in Issue \cup Tally
          /\ InStep(base, to, edited)
          /\ \A x \in base.sent : <<run[a].row, x>> \in reached
      BY <1>1, <1>2, <2>4 DEF ShapeOf, Attempt, AccountOf, BookedOf
    <3>2. base.sent \in SUBSET Address /\ base.failed \in SUBSET Address
      BY <3>1 DEF Issue, Tally
    <3>3. /\ issue.sent = base.sent \cup tally.sent
          /\ issue.failed = (base.failed \cup tally.failed)
                               \ (base.sent \cup tally.sent)
          /\ issue.status = Status(a)
      BY <2>4 DEF Entries, Merge
    <3>4. issue \in Issue
      BY <1>2, <2>3, <3>2, <3>3 DEF Issue, Tally
    <3> HIDE DEF issue, tally, base
    <3>5. Listed(issue) = Listed(base) \cup Listed(tally)
      BY <3>3 DEF Listed
    <3>6. InStep(issue, to, edited)
      BY <2>3, <3>1, <3>5 DEF InStep
    <3>7. ASSUME issue.status = "sent", NEW x \in Listed(issue)
          PROVE  <<run[a].row, x>> \in reached \/ x \in edited
      <4>1. tally.failed = {}
        BY <2>3, <3>3, <3>7
      <4>2. CASE x \in issue.sent
        BY <2>3, <3>1, <3>3, <4>2
      <4>3. CASE x \in issue.failed
        <5>1. /\ x \in base.failed /\ x \in Address
              /\ x \notin Listed(tally)
          BY <3>2, <3>3, <4>1, <4>3 DEF Listed
        <5>2. x \notin edited => x \in to
          BY <3>1, <5>1 DEF InStep, Listed
        <5>3. QED
          BY <2>3, <5>1, <5>2
      <4>4. QED
        BY <3>7, <4>2, <4>3 DEF Listed
    <3>8. QED
      BY <1>1, <1>4, <2>2, <2>3, <3>4, <3>6, <3>7, RowAccounts DEF AccountInv
  <2>5. CASE run[a].kind # "retry"
    <3>1. /\ issue.sent = tally.sent /\ issue.failed = tally.failed
          /\ issue.status = Status(a)
      BY <2>5 DEF Entries
    <3>2. issue \in Issue
      BY <1>2, <2>3, <3>1 DEF Issue, Tally
    <3> HIDE DEF issue, tally
    <3>3. Listed(issue) = Listed(tally)
      BY <3>1 DEF Listed
    <3>4. InStep(issue, to, edited)
      BY <2>3, <2>5, <3>3 DEF InStep
    <3>5. issue.status = "sent" =>
            \A x \in Listed(issue) : <<run[a].row, x>> \in reached
      BY <2>3, <3>1, <3>3 DEF Listed
    <3>6. QED
      BY <1>1, <1>4, <2>2, <2>3, <3>2, <3>4, <3>5, RowAccounts DEF AccountInv
  <2>6. QED
    BY <2>4, <2>5
<1>5. QED
  BY <1>3, <1>4 DEF Write

\* The conversation: whoever leaves it is in the tally.
LEMMA AttemptAccounts ==
    ASSUME AccountInv, BookInv', NEW a \in Actor, AttemptStep(a) \/ Crash(a)
    PROVE  AccountInv'
<1>1. /\ run[a] \in Attempt
      /\ ShapeOf(a, run[a], ledger)
      /\ AccountOf(run[a], to, edited, reached)
  BY DEF AccountInv, BookInv, ShapeInv, Shape, Accounted
<1>2. CASE Deliver(a)
  <2>1. PICK r \in run[a].todo :
          /\ Put(a, [run[a] EXCEPT !.todo = @ \ {r},
                                   !.tally.sent = @ \cup {r}])
          /\ reached' = reached \cup {<<run[a].row, r>>}
    BY <1>2 DEF Deliver
  <2> DEFINE rec == [run[a] EXCEPT !.todo = @ \ {r},
                                   !.tally.sent = @ \cup {r}]
  <2>2. /\ rec.row = run[a].row /\ rec.base = run[a].base
        /\ rec.kind = run[a].kind /\ rec.pc = run[a].pc
        /\ rec.todo = run[a].todo \ {r}
        /\ rec.tally.sent = run[a].tally.sent \cup {r}
        /\ rec.tally.failed = run[a].tally.failed
    BY <1>1 DEF Attempt, Tally
  <2>3. /\ Put(a, rec) /\ run[a].pc = "smtp"
        /\ UNCHANGED <<ledger, to, edited>>
    BY <1>2, <2>1 DEF Deliver, At
  <2> HIDE DEF rec
  <2>4. rec.todo \cup Listed(rec.tally) = run[a].todo \cup Listed(run[a].tally)
    BY <2>1, <2>2 DEF Listed
  <2>5. AccountOf(rec, to, edited, reached')
    BY <1>1, <2>1, <2>2, <2>3, <2>4, GoesOn DEF AccountOf
  <2>6. QED
    BY <2>1, <2>3, <2>5, AccountSame
<1>3. CASE Refuse(a)
  <2>0. PICK r \in run[a].todo : \E F \in FailedWith(a, r) :
          Put(a, [run[a] EXCEPT !.todo = @ \ F, !.tally.failed = @ \cup F])
    BY <1>3 DEF Refuse
  <2>1. PICK F \in FailedWith(a, r) :
          Put(a, [run[a] EXCEPT !.todo = @ \ F, !.tally.failed = @ \cup F])
    BY <2>0
  <2> DEFINE rec == [run[a] EXCEPT !.todo = @ \ F,
                                   !.tally.failed = @ \cup F]
  <2>2. /\ rec.row = run[a].row /\ rec.base = run[a].base
        /\ rec.kind = run[a].kind /\ rec.pc = run[a].pc
        /\ rec.todo = run[a].todo \ F
        /\ rec.tally.sent = run[a].tally.sent
        /\ rec.tally.failed = run[a].tally.failed \cup F
    BY <1>1 DEF Attempt, Tally
  <2>3. /\ Put(a, rec) /\ run[a].pc = "smtp"
        /\ UNCHANGED <<ledger, reached, to, edited>>
    BY <1>3, <2>1 DEF Refuse, At
  <2> HIDE DEF rec
  <2>4. F \subseteq run[a].todo
    BY <2>0, <2>1 DEF FailedWith
  <2>5. rec.todo \cup Listed(rec.tally) = run[a].todo \cup Listed(run[a].tally)
    BY <2>2, <2>4 DEF Listed
  <2>6. AccountOf(rec, to, edited, reached')
    BY <1>1, <2>2, <2>3, <2>5, GoesOn DEF AccountOf
  <2>7. QED
    BY <2>3, <2>6, AccountSame
<1>4. CASE Find(a)
  <2> DEFINE base == IF run[a].kind = "now" THEN None ELSE ledger[run[a].row]
             rec == [run[a] EXCEPT !.pc = "write", !.base = base]
  <2>1. /\ rec.row = run[a].row /\ rec.base = base
        /\ rec.kind = run[a].kind /\ rec.pc = "write"
        /\ rec.tally = run[a].tally /\ rec.todo = run[a].todo
    BY <1>1 DEF Attempt
  <2>2. /\ Put(a, rec) /\ UNCHANGED <<ledger, reached, to, edited>>
        /\ run[a].pc = "smtp" /\ run[a].todo = {}
    BY <1>4 DEF Find, At
  <2>3. run[a].row \in RowId
    BY <1>1, <2>2 DEF ShapeOf, Conversing, Attempt
  <2>4. base # None => InStep(base, to, edited)
    BY <2>3 DEF AccountInv, RowsInStep
  <2> HIDE DEF rec, base
  <2>5. AccountOf(rec, to, edited, reached')
    BY <1>1, <2>1, <2>2, <2>4, GoesOn
  <2>6. QED
    BY <2>2, <2>5, AccountSame
<1>5. CASE Mark(a)
  BY <1>5, AccountSame, NothingAccounted DEF Mark
<1>6. CASE Crash(a)
  BY <1>6, AccountSame, NothingAccounted DEF Crash
<1>7. QED
  BY <1>2, <1>3, <1>4, <1>5, <1>6, WriteAccounts DEF AttemptStep

\* An edit moves one address, and nobody answers for it from then on.
LEMMA EditAccounts ==
    ASSUME AccountInv, BookInv', EditRecipients PROVE AccountInv'
<1>1. PICK x \in Address :
        /\ to' = IF x \in to THEN to \ {x} ELSE to \cup {x}
        /\ edited' = edited \cup {x}
  BY DEF EditRecipients
<1>2. UNCHANGED <<run, ledger, reached>>
  BY DEF EditRecipients
<1>3. \A y \in Address \ edited' : y \notin edited /\ (y \in to' <=> y \in to)
  BY <1>1
<1>4. ASSUME NEW t, InStep(t, to, edited) PROVE InStep(t, to', edited')
  BY <1>3, <1>4 DEF InStep
<1>5. ASSUME NEW r, AccountOf(r, to, edited, reached)
      PROVE  AccountOf(r, to', edited', reached)
  BY <1>3, <1>4, <1>5 DEF AccountOf
<1>6. Accounted'
  BY <1>2, <1>5 DEF AccountInv, Accounted
<1>7. RowsInStep'
  BY <1>2, <1>4 DEF AccountInv, RowsInStep
<1>8. ClosedOwesNobody'
  BY <1>1, <1>2 DEF AccountInv, ClosedOwesNobody
<1>9. QED
  BY <1>6, <1>7, <1>8 DEF AccountInv

(* An issue closed as sent owes no address that has stayed in, or out of,  *)
(* the settings: for any number of instances, retries, crashes and edits   *)
(* (mail_digest.py:603-608, routers/newsletter.py:208-218).                *)
THEOREM ClosedOwesNobodyAlways == Spec => []ClosedOwesNobody
<1>1. Init => AccountInv
  <2> SUFFICES ASSUME Init PROVE AccountInv
    OBVIOUS
  <2>1. Accounted
    BY NothingAccounted DEF Init, Accounted
  <2>2. RowsInStep /\ ClosedOwesNobody
    BY DEF Init, RowsInStep, ClosedOwesNobody
  <2>3. QED
    BY <2>1, <2>2, InitBook DEF AccountInv
<1>2. AccountInv /\ [Next]_vars => AccountInv'
  <2> SUFFICES ASSUME AccountInv, [Next]_vars PROVE AccountInv'
    OBVIOUS
  <2>1. BookInv'
    BY BookStep DEF AccountInv
  <2>2. CASE UNCHANGED <<run, ledger, reached, to, edited>>
    BY <2>1, <2>2 DEF AccountInv, Accounted, RowsInStep, ClosedOwesNobody
  <2>3. CASE Clock \/ UNCHANGED vars
    BY <2>2, <2>3 DEF Clock, vars, digestVars
  <2>4. QED
    BY <2>1, <2>3, SchedulerAccounts, HandlerAccounts, AttemptAccounts,
       EditAccounts
    DEF Next
<1>3. AccountInv => ClosedOwesNobody
  BY DEF AccountInv
<1>4. QED
  BY <1>1, <1>2, <1>3, PTL DEF Spec
=============================================================================
