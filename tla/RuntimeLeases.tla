---------------------------- MODULE RuntimeLeases ----------------------------
(***************************************************************************)
(* The table runtime_leases and the two transactions of RuntimeLeases      *)
(* (runtime.py).  One row per scope; each transaction reads the clock      *)
(* inside itself and is atomic.  Time is a count of units of a fraction of *)
(* the time to live; the clock is that of the shared file's host, and does *)
(* not run backwards.                                                      *)
(***************************************************************************)
EXTENDS Naturals

CONSTANTS Owner,   \* owner tokens; a RuntimeLeases object has one of its own
          Scope,   \* the windows that are leased
          TTL,     \* units a lease lives
          None     \* no row, nobody

ASSUME NobodyIsNoOwner == None \notin Owner \cup [owner : Owner, until : Nat]
ASSUME LeasesLive == TTL \in Nat \ {0}

VARIABLES now,     \* the current unit
          lease    \* lease[s] : the row of scope s, or None

leaseVars == <<now, lease>>

LeaseRow == [owner : Owner, until : Nat]

LeaseTypeOK ==
    /\ now \in Nat
    /\ lease \in [Scope -> LeaseRow \cup {None}]

LeaseInit ==
    /\ now = 0
    /\ lease = [s \in Scope |-> None]

Expired(row) == row.until <= now

\* Every acquire first deletes the expired rows, those of other scopes too.
Swept == [s \in Scope |-> IF lease[s] # None /\ Expired(lease[s])
                          THEN None ELSE lease[s]]

\* INSERT, or the conditional UPDATE once the primary key refused it.
MayTake(o, s) == Swept[s] # None => Swept[s].owner = o

Acquire(o, s) ==
    /\ MayTake(o, s)
    /\ lease' = [Swept EXCEPT ![s] = [owner |-> o, until |-> now + TTL]]

Refused(o, s) ==
    /\ ~MayTake(o, s)
    /\ lease' = Swept

\* (A fault, for mutation checks: the DELETE without the owner.)
ReleaseUnchecked(o, s) == lease' = [lease EXCEPT ![s] = None]

Release(o, s) ==
    lease' = IF lease[s] # None /\ lease[s].owner = o
             THEN [lease EXCEPT ![s] = None] ELSE lease

Advance == now' = now + 1
=============================================================================
