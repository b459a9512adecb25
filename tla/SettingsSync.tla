---------------------------- MODULE SettingsSync ----------------------------
(***************************************************************************)
(* Portable settings kept on devices and on the server: the sync layer of  *)
(* the web client, apps/web/src/store/settings-sync.ts, the conflict store *)
(* and dialog, the account reset of lib/auth-reset.ts, and the handlers of *)
(* services/bff/src/lumirss/routers/settings.py over app_settings.py.      *)
(*                                                                         *)
(* Each await is a step: a handler of the server reads the stored row and  *)
(* its revision in separate statements, and a page goes on running while   *)
(* its requests are on the wire.  The revision is a hash of the row, so    *)
(* here it is the row.  A PATCH always carries every key.                  *)
(***************************************************************************)
EXTENDS Naturals, FiniteSets

CONSTANTS
  Device,      \* browsers, one tab each
  Account,
  Key,         \* portable settings
  Shade,       \* what an account can choose for a key
  Default,     \* the value of PORTABLE_DEFAULTS
  Absent,      \* a key the stored row does not have
  NoRow,       \* nothing stored; its revision is 0
  Unknown,     \* serverRevision = null
  Nobody,      \* no session cookie
  None,
  MaxEdits,    \* bound: changes by users
  MaxFaults,   \* bound: requests and replies lost, pages reloaded or hidden
  MaxSwitches  \* bound: log-outs

ASSUME BoundsAreNaturals ==
  MaxEdits \in Nat /\ MaxFaults \in Nat /\ MaxSwitches \in Nat
ASSUME MarkersAreDistinct ==
  /\ Default \notin Account \X Shade
  /\ Absent \notin (Account \X Shade) \cup {Default}
  /\ Nobody \notin Account

\* A value says which account chose it.
Value == (Account \X Shade) \cup {Default}
Choices(a) == ({a} \X Shade) \cup {Default}
Snapshot == [Key -> Value]
Row == [Key -> Value \cup {Absent}] \cup {NoRow}
Revision == Row \cup {Unknown}
Defaults == [k \in Key |-> Default]

VARIABLES
  row,        \* the stored document of each account
  cookie,     \* the account a device is logged in to
  status,     \* useAuthStore: checking, authenticated, unauthenticated
  settings,   \* useAppSettings and its copy in localStorage
  dirty,      \* dirtyKeys and their copy in localStorage
  timer,      \* debounceTimer is set
  queued,     \* queuedFlush
  rev,        \* serverRevision
  hydrated,   \* hydratedOk
  final,      \* flushedFinal
  conflict,   \* useSettingsConflict holds a snapshot, the dialog is up
  call,       \* the requests of a device
  pending,    \* history: changes the server has yet to store
  clean,      \* history: every switch of account found its device at rest
  edits, faults, switches

page == <<settings, dirty, timer, queued, rev, hydrated, final, conflict>>
bounds == <<edits, faults, switches>>
vars == <<row, cookie, status, page, call, pending, clean, bounds>>

(* The requests a page can have in the air: the chain of flush (`inFlight');*)
(* the hydration of the start and the one of a log-in; and one nobody waits *)
(* for: the keepalive of pagehide, or what a page left behind.              *)
Hydration == {"boot", "login"}
Slot == {"flush", "loose"} \cup Hydration
Call == [kind : {"none", "get", "patch"},
         at : {"idle", "sent", "checked", "answered"},
         cookie : Account \cup {Nobody}, body : Snapshot, base : Revision,
         sending : SUBSET Key, row : Row, revision : Revision,
         result : {"none", "ok", "conflict", "failed"}]
Idle == [kind |-> "none", at |-> "idle", cookie |-> Nobody,
         body |-> Defaults, base |-> Unknown, sending |-> {}, row |-> NoRow,
         revision |-> Unknown, result |-> "none"]

Change == [value : Value, during : {"quiet", "flush", "seed"}]

TypeOK ==
  /\ row \in [Account -> Row]
  /\ cookie \in [Device -> Account \cup {Nobody}]
  /\ status \in [Device -> {"checking", "authenticated", "unauthenticated"}]
  /\ settings \in [Device -> Snapshot]
  /\ dirty \in [Device -> SUBSET Key]
  /\ timer \in [Device -> BOOLEAN] /\ queued \in [Device -> BOOLEAN]
  /\ hydrated \in [Device -> BOOLEAN] /\ final \in [Device -> BOOLEAN]
  /\ rev \in [Device -> Revision]
  /\ conflict \in [Device -> BOOLEAN]
  /\ call \in [Device -> [Slot -> Call]]
  /\ pending \in [Device -> [Key -> Change \cup {None}]]
  /\ clean \in BOOLEAN
  /\ edits \in 0 .. MaxEdits /\ faults \in 0 .. MaxFaults
  /\ switches \in 0 .. MaxSwitches

-----------------------------------------------------------------------------
(* Requests. *)

Get(a) == [Idle EXCEPT !.kind = "get", !.at = "sent", !.cookie = a]

\* sendPatch: the snapshot s over base revision r; d is what flush remembers
\* of the dirty keys.
Patch(c, s, r, d) ==
  [Idle EXCEPT !.kind = "patch", !.at = "sent", !.cookie = cookie[c],
               !.body = s, !.base = r, !.sending = d]

InFlight(c) == call[c]["flush"] # Idle
SeedOut(c) == \E h \in Hydration : call[c][h].kind = "patch"
AtRest(c) == ~queued[c] /\ ~conflict[c]
             /\ \A s \in Slot : call[c][s] = Idle
Answered(c, s, kind, results) ==
  /\ call[c][s].kind = kind /\ call[c][s].at = "answered"
  /\ call[c][s].result \in results

\* flush, called when the page holds snapshot s, dirty keys d, revision r
\* and has its calls in the state q.
FlushWith(c, q, s, d, r) ==
  IF q["flush"] # Idle
  THEN /\ queued' = [queued EXCEPT ![c] = TRUE]
       /\ call' = [call EXCEPT ![c] = q]
  ELSE /\ call' = [call EXCEPT ![c] = [q EXCEPT !["flush"] = Patch(c, s, r, d)]]
       /\ UNCHANGED queued

\* Fault: inFlight is not cleared when the chain ends.
EndFlushStuck(c, d, r) == UNCHANGED <<queued, call>>

\* The finally clause of flush.
EndFlush(c, d, r) ==
  /\ queued' = [queued EXCEPT ![c] = FALSE]
  /\ call' = [call EXCEPT ![c]["flush"] =
                IF queued[c] THEN Patch(c, settings[c], r, d) ELSE Idle]

-----------------------------------------------------------------------------
(* The page. *)

\* The subscription of initSettingsSync.  A change is made `quiet' when no
\* PATCH is in the air whose success would be taken for its own.
Edit(c, k, v) ==
  /\ edits < MaxEdits /\ status[c] = "authenticated" /\ cookie[c] # Nobody
  /\ v \in Choices(cookie[c]) /\ v # settings[c][k]
  /\ settings' = [settings EXCEPT ![c][k] = v]
  /\ dirty' = [dirty EXCEPT ![c] = @ \cup {k}]
  /\ timer' = [timer EXCEPT ![c] = TRUE]
  /\ final' = [final EXCEPT ![c] = FALSE]
  /\ pending' = [pending EXCEPT ![c][k] =
       [value |-> v, during |-> IF SeedOut(c) THEN "seed"
                                ELSE IF k \in call[c]["flush"].sending
                                THEN "flush" ELSE "quiet"]]
  /\ edits' = edits + 1
  /\ UNCHANGED <<row, cookie, status, queued, rev, hydrated, conflict, call,
                 clean, faults, switches>>

\* scheduleFlush's timer.
DebounceFires(c) ==
  /\ timer[c]
  /\ timer' = [timer EXCEPT ![c] = FALSE]
  /\ FlushWith(c, call[c], settings[c], dirty[c], rev[c])
  /\ UNCHANGED <<row, cookie, status, settings, dirty, rev, hydrated, final,
                 conflict, pending, clean, bounds>>

\* onOnline, and the retry button of the account page: sendNow.
Online(c) ==
  /\ dirty[c] # {}
  /\ timer' = [timer EXCEPT ![c] = FALSE]
  /\ FlushWith(c, call[c], settings[c], dirty[c], rev[c])
  /\ UNCHANGED <<row, cookie, status, settings, dirty, rev, hydrated, final,
                 conflict, pending, clean, bounds>>

\* flush: the PATCH was saved.
FlushSaved(c) ==
  /\ Answered(c, "flush", "patch", {"ok"})
  /\ LET f == call[c]["flush"]
     IN  /\ rev' = [rev EXCEPT ![c] = f.revision]
         /\ dirty' = [dirty EXCEPT ![c] = @ \ f.sending]
         /\ EndFlush(c, dirty[c] \ f.sending, f.revision)
  /\ UNCHANGED <<row, cookie, status, settings, timer, hydrated, final,
                 conflict, pending, clean, bounds>>

\* flush: 409; the dialog needs the server's snapshot.
FlushRefused(c) ==
  /\ Answered(c, "flush", "patch", {"conflict"}) /\ rev[c] # Unknown
  /\ queued' = [queued EXCEPT ![c] = FALSE]
  /\ rev' = [rev EXCEPT ![c] = Unknown]
  /\ call' = [call EXCEPT ![c]["flush"] = Get(cookie[c])]
  /\ UNCHANGED <<row, cookie, status, settings, dirty, timer, hydrated, final,
                 conflict, pending, clean, bounds>>

\* reportSettingsConflict.
ConflictReported(c) ==
  /\ Answered(c, "flush", "get", {"ok"})
  /\ conflict' = [conflict EXCEPT ![c] = TRUE]
  /\ EndFlush(c, dirty[c], rev[c])
  /\ UNCHANGED <<row, cookie, status, settings, dirty, timer, rev, hydrated,
                 final, pending, clean, bounds>>

\* flush: anything else is silent and keeps the dirty keys.
FlushFailed(c) ==
  /\ \/ Answered(c, "flush", "patch", {"failed"})
     \/ Answered(c, "flush", "get", {"failed"})
     \/ Answered(c, "flush", "patch", {"conflict"}) /\ rev[c] = Unknown
  /\ EndFlush(c, dirty[c], rev[c])
  /\ UNCHANGED <<row, cookie, status, settings, dirty, timer, rev, hydrated,
                 final, conflict, pending, clean, bounds>>

\* hydrate: nothing stored, the local values become the seed.
SeedServer(c, h) ==
  /\ Answered(c, h, "get", {"ok"}) /\ call[c][h].row = NoRow
  /\ rev' = [rev EXCEPT ![c] = call[c][h].revision]
  /\ hydrated' = [hydrated EXCEPT ![c] = TRUE]
  /\ call' = [call EXCEPT ![c][h] =
                Patch(c, settings[c], call[c][h].revision, {})]
  /\ UNCHANGED <<row, cookie, status, settings, dirty, timer, queued, final,
                 conflict, pending, clean, bounds>>

SeedSaved(c, h) ==
  /\ Answered(c, h, "patch", {"ok"})
  /\ dirty' = [dirty EXCEPT ![c] = {}]
  /\ call' = [call EXCEPT ![c][h] = Idle]
  /\ UNCHANGED <<row, cookie, status, settings, timer, queued, rev, hydrated,
                 final, conflict, pending, clean, bounds>>

\* Fault: every stored key wins, over dirty ones too.
MergeDirty(c, h) ==
  LET r == call[c][h].row
  IN  /\ settings' = [settings EXCEPT ![c] = [k \in Key |->
                        IF r[k] # Absent THEN r[k] ELSE settings[c][k]]]
      /\ call' = [call EXCEPT ![c][h] = Idle]
      /\ UNCHANGED <<dirty, queued>>

\* Fault: the keys the server has never stored are taken as well.
MergeAbsent(c, h) ==
  LET r == call[c][h].row
  IN  /\ settings' = [settings EXCEPT ![c] = [k \in Key |->
                        IF k \in dirty[c] THEN settings[c][k] ELSE r[k]]]
      /\ call' = [call EXCEPT ![c][h] = Idle]
      /\ UNCHANGED <<dirty, queued>>

\* hydrate: the stored keys win, except over dirty ones; keys the server has
\* never had and that differ from their default become dirty.
Merge(c, h) ==
  LET r == call[c][h].row
      taken == {k \in Key \ dirty[c] : r[k] # Absent}
      seeds == {k \in Key \ (dirty[c] \cup taken) : settings[c][k] # Default}
      s == [k \in Key |-> IF k \in taken THEN r[k] ELSE settings[c][k]]
      d == dirty[c] \cup seeds
      q == [call[c] EXCEPT ![h] = Idle]
  IN  /\ settings' = [settings EXCEPT ![c] = s]
      /\ dirty' = [dirty EXCEPT ![c] = d]
      /\ IF d # {} THEN FlushWith(c, q, s, d, call[c][h].revision)
                   ELSE call' = [call EXCEPT ![c] = q] /\ UNCHANGED queued

HydrateMerges(c, h) ==
  /\ Answered(c, h, "get", {"ok"}) /\ call[c][h].row # NoRow
  /\ rev' = [rev EXCEPT ![c] = call[c][h].revision]
  /\ hydrated' = [hydrated EXCEPT ![c] = TRUE]
  /\ Merge(c, h)
  /\ UNCHANGED <<row, cookie, status, timer, final, conflict, pending, clean,
                 bounds>>

HydrateFails(c, h) ==
  /\ \/ Answered(c, h, "get", {"failed"})
     \/ Answered(c, h, "patch", {"failed", "conflict"})
  /\ call' = [call EXCEPT ![c][h] = Idle]
  /\ UNCHANGED <<row, cookie, status, page, pending, clean, bounds>>

\* onPageHide: what it sends, if the page is armed.
Keepalive(c) == Patch(c, settings[c], rev[c], {})
Armed(c) == timer[c] /\ ~final[c]

\* The page is hidden and comes back.
PageHide(c) ==
  /\ faults < MaxFaults /\ Armed(c)
  /\ final' = [final EXCEPT ![c] = TRUE]
  /\ call' = [call EXCEPT ![c]["loose"] = Keepalive(c)]
  /\ faults' = faults + 1
  /\ UNCHANGED <<row, cookie, status, settings, dirty, timer, queued, rev,
                 hydrated, conflict, pending, clean, edits, switches>>

\* The page is closed and opened again; at most one of its unanswered PATCHes
\* gets to the server, the others are cut off.  initSettingsSync.
Reload(c) ==
  /\ faults < MaxFaults
  /\ \E left \in {call[c]["loose"]}
          \cup {call[c][s] : s \in {t \in Slot :
                  call[c][t].kind = "patch" /\ call[c][t].at # "answered"}}
          \cup (IF Armed(c) THEN {Keepalive(c)} ELSE {}) :
       call' = [call EXCEPT ![c] =
         [s \in Slot |-> IF s = "loose" THEN left
                         ELSE IF s = "boot" THEN Get(cookie[c]) ELSE Idle]]
  /\ status' = [status EXCEPT ![c] = "checking"]
  /\ timer' = [timer EXCEPT ![c] = FALSE]
  /\ queued' = [queued EXCEPT ![c] = FALSE]
  /\ rev' = [rev EXCEPT ![c] = Unknown]
  /\ hydrated' = [hydrated EXCEPT ![c] = FALSE]
  /\ final' = [final EXCEPT ![c] = FALSE]
  /\ conflict' = [conflict EXCEPT ![c] = FALSE]
  /\ faults' = faults + 1
  /\ UNCHANGED <<row, cookie, settings, dirty, pending, clean, edits, switches>>

\* discardSettingsConflict.  The dialog's other way out, to submit a choice,
\* changes nothing: resolveSettingsConflict copies the view of the GET whole,
\* `stored', `storedKeys' and `revision' are no fields of
\* PortableSettingsPatch, which forbids others, and the 400 leaves the dialog
\* and everything else as it was.
Discard(c) ==
  /\ conflict[c]
  /\ conflict' = [conflict EXCEPT ![c] = FALSE]
  /\ UNCHANGED <<row, cookie, status, settings, dirty, timer, queued, rev,
                 hydrated, final, call, pending, clean, bounds>>

-----------------------------------------------------------------------------
(* Accounts. *)

\* Fault: the portable values are taken for preferences of the device.
ResetAccountKeepingValues(c) ==
  /\ dirty' = [dirty EXCEPT ![c] = {}]
  /\ timer' = [timer EXCEPT ![c] = FALSE]
  /\ final' = [final EXCEPT ![c] = FALSE]
  /\ rev' = [rev EXCEPT ![c] = Unknown]
  /\ pending' = [pending EXCEPT ![c] = [k \in Key |-> None]]
  /\ clean' = (clean /\ AtRest(c))
  /\ UNCHANGED <<settings, queued, conflict>>

\* resetAccountSettingsSync: what is in the air, queuedFlush and the conflict
\* store are left as they are.
ResetAccount(c) ==
  /\ settings' = [settings EXCEPT ![c] = Defaults]
  /\ dirty' = [dirty EXCEPT ![c] = {}]
  /\ timer' = [timer EXCEPT ![c] = FALSE]
  /\ final' = [final EXCEPT ![c] = FALSE]
  /\ rev' = [rev EXCEPT ![c] = Unknown]
  /\ pending' = [pending EXCEPT ![c] = [k \in Key |-> None]]
  /\ clean' = (clean /\ AtRest(c))
  /\ UNCHANGED <<queued, conflict>>

\* The probe of useAuthGate finds the session; a hydration that has yet to
\* succeed is tried again.
ProbeDone(c) ==
  /\ status[c] = "checking" /\ call[c]["login"] = Idle
  /\ status' = [status EXCEPT ![c] = IF cookie[c] = Nobody
                  THEN "unauthenticated" ELSE "authenticated"]
  /\ call' = IF cookie[c] = Nobody \/ hydrated[c] THEN call
             ELSE [call EXCEPT ![c]["login"] = Get(cookie[c])]
  /\ UNCHANGED <<row, cookie, page, pending, clean, bounds>>

\* performLogout.
Logout(c) ==
  /\ switches < MaxSwitches /\ status[c] = "authenticated"
  /\ status' = [status EXCEPT ![c] = "unauthenticated"]
  /\ cookie' = [cookie EXCEPT ![c] = Nobody]
  /\ ResetAccount(c)
  /\ hydrated' = [hydrated EXCEPT ![c] = FALSE]
  /\ switches' = switches + 1
  /\ UNCHANGED <<row, call, edits, faults>>

\* finishLogin; the turn of the status starts a hydration.
Login(c, a) ==
  /\ status[c] = "unauthenticated" /\ call[c]["login"] = Idle
  /\ status' = [status EXCEPT ![c] = "authenticated"]
  /\ cookie' = [cookie EXCEPT ![c] = a]
  /\ ResetAccount(c)
  /\ hydrated' = [hydrated EXCEPT ![c] = FALSE]
  /\ call' = [call EXCEPT ![c]["login"] = Get(a)]
  /\ UNCHANGED <<row, bounds>>

-----------------------------------------------------------------------------
(* The server.  What a step has no more use for is dropped from the call. *)

\* What becomes of request s of c; nobody hears of a loose one.
Served(c, s, new) ==
  call' = [call EXCEPT ![c][s] =
             IF s = "loose" /\ new.at = "answered" THEN Idle ELSE new]

Reply(q, result) ==
  [Idle EXCEPT !.kind = q.kind, !.at = "answered", !.cookie = q.cookie,
               !.sending = q.sending, !.result = result]
Saved(q, r) == [Reply(q, "ok") EXCEPT !.revision = r]

\* get_app_settings.
ServeGet(c, s) ==
  LET q == call[c][s]
  IN  /\ q.kind = "get" /\ q.at = "sent" /\ q.cookie # Nobody
      /\ Served(c, s, [Saved(q, row[q.cookie]) EXCEPT !.row = row[q.cookie]])
      /\ UNCHANGED <<row, cookie, status, page, pending, clean, bounds>>

\* patch_app_settings up to the comparison of the revisions.
ServeCheck(c, s) ==
  LET q == call[c][s]
  IN  /\ q.kind = "patch" /\ q.at = "sent" /\ q.cookie # Nobody
      /\ Served(c, s, IF q.base \in {Unknown, row[q.cookie]}
                      THEN [q EXCEPT !.at = "checked", !.base = Unknown]
                      ELSE Reply(q, "conflict"))
      /\ UNCHANGED <<row, cookie, status, page, pending, clean, bounds>>

\* AppSettingsStore.save.
ServeSave(c, s) ==
  LET q == call[c][s]
  IN  /\ q.at = "checked"
      /\ row' = [row EXCEPT ![q.cookie] = q.body]
      /\ Served(c, s, Saved(q, q.body))
      /\ pending' = [pending EXCEPT ![c] = [k \in Key |->
           IF /\ cookie[c] = q.cookie /\ @[k] # None
              /\ @[k].value = q.body[k] THEN None ELSE @[k]]]
      /\ UNCHANGED <<cookie, status, page, clean, bounds>>

\* document_revision is a statement of its own: the row may have changed
\* since the handler read or wrote it.
LaterRevision(c, s) ==
  LET q == call[c][s]
  IN  /\ q.result = "ok" /\ q.cookie # Nobody
      /\ q.revision # row[q.cookie]
      /\ call' = [call EXCEPT ![c][s].revision = row[q.cookie]]
      /\ UNCHANGED <<row, cookie, status, page, pending, clean, bounds>>

\* A request without a session.
ServeDenied(c, s) ==
  /\ call[c][s].at = "sent" /\ call[c][s].cookie = Nobody
  /\ Served(c, s, Reply(call[c][s], "failed"))
  /\ UNCHANGED <<row, cookie, status, page, pending, clean, bounds>>

\* A request or its answer is lost.
Lose(c, s) ==
  /\ faults < MaxFaults
  /\ call[c][s].at \in {"sent", "answered"} /\ call[c][s].result # "failed"
  /\ Served(c, s, Reply(call[c][s], "failed"))
  /\ faults' = faults + 1
  /\ UNCHANGED <<row, cookie, status, page, pending, clean, edits, switches>>

-----------------------------------------------------------------------------
Start(c) == [s \in Slot |-> IF s = "boot" THEN Get(cookie[c]) ELSE Idle]

\* A page starts with a session and with the settings of an earlier version
\* of the client; the server has a row, an older one with some keys (none of
\* them can be read when it is corrupt), or no row.
Init ==
  /\ row \in [Account -> {NoRow} \cup [Key -> {Default, Absent}]]
  /\ cookie \in [Device -> Account]
  /\ status = [c \in Device |-> "checking"]
  /\ settings \in [Device -> Snapshot]
  /\ \A c \in Device, k \in Key :
       settings[c][k] # Default => settings[c][k][1] = cookie[c]
  /\ dirty = [c \in Device |-> {}]
  /\ timer = [c \in Device |-> FALSE] /\ queued = [c \in Device |-> FALSE]
  /\ rev = [c \in Device |-> Unknown]
  /\ hydrated = [c \in Device |-> FALSE] /\ final = [c \in Device |-> FALSE]
  /\ conflict = [c \in Device |-> FALSE]
  /\ call = [c \in Device |-> Start(c)]
  /\ pending = [c \in Device |-> [k \in Key |-> None]]
  /\ clean = TRUE
  /\ edits = 0 /\ faults = 0 /\ switches = 0

Answer(c) ==
  \/ FlushSaved(c) \/ FlushRefused(c) \/ ConflictReported(c) \/ FlushFailed(c)
  \/ \E h \in Hydration : \/ SeedServer(c, h) \/ SeedSaved(c, h)
                          \/ HydrateMerges(c, h) \/ HydrateFails(c, h)

Serve(c) ==
  \E s \in Slot : \/ ServeGet(c, s) \/ ServeCheck(c, s) \/ ServeSave(c, s)
                  \/ LaterRevision(c, s) \/ ServeDenied(c, s)

User(c) ==
  \/ \E k \in Key, v \in Value : Edit(c, k, v)
  \/ Discard(c) \/ PageHide(c) \/ Reload(c) \/ Logout(c)
  \/ \E a \in Account : Login(c, a)

Next ==
  \E c \in Device :
    \/ User(c) \/ Answer(c) \/ Serve(c) \/ DebounceFires(c) \/ Online(c)
    \/ ProbeDone(c) \/ \E s \in Slot : Lose(c, s)

Spec == Init /\ [][Next]_vars

\* The page goes on while it has a timer, an answer or the probe to handle, and
\* the server while it has a request.  Nothing makes the browser report that it
\* is online, or the user press the retry button.
Fairness ==
  \A c \in Device :
    /\ WF_vars(Answer(c) \/ DebounceFires(c) \/ ProbeDone(c))
    /\ WF_vars(\E s \in Slot : \/ ServeGet(c, s) \/ ServeCheck(c, s)
                               \/ ServeSave(c, s) \/ ServeDenied(c, s))

FairSpec == Spec /\ Fairness

-----------------------------------------------------------------------------
(* Properties. *)

Quiet(c, k) == pending[c][k] # None /\ pending[c][k].during = "quiet"

\* A change made in quiet is remembered, and its value is the one on screen,
\* until the server has stored it: no lost reply, refusal, hydration, reload
\* or later PATCH makes the client forget what it has yet to deliver.
QuietEditStaysPending ==
  \A c \in Device, k \in Key :
    Quiet(c, k) => k \in dirty[c] /\ settings[c][k] = pending[c][k].value

\* When devices are at rest at each switch of account, none shows under one
\* account what was chosen under another.
QuietSwitchIsClean ==
  \A c \in Device, k \in Key :
    clean /\ settings[c][k] # Default => settings[c][k][1] = cookie[c]

\* A change that the debounce timer, the queue or a flush has in hand.
Underway(c) == timer[c] \/ queued[c] \/ InFlight(c)

\* A change made in quiet and on its way gets to the server, or before the
\* user: in the dialog or, but only after something was lost or the page went
\* away, as a change that is counted as waiting and that the retry button
\* sends again.  No chain of flushes and refusals goes on for ever, or stops
\* with the change in the air.
QuietEditSettles ==
  \A c \in Device, k \in Key :
    Quiet(c, k) /\ Underway(c) ~>
      \/ ~Quiet(c, k) \/ conflict[c]
      \/ faults > 0 /\ k \in dirty[c] /\ ~Underway(c)

\* The comment on flush: dirty keys are cleared when they are stored, and kept
\* on failure.  So whatever the server has yet to store is dirty or on its way
\* (changes made while the first seed is out are another matter).
EditStaysPending ==
  \A c \in Device, k \in Key :
    pending[c][k] # None /\ pending[c][k].during # "seed" =>
      k \in dirty[c] \/ Underway(c)

\* The comment on flush and the title of the dialog: a 409 means that another
\* device has written.
\* Refuted by a device's own seed; not run, see the README.
ConflictMeansOtherDevice == \A c \in Device : conflict[c] => Device # {c}

=============================================================================
