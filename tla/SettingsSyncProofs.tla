------------------------- MODULE SettingsSyncProofs -------------------------
(***************************************************************************)
(* Proofs about SettingsSync: its types, that a change made in quiet stays *)
(* pending, and that quiet switches of account are clean.                  *)
(***************************************************************************)
EXTENDS SettingsSync, TLAPS

-----------------------------------------------------------------------------
(* What the operators on calls return. *)

LEMMA IdleType == Idle \in Call /\ Defaults \in Snapshot
  BY DEF Idle, Call, Defaults, Snapshot, Value, Revision, Row

LEMMA PatchType ==
    ASSUME NEW c \in Device, cookie \in [Device -> Account \cup {Nobody}],
           NEW s \in Snapshot, NEW r \in Revision, NEW d \in SUBSET Key
    PROVE  /\ Patch(c, s, r, d) \in Call
           /\ Patch(c, s, r, d).kind = "patch"
           /\ Patch(c, s, r, d).at = "sent"
           /\ Patch(c, s, r, d).cookie = cookie[c]
           /\ Patch(c, s, r, d).body = s
           /\ Patch(c, s, r, d).sending = d
           /\ Patch(c, s, r, d).row = NoRow
  BY IdleType DEF Patch, Idle, Call

LEMMA GetType ==
    ASSUME NEW a \in Account \cup {Nobody}
    PROVE  /\ Get(a) \in Call
           /\ Get(a).kind = "get" /\ Get(a).at = "sent"
           /\ Get(a).cookie = a /\ Get(a).sending = {}
           /\ Get(a).body = Defaults /\ Get(a).row = NoRow
  BY IdleType DEF Get, Idle, Call

LEMMA ReplyType ==
    ASSUME NEW q \in Call, q.at # "idle",
           NEW result \in {"ok", "conflict", "failed"}
    PROVE  /\ Reply(q, result) \in Call
           /\ Reply(q, result).kind = q.kind
           /\ Reply(q, result).at = "answered"
           /\ Reply(q, result).cookie = q.cookie
           /\ Reply(q, result).sending = q.sending
           /\ Reply(q, result).body = Defaults
           /\ Reply(q, result).row = NoRow
           /\ Reply(q, result).result = result
  BY IdleType DEF Reply, Idle, Call

LEMMA SavedType ==
    ASSUME NEW q \in Call, q.at # "idle", NEW r \in Row
    PROVE  LET w == Saved(q, r)
           IN  /\ w \in Call /\ w.kind = q.kind /\ w.at = "answered"
               /\ w.cookie = q.cookie /\ w.sending = q.sending
               /\ w.body = Defaults /\ w.row = NoRow /\ w.result = "ok"
<1> DEFINE w == Saved(q, r)
<1> DEFINE y == Reply(q, "ok")
<1>1. y \in Call /\ r \in Revision
  BY ReplyType DEF Revision
<1>2. w = [y EXCEPT !.revision = r]
  BY DEF Saved
<1>3. /\ w \in Call /\ w.kind = y.kind /\ w.at = y.at /\ w.cookie = y.cookie
      /\ w.sending = y.sending /\ w.body = y.body /\ w.row = y.row
      /\ w.result = y.result
  <2> HIDE DEF y
  <2> QED  BY <1>1, <1>2 DEF Call
<1> QED  BY <1>3, ReplyType

\* The reply to a GET carries the row.
LEMMA RowReplyType ==
    ASSUME NEW q \in Call, q.at # "idle", NEW r \in Row, NEW m \in Row
    PROVE  LET z == [Saved(q, r) EXCEPT !.row = m]
           IN  /\ z \in Call /\ z.kind = q.kind /\ z.at = "answered"
               /\ z.cookie = q.cookie /\ z.sending = q.sending
               /\ z.body = Defaults /\ z.row = m /\ z.result = "ok"
<1> DEFINE w == Saved(q, r)
<1>1. /\ w \in Call /\ w.kind = q.kind /\ w.at = "answered"
      /\ w.cookie = q.cookie /\ w.sending = q.sending
      /\ w.body = Defaults /\ w.result = "ok"
  BY SavedType
<1> HIDE DEF w
<1>2. LET z == [w EXCEPT !.row = m]
      IN  /\ z \in Call /\ z.kind = w.kind /\ z.at = w.at
          /\ z.cookie = w.cookie /\ z.sending = w.sending
          /\ z.body = w.body /\ z.row = m /\ z.result = w.result
  BY <1>1 DEF Call
<1> QED  BY <1>1, <1>2 DEF w

\* The reply to a PATCH that was saved.
LEMMA SaveReplyType ==
    ASSUME NEW q \in Call, q.at # "idle"
    PROVE  LET x == Saved(q, q.body)
           IN  /\ x \in Call /\ x.kind = q.kind /\ x.at = "answered"
               /\ x.sending = q.sending /\ x.cookie = q.cookie
               /\ x.body = Defaults /\ x.row = NoRow
<1>1. q.body \in Snapshot
  BY DEF Call
<1>2. q.body \in Row
  BY <1>1 DEF Snapshot, Row
<1> QED
  BY <1>2, SavedType

LEMMA PutSlot ==
    ASSUME call \in [Device -> [Slot -> Call]],
           NEW c \in Device, NEW s \in Slot, NEW x \in Call,
           call' = [call EXCEPT ![c][s] = x]
    PROVE  /\ call' \in [Device -> [Slot -> Call]]
           /\ call'[c][s] = x
           /\ \A t \in Slot \ {s} : call'[c][t] = call[c][t]
           /\ \A d \in Device \ {c} : call'[d] = call[d]
  OBVIOUS

-----------------------------------------------------------------------------
(* Types. *)

\* Everything but the calls.
RestOK ==
  /\ row \in [Account -> Row]
  /\ cookie \in [Device -> Account \cup {Nobody}]
  /\ status \in [Device -> {"checking", "authenticated", "unauthenticated"}]
  /\ settings \in [Device -> Snapshot]
  /\ dirty \in [Device -> SUBSET Key]
  /\ timer \in [Device -> BOOLEAN] /\ queued \in [Device -> BOOLEAN]
  /\ hydrated \in [Device -> BOOLEAN] /\ final \in [Device -> BOOLEAN]
  /\ rev \in [Device -> Revision]
  /\ conflict \in [Device -> BOOLEAN]
  /\ pending \in [Device -> [Key -> Change \cup {None}]]
  /\ clean \in BOOLEAN
  /\ edits \in 0 .. MaxEdits /\ faults \in 0 .. MaxFaults
  /\ switches \in 0 .. MaxSwitches
CallOK == call \in [Device -> [Slot -> Call]]

LEMMA TypeSplit == TypeOK <=> RestOK /\ CallOK
  BY DEF TypeOK, RestOK, CallOK

\* What flush does to the calls of c, which are q when it is called.
LEMMA FlushWithType ==
    ASSUME CallOK, RestOK, NEW c \in Device, NEW q \in [Slot -> Call],
           NEW s \in Snapshot, NEW d \in SUBSET Key, NEW r \in Revision,
           FlushWith(c, q, s, d, r)
    PROVE  /\ CallOK' /\ queued' \in [Device -> BOOLEAN]
           /\ \A e \in Device \ {c} : call'[e] = call[e]
           /\ \A t \in Slot \ {"flush"} : call'[c][t] = q[t]
           /\ call'[c]["flush"] \in {q["flush"], Patch(c, s, r, d)}
<1>1. Patch(c, s, r, d) \in Call
  BY PatchType DEF RestOK
<1>2. "flush" \in Slot
  BY DEF Slot
<1> DEFINE p == Patch(c, s, r, d)
<1>3. CASE q["flush"] # Idle
  BY <1>2, <1>3 DEF FlushWith, CallOK, RestOK
<1>4. CASE q["flush"] = Idle
  <2>1. /\ call' = [call EXCEPT ![c] = [q EXCEPT !["flush"] = p]]
        /\ queued' = queued
    BY <1>4 DEF FlushWith
  <2>2. [q EXCEPT !["flush"] = p] \in [Slot -> Call]
    BY <1>1
  <2> HIDE DEF p
  <2>3. call'[c] = [q EXCEPT !["flush"] = p]
    BY <2>1 DEF CallOK
  <2>4. /\ CallOK' /\ queued' \in [Device -> BOOLEAN]
        /\ \A e \in Device \ {c} : call'[e] = call[e]
    BY <2>1, <2>2 DEF CallOK, RestOK
  <2>5. /\ \A t \in Slot \ {"flush"} : call'[c][t] = q[t]
        /\ call'[c]["flush"] = p
    BY <1>2, <2>3
  <2> QED
    BY <2>4, <2>5 DEF p
<1> QED
  BY <1>3, <1>4

LEMMA EndFlushType ==
    ASSUME CallOK, RestOK, NEW c \in Device, NEW d \in SUBSET Key,
           NEW r \in Revision, EndFlush(c, d, r)
    PROVE  /\ CallOK' /\ queued' \in [Device -> BOOLEAN]
           /\ \A e \in Device \ {c} : call'[e] = call[e]
           /\ \A t \in Slot \ {"flush"} : call'[c][t] = call[c][t]
           /\ call'[c]["flush"] \in {Idle, Patch(c, settings[c], r, d)}
<1> DEFINE x == IF queued[c] THEN Patch(c, settings[c], r, d) ELSE Idle
<1>1. Patch(c, settings[c], r, d) \in Call /\ Idle \in Call
  BY PatchType, IdleType DEF RestOK
<1>2. /\ x \in Call /\ x \in {Idle, Patch(c, settings[c], r, d)}
      /\ "flush" \in Slot
  BY <1>1 DEF Slot
<1>3. /\ call' = [call EXCEPT ![c]["flush"] = x]
      /\ queued' = [queued EXCEPT ![c] = FALSE]
  BY DEF EndFlush
<1> HIDE DEF x
<1>4. queued' \in [Device -> BOOLEAN]
  BY <1>3 DEF RestOK
<1> QED
  BY <1>2, <1>3, <1>4, PutSlot DEF CallOK

LEMMA KeepaliveType ==
    ASSUME RestOK, NEW c \in Device
    PROVE  /\ Keepalive(c) \in Call /\ Keepalive(c).cookie = cookie[c]
           /\ Keepalive(c).body = settings[c] /\ Keepalive(c).row = NoRow
<1>1. /\ settings[c] \in Snapshot /\ rev[c] \in Revision
      /\ cookie \in [Device -> Account \cup {Nobody}]
  BY DEF RestOK
<1>2. {} \in SUBSET Key
  OBVIOUS
<1> QED
  BY <1>1, <1>2, PatchType DEF Keepalive

\* One call.
LEMMA CallType ==
    ASSUME CallOK, NEW c \in Device, NEW s \in Slot
    PROVE  call[c][s] \in Call /\ call[c] \in [Slot -> Call]
  BY DEF CallOK

\* What the server makes of a call.
LEMMA ServedType ==
    ASSUME CallOK, NEW c \in Device, NEW s \in Slot, NEW x \in Call,
           Served(c, s, x)
    PROVE  /\ CallOK'
           /\ \A e \in Device \ {c} : call'[e] = call[e]
           /\ \A t \in Slot \ {s} : call'[c][t] = call[c][t]
           /\ call'[c][s] \in {x, Idle}
           /\ s # "loose" => call'[c][s] = x
  BY IdleType DEF Served, CallOK

LEMMA InitType == Init => TypeOK
<1> SUFFICES ASSUME Init PROVE RestOK /\ CallOK
  BY TypeSplit
<1>1. \A c \in Device : Start(c) \in [Slot -> Call]
  BY IdleType, GetType DEF Start, Init
<1>2. CallOK
  BY <1>1 DEF Init, CallOK
<1>3. Unknown \in Revision /\ \A r \in [Key -> {Default, Absent}] : r \in Row
  BY DEF Revision, Row, Value
<1>4. row \in [Account -> Row]
  BY <1>3 DEF Init, Row
<1>5. /\ rev \in [Device -> Revision]
      /\ pending \in [Device -> [Key -> Change \cup {None}]]
      /\ cookie \in [Device -> Account \cup {Nobody}]
  BY <1>3 DEF Init
<1>6. RestOK
  BY <1>4, <1>5, BoundsAreNaturals DEF Init, RestOK
<1> QED
  BY <1>2, <1>6

LEMMA StepType == TypeOK /\ [Next]_vars => TypeOK'
<1> SUFFICES ASSUME RestOK, CallOK, [Next]_vars PROVE RestOK' /\ CallOK'
  BY TypeSplit, PTL
<1> USE CallType, BoundsAreNaturals
<1>1. Unknown \in Revision /\ Idle \in Call /\ Defaults \in Snapshot
  BY IdleType DEF Revision
<1>2. CASE UNCHANGED vars
  BY <1>2 DEF vars, page, bounds, RestOK, CallOK
<1>3. ASSUME NEW c \in Device, NEW k \in Key, NEW v \in Value, Edit(c, k, v)
      PROVE  RestOK' /\ CallOK'
  BY <1>3 DEF Edit, RestOK, CallOK, Snapshot, Change
<1>4. ASSUME NEW c \in Device, DebounceFires(c) \/ Online(c)
      PROVE  RestOK' /\ CallOK'
  <2>1. FlushWith(c, call[c], settings[c], dirty[c], rev[c])
    BY <1>4 DEF DebounceFires, Online
  <2>2. /\ call[c] \in [Slot -> Call] /\ settings[c] \in Snapshot
        /\ dirty[c] \in SUBSET Key /\ rev[c] \in Revision
    BY DEF RestOK, CallOK
  <2>3. CallOK' /\ queued' \in [Device -> BOOLEAN]
    BY <2>1, <2>2, FlushWithType
  <2> QED
    BY <1>4, <2>3 DEF DebounceFires, Online, RestOK, bounds
<1>5. ASSUME NEW c \in Device, FlushSaved(c) \/ ConflictReported(c) \/ FlushFailed(c)
      PROVE  RestOK' /\ CallOK'
  <2> DEFINE f == call[c]["flush"]
  <2>1. f \in Call /\ f.revision \in Revision /\ f.sending \in SUBSET Key
    BY DEF Slot, Call
  <2>2. CASE FlushSaved(c)
    <3>1. CallOK' /\ queued' \in [Device -> BOOLEAN]
      BY <2>1, <2>2, EndFlushType DEF FlushSaved, RestOK
    <3> QED
      BY <2>1, <2>2, <3>1 DEF FlushSaved, RestOK, bounds
  <2>3. CASE ConflictReported(c) \/ FlushFailed(c)
    <3>1. CallOK' /\ queued' \in [Device -> BOOLEAN]
      BY <2>3, EndFlushType DEF ConflictReported, FlushFailed, RestOK
    <3> QED
      BY <2>3, <3>1 DEF ConflictReported, FlushFailed, RestOK, bounds
  <2> QED
    BY <1>5, <2>2, <2>3
<1>6. ASSUME NEW c \in Device, FlushRefused(c)
      PROVE  RestOK' /\ CallOK'
  <2>1. "flush" \in Slot /\ Get(cookie[c]) \in Call
    BY GetType DEF RestOK, Slot
  <2>2. CallOK'
    BY <1>6, <2>1, PutSlot DEF FlushRefused, CallOK
  <2> QED
    BY <1>1, <1>6, <2>2 DEF FlushRefused, RestOK, bounds
<1>7. ASSUME NEW c \in Device, NEW h \in Hydration, SeedServer(c, h)
      PROVE  RestOK' /\ CallOK'
  <2>1. h \in Slot /\ call[c][h].revision \in Revision
    <3>1. h \in Slot
      BY DEF Slot
    <3>2. call[c][h] \in Call
      BY <3>1
    <3> QED
      BY <3>1, <3>2 DEF Call
  <2>2. Patch(c, settings[c], call[c][h].revision, {}) \in Call
    BY <2>1, PatchType, SMTT(20) DEF RestOK
  <2>3. CallOK'
    BY <1>7, <2>1, <2>2, PutSlot DEF SeedServer, CallOK
  <2> QED
    BY <1>7, <2>1, <2>3 DEF SeedServer, RestOK, bounds
<1>8. ASSUME NEW c \in Device, NEW h \in Hydration,
             SeedSaved(c, h) \/ HydrateFails(c, h)
      PROVE  RestOK' /\ CallOK'
  <2>1. CallOK'
    BY <1>1, <1>8, PutSlot DEF SeedSaved, HydrateFails, CallOK, Slot
  <2> QED
    BY <1>8, <2>1 DEF SeedSaved, HydrateFails, RestOK, bounds, page
<1>9. ASSUME NEW c \in Device, NEW h \in Hydration, HydrateMerges(c, h)
      PROVE  RestOK' /\ CallOK'
  <2>1. /\ h \in Slot /\ call[c][h].revision \in Revision
        /\ call[c][h].row \in [Key -> Value \cup {Absent}]
    BY <1>9 DEF HydrateMerges, Slot, Call, Row
  <2> DEFINE r == call[c][h].row
             taken == {k \in Key \ dirty[c] : r[k] # Absent}
             seeds == {k \in Key \ (dirty[c] \cup taken) :
                         settings[c][k] # Default}
             s == [k \in Key |-> IF k \in taken THEN r[k] ELSE settings[c][k]]
             d == dirty[c] \cup seeds
             q == [call[c] EXCEPT ![h] = Idle]
  <2>2. s \in Snapshot /\ d \in SUBSET Key /\ q \in [Slot -> Call]
    <3>1. settings[c] \in [Key -> Value] /\ dirty[c] \subseteq Key
      BY DEF RestOK, Snapshot
    <3>2. \A k \in Key : s[k] \in Value
      BY <2>1, <3>1
    <3>3. q \in [Slot -> Call]
      BY <1>1, <2>1
    <3> QED
      BY <3>1, <3>2, <3>3 DEF Snapshot
  <2>3. /\ settings' = [settings EXCEPT ![c] = s]
        /\ dirty' = [dirty EXCEPT ![c] = d]
        /\ IF d # {} THEN FlushWith(c, q, s, d, call[c][h].revision)
                     ELSE call' = [call EXCEPT ![c] = q] /\ UNCHANGED queued
    BY <1>9 DEF HydrateMerges, Merge
  <2> HIDE DEF s, d, q
  <2>4. CallOK' /\ queued' \in [Device -> BOOLEAN]
    <3>1. CASE d # {}
      BY <2>1, <2>2, <2>3, <3>1, FlushWithType
    <3>2. CASE d = {}
      BY <2>2, <2>3, <3>2 DEF CallOK, RestOK
    <3> QED  BY <3>1, <3>2
  <2> QED
    BY <1>9, <2>1, <2>2, <2>3, <2>4 DEF HydrateMerges, RestOK, bounds
<1>10. ASSUME NEW c \in Device, PageHide(c)
       PROVE  RestOK' /\ CallOK'
  <2>1. Keepalive(c) \in Call
    BY KeepaliveType
  <2>2. CallOK'
    BY <1>10, <2>1, PutSlot DEF PageHide, CallOK, Slot
  <2> QED
    BY <1>10, <2>2 DEF PageHide, RestOK
<1>11. ASSUME NEW c \in Device, Reload(c)
       PROVE  RestOK' /\ CallOK'
  <2>1. PICK left \in {call[c]["loose"]}
          \cup {call[c][s] : s \in {t \in Slot :
                  call[c][t].kind = "patch" /\ call[c][t].at # "answered"}}
          \cup (IF Armed(c) THEN {Keepalive(c)} ELSE {}) :
          call' = [call EXCEPT ![c] =
            [s \in Slot |-> IF s = "loose" THEN left
                            ELSE IF s = "boot" THEN Get(cookie[c]) ELSE Idle]]
    BY <1>11 DEF Reload
  <2>2. left \in Call
    <3>1. Keepalive(c) \in Call
      BY KeepaliveType
    <3>2. \/ \E s \in Slot : left = call[c][s]
          \/ left = Keepalive(c)
      BY <2>1 DEF Slot
    <3> QED
      BY <3>1, <3>2
  <2>3. CallOK'
    BY <1>1, <2>1, <2>2, GetType DEF CallOK, RestOK
  <2> QED
    BY <1>1, <1>11, <2>3 DEF Reload, RestOK
<1>12. ASSUME NEW c \in Device, Discard(c)
       PROVE  RestOK' /\ CallOK'
  BY <1>12 DEF Discard, RestOK, CallOK, bounds
<1>13. ASSUME NEW c \in Device, ProbeDone(c)
       PROVE  RestOK' /\ CallOK'
  <2>1. CallOK'
    BY <1>13, GetType, PutSlot DEF ProbeDone, CallOK, RestOK, Slot, Hydration
  <2> QED
    BY <1>13, <2>1 DEF ProbeDone, RestOK, page, bounds
<1>14. ASSUME NEW c \in Device, Logout(c)
       PROVE  RestOK' /\ CallOK'
  BY <1>1, <1>14 DEF Logout, ResetAccount, RestOK, CallOK, AtRest
<1>15. ASSUME NEW c \in Device, NEW a \in Account, Login(c, a)
       PROVE  RestOK' /\ CallOK'
  <2>1. CallOK'
    BY <1>15, GetType, PutSlot DEF Login, CallOK, Slot, Hydration
  <2> QED
    BY <1>1, <1>15, <2>1 DEF Login, ResetAccount, RestOK, AtRest, bounds
<1>16. ASSUME NEW c \in Device, NEW s \in Slot, ServeGet(c, s)
       PROVE  RestOK' /\ CallOK'
  <2>1. CASE call[c][s].at # "idle" /\ call[c][s].cookie \in Account
    <3>1. [Saved(call[c][s], row[call[c][s].cookie])
             EXCEPT !.row = row[call[c][s].cookie]] \in Call
      BY <2>1, RowReplyType DEF RestOK
    <3>2. CallOK'
      BY <1>16, <3>1, ServedType DEF ServeGet
    <3> QED
      BY <1>16, <3>2 DEF ServeGet, RestOK, page, bounds
  <2> QED
    BY <1>16, <2>1 DEF ServeGet, Call
<1>17. ASSUME NEW c \in Device, NEW s \in Slot, ServeCheck(c, s)
       PROVE  RestOK' /\ CallOK'
  <2> DEFINE q == call[c][s]
             x == [q EXCEPT !.at = "checked", !.base = Unknown]
  <2>1. q \in Call /\ q.at = "sent"
    BY <1>17 DEF ServeCheck
  <2>2. x \in Call /\ Reply(q, "conflict") \in Call
    BY <1>1, <2>1, ReplyType DEF Call
  <2>3. CallOK'
    <3>1. Served(c, s, x) \/ Served(c, s, Reply(q, "conflict"))
      BY <1>17 DEF ServeCheck
    <3> QED
      BY <2>2, <3>1, ServedType
  <2> QED
    BY <1>17, <2>3 DEF ServeCheck, RestOK, page, bounds
<1>18. ASSUME NEW c \in Device, NEW s \in Slot, ServeSave(c, s)
       PROVE  RestOK' /\ CallOK'
  <2> DEFINE q == call[c][s]
  <2>1. q \in Call /\ q.at # "idle" /\ q.body \in Row /\ q.body \in Snapshot
    BY <1>18 DEF ServeSave, Call, Snapshot, Row
  <2>2. CallOK'
    BY <1>18, <2>1, SaveReplyType, ServedType DEF ServeSave
  <2>3. row' \in [Account -> Row]
    BY <1>18, <2>1 DEF ServeSave, RestOK
  <2>4. pending' \in [Device -> [Key -> Change \cup {None}]]
    BY <1>18 DEF ServeSave, RestOK
  <2> QED
    BY <1>18, <2>2, <2>3, <2>4 DEF ServeSave, RestOK, page, bounds
<1>19. ASSUME NEW c \in Device, NEW s \in Slot, LaterRevision(c, s)
       PROVE  RestOK' /\ CallOK'
  <2> DEFINE q == call[c][s]
  <2>1. q \in Call /\ row[q.cookie] \in Revision
    BY <1>19 DEF LaterRevision, Call, RestOK, Revision
  <2>2. [q EXCEPT !.revision = row[q.cookie]] \in Call
    BY <2>1 DEF Call
  <2>3. CallOK'
    BY <1>19, <2>2, PutSlot DEF LaterRevision, CallOK
  <2> QED
    BY <1>19, <2>3 DEF LaterRevision, RestOK, page, bounds
<1>20. ASSUME NEW c \in Device, NEW s \in Slot,
              ServeDenied(c, s) \/ Lose(c, s)
       PROVE  RestOK' /\ CallOK'
  <2>1. Reply(call[c][s], "failed") \in Call
    BY <1>20, ReplyType DEF ServeDenied, Lose
  <2>2. CallOK'
    BY <1>20, <2>1, ServedType DEF ServeDenied, Lose
  <2> QED
    BY <1>20, <2>2 DEF ServeDenied, Lose, RestOK, page, bounds
<1> QED
  BY <1>2, <1>3, <1>4, <1>5, <1>6, <1>7, <1>8, <1>9, <1>10, <1>11, <1>12,
     <1>13, <1>14, <1>15, <1>16, <1>17, <1>18,
     <1>19, <1>20 DEF Next, User, Answer, Serve

\* Device, server, requests and dialog keep their types (settings-sync.ts,
\* routers/settings.py).
THEOREM TypeCorrect == Spec => []TypeOK
<1>1. TypeOK /\ [Next]_vars => TypeOK'
  BY StepType
<1> QED
  BY InitType, <1>1, PTL DEF Spec

-----------------------------------------------------------------------------
(* A change made in quiet stays pending.  The invariant behind it: a PATCH  *)
(* whose success would clear the key of such a change carries its value, or *)
(* will not succeed; once it is saved the change is pending no more.        *)

\* The success of call q of c in slot s would make key k clean.
Clears(s, q, k) ==
  IF s = "flush" THEN k \in q.sending ELSE s \in Hydration /\ q.kind = "patch"

OnItsWay(c, k, q) ==
  /\ q.kind = "patch"
  /\ \/ /\ q.at \in {"sent", "checked"} /\ q.cookie = cookie[c]
        /\ q.body[k] = pending[c][k].value
     \/ q.at = "answered" /\ q.result \in {"failed", "conflict"}

Kept(c, k) == k \in dirty[c] /\ settings[c][k] = pending[c][k].value

DeliveryOf(c) ==
  \A k \in Key : Quiet(c, k) =>
    /\ Kept(c, k)
    /\ \A s \in Slot : Clears(s, call[c][s], k) => OnItsWay(c, k, call[c][s])

Delivery == \A c \in Device : DeliveryOf(c)

\* A device a step does not touch.
LEMMA Untouched ==
    ASSUME NEW d \in Device, DeliveryOf(d), dirty'[d] = dirty[d],
           settings'[d] = settings[d], pending'[d] = pending[d],
           cookie'[d] = cookie[d], call'[d] = call[d]
    PROVE  DeliveryOf(d)'
  BY DEF DeliveryOf, Quiet, Kept, Clears, OnItsWay

\* Call q of c carries the dirty settings of c as they are.
Fresh(c, q) == /\ q.kind = "patch" /\ q.at = "sent" /\ q.cookie = cookie[c]
               /\ \A k \in dirty[c] : q.body[k] = settings[c][k]

\* What may become of call q of c while no change is made or stored.
Advance(c, q, new) ==
  \/ new = q
  \/ new.kind # "patch" /\ new.sending = {}
  \/ Fresh(c, new)
  \/ /\ new.kind = q.kind /\ new.sending = q.sending
     /\ \/ /\ new.at = "checked" /\ q.at = "sent"
           /\ new.cookie = q.cookie /\ new.body = q.body
        \/ /\ new.at = "answered"
           /\ new.result \in {"failed", "conflict"} \/ new.kind # "patch"
        \/ /\ new.at = q.at /\ new.result = q.result
           /\ new.cookie = q.cookie /\ new.body = q.body

Advances(c) ==
  \A s \in Slot \ {"loose"} : Advance(c, call[c][s], call'[c][s])

LEMMA Carried ==
    ASSUME NEW c \in Device, DeliveryOf(c), pending'[c] = pending[c],
           cookie'[c] = cookie[c], Advances(c),
           \A k \in Key : Quiet(c, k) =>
             k \in dirty'[c] /\ settings'[c][k] = settings[c][k]
    PROVE  DeliveryOf(c)'
<1> SUFFICES ASSUME NEW k \in Key, Quiet(c, k)'
             PROVE  /\ Kept(c, k)'
                    /\ \A s \in Slot : Clears(s, call'[c][s], k)
                                         => OnItsWay(c, k, call[c][s])'
  BY DEF DeliveryOf, Clears
<1>1. Quiet(c, k) /\ Kept(c, k)
  BY DEF Quiet, DeliveryOf
<1>2. Kept(c, k)'
  BY <1>1 DEF Kept
<1>3. ASSUME NEW s \in Slot, Clears(s, call'[c][s], k)
      PROVE  OnItsWay(c, k, call[c][s])'
  <2> DEFINE q == call[c][s]
             new == call'[c][s]
  <2>1. Clears(s, q, k) => OnItsWay(c, k, q)
    BY <1>1 DEF DeliveryOf
  <2>2. Advance(c, q, new)
    BY <1>3 DEF Advances, Clears, Hydration
  <2>3. CASE new = q
    BY <1>3, <2>1, <2>3 DEF OnItsWay
  <2>4. CASE new.kind # "patch" /\ new.sending = {}
    BY <1>3, <2>4 DEF Clears
  <2>5. CASE Fresh(c, new)
    BY <1>1, <2>5 DEF Fresh, OnItsWay, Kept
  <2>6. CASE new.kind = q.kind /\ new.sending = q.sending /\ new # q
             /\ ~Fresh(c, new)
    <3>1. Clears(s, q, k)
      BY <1>3, <2>6 DEF Clears
    <3> QED
      BY <2>1, <2>2, <2>6, <3>1 DEF Advance, OnItsWay, Clears
  <2> QED
    BY <2>2, <2>3, <2>4, <2>5, <2>6 DEF Advance
<1> QED
  BY <1>2, <1>3

LEMMA PatchIsFresh ==
    ASSUME RestOK, NEW c \in Device, NEW s \in Snapshot,
           NEW r \in Revision, NEW d \in SUBSET Key,
           \A k \in dirty[c] : s[k] = settings[c][k]
    PROVE  Fresh(c, Patch(c, s, r, d))
<1> DEFINE p == Patch(c, s, r, d)
<1>1. cookie \in [Device -> Account \cup {Nobody}]
  BY DEF RestOK
<1>2. /\ p.kind = "patch" /\ p.at = "sent" /\ p.cookie = cookie[c]
      /\ p.body = s
  BY <1>1, PatchType
<1> HIDE DEF p
<1>3. Fresh(c, p)
  BY <1>2 DEF Fresh
<1> QED
  BY <1>3 DEF p

LEMMA FlushWithAdvances ==
    ASSUME CallOK, RestOK, NEW c \in Device, NEW q \in [Slot -> Call],
           NEW s \in Snapshot, NEW d \in SUBSET Key, NEW r \in Revision,
           \A k \in dirty[c] : s[k] = settings[c][k],
           \A t \in Slot : Advance(c, call[c][t], q[t]),
           FlushWith(c, q, s, d, r)
    PROVE  /\ Advances(c) /\ \A e \in Device \ {c} : call'[e] = call[e]
<1>1. Fresh(c, Patch(c, s, r, d))
  BY PatchIsFresh
<1>2. /\ \A t \in Slot \ {"flush"} : call'[c][t] = q[t]
      /\ call'[c]["flush"] \in {q["flush"], Patch(c, s, r, d)}
      /\ \A e \in Device \ {c} : call'[e] = call[e]
  BY FlushWithType
<1>3. Advance(c, call[c]["flush"], call'[c]["flush"])
  <2>1. CASE call'[c]["flush"] = q["flush"]
    BY <2>1 DEF Slot
  <2>2. CASE call'[c]["flush"] = Patch(c, s, r, d)
    BY <1>1, <2>2 DEF Advance
  <2> QED
    BY <1>2, <2>1, <2>2
<1> QED
  BY <1>2, <1>3 DEF Advances

LEMMA IdleAdvances == ASSUME NEW c, NEW q PROVE Advance(c, q, Idle)
  BY DEF Advance, Idle

LEMMA GetAdvances ==
    ASSUME NEW c, NEW q, NEW a \in Account \cup {Nobody}
    PROVE  Advance(c, q, Get(a))
<1>1. Get(a).kind # "patch" /\ Get(a).sending = {}
  BY GetType
<1> QED
  BY <1>1 DEF Advance

LEMMA EndFlushAdvances ==
    ASSUME CallOK, RestOK, NEW c \in Device, NEW d \in SUBSET Key,
           NEW r \in Revision, EndFlush(c, d, r)
    PROVE  /\ Advances(c) /\ \A e \in Device \ {c} : call'[e] = call[e]
<1>1. Fresh(c, Patch(c, settings[c], r, d))
  BY PatchIsFresh DEF RestOK
<1>2. /\ \A t \in Slot \ {"flush"} : call'[c][t] = call[c][t]
      /\ call'[c]["flush"] \in {Idle, Patch(c, settings[c], r, d)}
      /\ \A e \in Device \ {c} : call'[e] = call[e]
  BY EndFlushType
<1>3. Advance(c, call[c]["flush"], call'[c]["flush"])
  <2>1. CASE call'[c]["flush"] = Idle
    BY <2>1, IdleAdvances
  <2>2. CASE call'[c]["flush"] = Patch(c, settings[c], r, d)
    BY <1>1, <2>2 DEF Advance
  <2> QED
    BY <1>2, <2>1, <2>2
<1> QED
  BY <1>2, <1>3 DEF Advances, Advance

\* One call of c is replaced.
LEMMA PutAdvances ==
    ASSUME CallOK, NEW c \in Device, NEW s \in Slot, NEW x \in Call,
           s = "loose" \/ Advance(c, call[c][s], x),
           call' = [call EXCEPT ![c][s] = x]
    PROVE  /\ Advances(c) /\ \A e \in Device \ {c} : call'[e] = call[e]
<1>1. /\ call'[c][s] = x /\ \A t \in Slot \ {s} : call'[c][t] = call[c][t]
      /\ \A d \in Device \ {c} : call'[d] = call[d]
  BY PutSlot DEF CallOK
<1>2. \A t \in Slot \ {"loose", s} : Advance(c, call[c][t], call'[c][t])
  BY <1>1 DEF Advance
<1> QED
  BY <1>1, <1>2 DEF Advances

\* The server is done with one step of a call of c.
LEMMA ServedAdvances ==
    ASSUME CallOK, NEW c \in Device, NEW s \in Slot, NEW x \in Call,
           Advance(c, call[c][s], x), Served(c, s, x)
    PROVE  /\ Advances(c) /\ \A e \in Device \ {c} : call'[e] = call[e]
<1>1. /\ \A e \in Device \ {c} : call'[e] = call[e]
      /\ \A t \in Slot \ {s} : call'[c][t] = call[c][t]
      /\ s # "loose" => call'[c][s] = x
  BY ServedType
<1>2. \A t \in Slot \ {"loose", s} : Advance(c, call[c][t], call'[c][t])
  BY <1>1 DEF Advance
<1> QED
  BY <1>1, <1>2 DEF Advances

\* A step of c that only moves its calls on, and may add to what is dirty or
\* clear what was not changed in quiet.
LEMMA OthersUntouched ==
    ASSUME Delivery, NEW c \in Device, Advances(c),
           \A e \in Device \ {c} :
             /\ call'[e] = call[e] /\ dirty'[e] = dirty[e]
             /\ settings'[e] = settings[e],
           UNCHANGED <<cookie, pending>>,
           \A k \in Key : Quiet(c, k) =>
             k \in dirty'[c] /\ settings'[c][k] = settings[c][k]
    PROVE  Delivery'
<1>1. DeliveryOf(c)'
  BY Carried DEF Delivery
<1>2. ASSUME NEW e \in Device \ {c} PROVE DeliveryOf(e)'
  BY <1>2, Untouched DEF Delivery
<1> QED
  BY <1>1, <1>2 DEF Delivery

LEMMA StepDelivery ==
    ASSUME RestOK, CallOK, RestOK', CallOK', Delivery, [Next]_vars
    PROVE  Delivery'
<1> USE CallType
<1>a. /\ cookie \in [Device -> Account \cup {Nobody}]
      /\ settings \in [Device -> Snapshot] /\ dirty \in [Device -> SUBSET Key]
      /\ rev \in [Device -> Revision]
      /\ pending \in [Device -> [Key -> Change \cup {None}]]
      /\ call \in [Device -> [Slot -> Call]]
  BY DEF RestOK, CallOK
<1>2. CASE UNCHANGED vars
  BY <1>2, Untouched DEF vars, page, Delivery
<1>3. ASSUME NEW c \in Device, NEW k \in Key, NEW v \in Value, Edit(c, k, v)
      PROVE  Delivery'
  <2>1. ASSUME NEW e \in Device \ {c} PROVE DeliveryOf(e)'
    BY <1>3, <1>a, <2>1, Untouched DEF Edit, Delivery
  <2>2. ASSUME NEW j \in Key \ {k}, Quiet(c, j)'
        PROVE  /\ Kept(c, j)'
               /\ \A s \in Slot : Clears(s, call'[c][s], j)
                                    => OnItsWay(c, j, call[c][s])'
    BY <1>3, <1>a, <2>2
       DEF Edit, Delivery, DeliveryOf, Quiet, Kept, Clears, OnItsWay, Snapshot
  <2>3. ASSUME Quiet(c, k)'
        PROVE  /\ Kept(c, k)'
               /\ \A s \in Slot : Clears(s, call'[c][s], k)
                                    => OnItsWay(c, k, call[c][s])'
    <3>1. /\ k \notin call[c]["flush"].sending
          /\ \A h \in Hydration : call[c][h].kind # "patch"
      BY <1>3, <1>a, <2>3 DEF Edit, Quiet, SeedOut
    <3>2. \A s \in Slot : ~Clears(s, call'[c][s], k)
      BY <1>3, <3>1 DEF Edit, Clears
    <3>3. Kept(c, k)'
      BY <1>3, <1>a DEF Edit, Kept, Snapshot
    <3> QED
      BY <3>2, <3>3
  <2>4. DeliveryOf(c)'
    BY <2>2, <2>3 DEF DeliveryOf, Clears
  <2> QED
    BY <2>1, <2>4 DEF Delivery
<1>b. \A c \in Device, k \in Key : Quiet(c, k) => k \in dirty[c]
  BY DEF Delivery, DeliveryOf, Kept
<1>4. ASSUME NEW c \in Device, DebounceFires(c) \/ Online(c)
      PROVE  Delivery'
  <2>1. /\ FlushWith(c, call[c], settings[c], dirty[c], rev[c])
        /\ UNCHANGED <<cookie, settings, dirty, pending>>
    BY <1>4 DEF DebounceFires, Online
  <2>2. \A t \in Slot : Advance(c, call[c][t], call[c][t])
    BY DEF Advance
  <2>3. Advances(c) /\ \A e \in Device \ {c} : call'[e] = call[e]
    BY <1>a, <2>1, <2>2, FlushWithAdvances
  <2> QED
    BY <1>b, <2>1, <2>3, OthersUntouched
<1>5. ASSUME NEW c \in Device, FlushSaved(c)
      PROVE  Delivery'
  <2> DEFINE f == call[c]["flush"]
  <2>1. /\ f \in Call /\ f.kind = "patch" /\ f.at = "answered" /\ f.result = "ok"
        /\ f.revision \in Revision /\ dirty[c] \ f.sending \in SUBSET Key
    BY <1>5, <1>a DEF FlushSaved, Answered, Slot, Call
  <2>2. /\ EndFlush(c, dirty[c] \ f.sending, f.revision)
        /\ dirty' = [dirty EXCEPT ![c] = @ \ f.sending]
        /\ UNCHANGED <<cookie, settings, pending>>
    BY <1>5 DEF FlushSaved
  <2>3. \A k \in Key : Quiet(c, k) => k \notin f.sending
    BY <2>1 DEF Delivery, DeliveryOf, Clears, OnItsWay, Slot
  <2>4. Advances(c) /\ \A e \in Device \ {c} : call'[e] = call[e]
    BY <2>1, <2>2, EndFlushAdvances
  <2>5. \A k \in Key : Quiet(c, k) => k \in dirty'[c]
    BY <1>a, <1>b, <2>2, <2>3
  <2> QED
    BY <1>a, <2>2, <2>4, <2>5, OthersUntouched
<1>6. ASSUME NEW c \in Device, FlushRefused(c)
      PROVE  Delivery'
  <2>1. /\ call' = [call EXCEPT ![c]["flush"] = Get(cookie[c])]
        /\ UNCHANGED <<cookie, settings, dirty, pending>>
    BY <1>6 DEF FlushRefused
  <2>2. /\ Advance(c, call[c]["flush"], Get(cookie[c]))
        /\ Get(cookie[c]) \in Call /\ "flush" \in Slot
    BY <1>a, GetAdvances, GetType DEF Slot
  <2>3. Advances(c) /\ \A e \in Device \ {c} : call'[e] = call[e]
    BY <2>1, <2>2, PutAdvances
  <2> QED
    BY <1>b, <2>1, <2>3, OthersUntouched
<1>7. ASSUME NEW c \in Device, ConflictReported(c) \/ FlushFailed(c)
      PROVE  Delivery'
  <2>1. /\ EndFlush(c, dirty[c], rev[c])
        /\ UNCHANGED <<cookie, settings, dirty, pending>>
    BY <1>7 DEF ConflictReported, FlushFailed
  <2>2. Advances(c) /\ \A e \in Device \ {c} : call'[e] = call[e]
    BY <1>a, <2>1, EndFlushAdvances
  <2> QED
    BY <1>b, <2>1, <2>2, OthersUntouched
<1>8. ASSUME NEW c \in Device, NEW h \in Hydration, SeedServer(c, h)
      PROVE  Delivery'
  <2> DEFINE p == Patch(c, settings[c], call[c][h].revision, {})
  <2>1. /\ call' = [call EXCEPT ![c][h] = p]
        /\ UNCHANGED <<cookie, settings, dirty, pending>>
    BY <1>8 DEF SeedServer
  <2>2. h \in Slot /\ call[c][h].revision \in Revision
    BY <1>a DEF Slot, Call
  <2>3. p \in Call
    BY <1>a, <2>2, PatchType
  <2>4. Fresh(c, p)
    BY <1>a, <2>2, PatchIsFresh
  <2>5. Advances(c) /\ \A e \in Device \ {c} : call'[e] = call[e]
    <3>1. Advance(c, call[c][h], p)
      BY <2>4 DEF Advance
    <3> HIDE DEF p
    <3> QED
      BY <2>1, <2>2, <2>3, <3>1, PutAdvances
  <2> QED
    BY <1>b, <2>1, <2>5, OthersUntouched
<1>9. ASSUME NEW c \in Device, NEW h \in Hydration, SeedSaved(c, h)
      PROVE  Delivery'
  <2>1. /\ call' = [call EXCEPT ![c][h] = Idle]
        /\ dirty' = [dirty EXCEPT ![c] = {}]
        /\ UNCHANGED <<cookie, settings, pending>>
        /\ call[c][h].kind = "patch" /\ call[c][h].at = "answered"
        /\ call[c][h].result = "ok"
    BY <1>9 DEF SeedSaved, Answered
  <2>2. \A k \in Key : ~Quiet(c, k)
    BY <2>1 DEF Delivery, DeliveryOf, Clears, OnItsWay, Slot, Hydration
  <2>3. Advances(c) /\ \A e \in Device \ {c} : call'[e] = call[e]
    BY <2>1, IdleType, IdleAdvances, PutAdvances DEF Slot
  <2> QED
    BY <1>a, <2>1, <2>2, <2>3, OthersUntouched
<1>10. ASSUME NEW c \in Device, NEW h \in Hydration, HydrateMerges(c, h)
       PROVE  Delivery'
  <2> DEFINE r == call[c][h].row
             taken == {k \in Key \ dirty[c] : r[k] # Absent}
             seeds == {k \in Key \ (dirty[c] \cup taken) :
                         settings[c][k] # Default}
             s == [k \in Key |-> IF k \in taken THEN r[k] ELSE settings[c][k]]
             d == dirty[c] \cup seeds
             q == [call[c] EXCEPT ![h] = Idle]
             v == call[c][h].revision
  <2>1. /\ settings' = [settings EXCEPT ![c] = s]
        /\ dirty' = [dirty EXCEPT ![c] = d]
        /\ IF d # {} THEN FlushWith(c, q, s, d, v)
                     ELSE call' = [call EXCEPT ![c] = q] /\ UNCHANGED queued
        /\ UNCHANGED <<cookie, pending>>
    BY <1>10 DEF HydrateMerges, Merge
  <2>2. s \in Snapshot
    <3>1. settings'[c] = s
      BY <1>a, <2>1
    <3>2. settings'[c] \in Snapshot
      BY DEF RestOK
    <3> QED
      BY <3>1, <3>2
  <2>3. /\ d \in SUBSET Key /\ v \in Revision /\ q \in [Slot -> Call]
        /\ \A k \in dirty[c] : s[k] = settings[c][k]
    BY <1>a, IdleType DEF Slot, Call
  <2>4. \A t \in Slot : Advance(c, call[c][t], q[t])
    BY <1>a, IdleAdvances DEF Advance
  <2>5. /\ dirty'[c] = d /\ settings'[c] = s
        /\ \A e \in Device \ {c} : /\ dirty'[e] = dirty[e]
                                   /\ settings'[e] = settings[e]
    BY <1>a, <2>1
  <2>6. dirty[c] \subseteq d
    OBVIOUS
  <2>7. Advances(c) /\ \A e \in Device \ {c} : call'[e] = call[e]
    <3> HIDE DEF s, d, q, v
    <3>1. CASE d # {}
      BY <2>1, <2>2, <2>3, <2>4, <3>1, FlushWithAdvances
    <3>2. CASE d = {}
      <4>1. call' = [call EXCEPT ![c] = q]
        BY <2>1, <3>2
      <4> QED
        BY <1>a, <2>4, <4>1 DEF Advances
    <3> QED
      BY <3>1, <3>2
  <2> HIDE DEF s, d, q, v
  <2> QED
    BY <1>b, <2>1, <2>3, <2>5, <2>6, <2>7, OthersUntouched
<1>11. ASSUME NEW c \in Device, NEW h \in Hydration, HydrateFails(c, h)
       PROVE  Delivery'
  <2>1. /\ call' = [call EXCEPT ![c][h] = Idle]
        /\ UNCHANGED <<cookie, settings, dirty, pending>>
    BY <1>11 DEF HydrateFails, page
  <2>2. Advances(c) /\ \A e \in Device \ {c} : call'[e] = call[e]
    BY <2>1, IdleType, IdleAdvances, PutAdvances DEF Slot
  <2> QED
    BY <1>b, <2>1, <2>2, OthersUntouched
<1>12. ASSUME NEW c \in Device, PageHide(c)
       PROVE  Delivery'
  <2>1. /\ call' = [call EXCEPT ![c]["loose"] = Keepalive(c)]
        /\ UNCHANGED <<cookie, settings, dirty, pending>>
    BY <1>12 DEF PageHide
  <2>2. Advances(c) /\ \A e \in Device \ {c} : call'[e] = call[e]
    BY <2>1, KeepaliveType, PutAdvances DEF Slot
  <2> QED
    BY <1>b, <2>1, <2>2, OthersUntouched
<1>13. ASSUME NEW c \in Device, Reload(c)
       PROVE  Delivery'
  <2>1. UNCHANGED <<cookie, settings, dirty, pending>>
    BY <1>13 DEF Reload
  <2>2. PICK left : call' = [call EXCEPT ![c] =
           [s \in Slot |-> IF s = "loose" THEN left
                           ELSE IF s = "boot" THEN Get(cookie[c]) ELSE Idle]]
    BY <1>13 DEF Reload
  <2>3. /\ \A e \in Device \ {c} : call'[e] = call[e]
        /\ \A s \in Slot \ {"loose"} : call'[c][s] \in {Get(cookie[c]), Idle}
    BY <1>a, <2>2
  <2>4. cookie[c] \in Account \cup {Nobody}
    BY <1>a
  <2>5. Advances(c)
    BY <2>3, <2>4, IdleAdvances, GetAdvances DEF Advances
  <2> QED
    BY <1>b, <2>1, <2>3, <2>5, OthersUntouched
<1>14. ASSUME NEW c \in Device, Discard(c)
       PROVE  Delivery'
  BY <1>14, Untouched DEF Discard, Delivery
<1>15. ASSUME NEW c \in Device, ProbeDone(c)
       PROVE  Delivery'
  <2>1. /\ \/ call' = call
           \/ call' = [call EXCEPT ![c]["login"] = Get(cookie[c])]
        /\ UNCHANGED <<cookie, settings, dirty, pending>>
    BY <1>15 DEF ProbeDone, page
  <2>2. /\ Advance(c, call[c]["login"], Get(cookie[c]))
        /\ Get(cookie[c]) \in Call /\ "login" \in Slot
    BY <1>a, GetAdvances, GetType DEF Slot, Hydration
  <2>3. Advances(c) /\ \A e \in Device \ {c} : call'[e] = call[e]
    <3>1. CASE call' = call
      BY <3>1 DEF Advances, Advance
    <3> QED
      BY <2>1, <2>2, <3>1, PutAdvances
  <2> QED
    BY <1>b, <2>1, <2>3, OthersUntouched
<1>16. ASSUME NEW c \in Device, Logout(c) \/ \E a \in Account : Login(c, a)
       PROVE  Delivery'
  <2>1. /\ pending' = [pending EXCEPT ![c] = [k \in Key |-> None]]
        /\ dirty' = [dirty EXCEPT ![c] = {}]
        /\ settings' = [settings EXCEPT ![c] = Defaults]
        /\ \E a \in Account \cup {Nobody} : cookie' = [cookie EXCEPT ![c] = a]
        /\ \/ call' = call
           \/ \E a \in Account : call' = [call EXCEPT ![c]["login"] = Get(a)]
    BY <1>16 DEF Logout, Login, ResetAccount
  <2>2. ASSUME NEW e \in Device \ {c} PROVE DeliveryOf(e)'
    <3>1. /\ dirty'[e] = dirty[e] /\ settings'[e] = settings[e]
          /\ pending'[e] = pending[e] /\ cookie'[e] = cookie[e]
          /\ call'[e] = call[e]
      BY <1>a, <2>1, <2>2
    <3> QED
      BY <3>1, <2>2, Untouched DEF Delivery
  <2>3. DeliveryOf(c)'
    BY <1>a, <2>1 DEF DeliveryOf, Quiet
  <2> QED
    BY <2>2, <2>3 DEF Delivery
<1>17. ASSUME NEW c \in Device, NEW s \in Slot, NEW x \in Call,
              Served(c, s, x), Advance(c, call[c][s], x),
              UNCHANGED <<cookie, settings, dirty, pending>>
       PROVE  Delivery'
  <2>1. Advances(c) /\ \A e \in Device \ {c} : call'[e] = call[e]
    BY <1>17, ServedAdvances
  <2> QED
    BY <1>b, <1>17, <2>1, OthersUntouched
<1>18. ASSUME NEW c \in Device, NEW s \in Slot, ServeGet(c, s)
       PROVE  Delivery'
  <2> DEFINE q == call[c][s]
             x == [Saved(q, row[q.cookie]) EXCEPT !.row = row[q.cookie]]
  <2>1. /\ q \in Call /\ q.kind = "get" /\ q.at = "sent" /\ Served(c, s, x)
        /\ q.cookie # Nobody
        /\ UNCHANGED <<cookie, settings, dirty, pending>>
    BY <1>18 DEF ServeGet, page
  <2>2. row[q.cookie] \in Row
    BY <2>1 DEF RestOK, Call
  <2>3. /\ x \in Call /\ x.kind = q.kind /\ x.at = "answered"
        /\ x.sending = q.sending
    BY <2>1, <2>2, RowReplyType
  <2> HIDE DEF x
  <2>4. Advance(c, q, x)
    BY <2>1, <2>3 DEF Advance
  <2> QED
    BY <1>17, <2>1, <2>3, <2>4
<1>19. ASSUME NEW c \in Device, NEW s \in Slot, ServeCheck(c, s)
       PROVE  Delivery'
  <2> DEFINE q == call[c][s]
             y == [q EXCEPT !.at = "checked", !.base = Unknown]
             z == Reply(q, "conflict")
  <2>1. /\ q \in Call /\ q.kind = "patch" /\ q.at = "sent"
        /\ Served(c, s, y) \/ Served(c, s, z)
        /\ UNCHANGED <<cookie, settings, dirty, pending>>
    BY <1>19 DEF ServeCheck, page
  <2>2. y \in Call /\ Advance(c, q, y)
    BY <2>1 DEF Call, Revision, Advance
  <2>3. /\ z \in Call /\ z.kind = q.kind /\ z.at = "answered"
        /\ z.sending = q.sending /\ z.result = "conflict"
    BY <2>1, ReplyType
  <2> HIDE DEF y, z
  <2>4. Advance(c, q, z)
    BY <2>3 DEF Advance
  <2> QED
    BY <1>17, <2>1, <2>2, <2>3, <2>4
<1>20. ASSUME NEW c \in Device, NEW s \in Slot, ServeSave(c, s)
       PROVE  Delivery'
  <2> DEFINE q == call[c][s]
             x == Saved(q, q.body)
  <2>1. /\ q \in Call /\ q.at = "checked" /\ Served(c, s, x)
        /\ UNCHANGED <<cookie, settings, dirty>>
        /\ pending' = [pending EXCEPT ![c] = [k \in Key |->
             IF /\ cookie[c] = q.cookie /\ @[k] # None
                /\ @[k].value = q.body[k] THEN None ELSE @[k]]]
    BY <1>20 DEF ServeSave, page
  <2>2. /\ x \in Call /\ x.kind = q.kind /\ x.at = "answered"
        /\ x.sending = q.sending
    BY <2>1, SaveReplyType
  <2> HIDE DEF x
  <2>3. /\ \A e \in Device \ {c} : call'[e] = call[e]
        /\ \A t \in Slot \ {s} : call'[c][t] = call[c][t]
        /\ s # "loose" => call'[c][s] = x
    BY <2>1, <2>2, ServedType
  <2>4. ASSUME NEW e \in Device \ {c} PROVE DeliveryOf(e)'
    <3>1. pending'[e] = pending[e]
      BY <1>a, <2>1, <2>4
    <3> QED
      BY <2>1, <2>3, <2>4, <3>1, Untouched DEF Delivery
  <2>5. ASSUME NEW k \in Key, Quiet(c, k)'
        PROVE  /\ Kept(c, k)'
               /\ \A t \in Slot : Clears(t, call'[c][t], k)
                                    => OnItsWay(c, k, call[c][t])'
    <3>1. pending'[c][k] = IF /\ cookie[c] = q.cookie /\ pending[c][k] # None
                              /\ pending[c][k].value = q.body[k]
                           THEN None ELSE pending[c][k]
      BY <1>a, <2>1
    <3>2. /\ pending'[c][k] = pending[c][k] /\ Quiet(c, k)
          /\ ~(cookie[c] = q.cookie /\ pending[c][k].value = q.body[k])
      BY <2>5, <3>1 DEF Quiet
    <3>3. Kept(c, k)'
      BY <2>1, <3>2 DEF Kept, Delivery, DeliveryOf
    <3>4. ~Clears(s, q, k)
      BY <2>1, <3>2 DEF Delivery, DeliveryOf, OnItsWay
    <3>5. ~Clears(s, call'[c][s], k)
      BY <2>2, <2>3, <3>4 DEF Clears, Hydration
    <3>6. ASSUME NEW t \in Slot \ {s}, Clears(t, call'[c][t], k)
          PROVE  OnItsWay(c, k, call[c][t])'
      BY <2>1, <2>3, <3>2, <3>6 DEF Delivery, DeliveryOf, OnItsWay
    <3> QED
      BY <3>3, <3>5, <3>6
  <2>6. DeliveryOf(c)'
    BY <2>5 DEF DeliveryOf, Clears
  <2> QED
    BY <2>4, <2>6 DEF Delivery
<1>21. ASSUME NEW c \in Device, NEW s \in Slot, LaterRevision(c, s)
       PROVE  Delivery'
  <2> DEFINE q == call[c][s]
             x == [q EXCEPT !.revision = row[q.cookie]]
  <2>1. /\ q \in Call /\ q.cookie # Nobody
        /\ call' = [call EXCEPT ![c][s].revision = row[q.cookie]]
        /\ UNCHANGED <<cookie, settings, dirty, pending>>
    BY <1>21 DEF LaterRevision, page
  <2>2. row[q.cookie] \in Revision
    BY <2>1 DEF RestOK, Call, Revision
  <2>3. x \in Call /\ Advance(c, q, x)
    BY <2>1, <2>2 DEF Call, Advance
  <2>4. call' = [call EXCEPT ![c][s] = x]
    BY <2>1
  <2> HIDE DEF x
  <2>5. Advances(c) /\ \A e \in Device \ {c} : call'[e] = call[e]
    BY <2>3, <2>4, PutAdvances
  <2> QED
    BY <1>b, <2>1, <2>5, OthersUntouched
<1>22. ASSUME NEW c \in Device, NEW s \in Slot,
              ServeDenied(c, s) \/ Lose(c, s)
       PROVE  Delivery'
  <2> DEFINE q == call[c][s]
             x == Reply(q, "failed")
  <2>1. /\ q \in Call /\ q.at \in {"sent", "answered"} /\ Served(c, s, x)
        /\ UNCHANGED <<cookie, settings, dirty, pending>>
    BY <1>22 DEF ServeDenied, Lose, page
  <2>2. /\ x \in Call /\ x.kind = q.kind /\ x.at = "answered"
        /\ x.sending = q.sending /\ x.result = "failed"
    BY <2>1, ReplyType
  <2> HIDE DEF x
  <2>3. Advance(c, q, x)
    BY <2>2 DEF Advance
  <2> QED
    BY <1>17, <2>1, <2>2, <2>3
<1> QED
  BY <1>2, <1>3, <1>4, <1>5, <1>6, <1>7, <1>8, <1>9, <1>10, <1>11, <1>12,
     <1>13, <1>14, <1>15, <1>16, <1>18, <1>19, <1>20, <1>21, <1>22
     DEF Next, User, Answer, Serve

LEMMA InitDelivery == Init => Delivery
  BY DEF Init, Delivery, DeliveryOf, Quiet

\* A change made in quiet, of any number of devices, accounts and settings,
\* is remembered by its page until the server has stored it.
THEOREM QuietEditsPending == Spec => []QuietEditStaysPending
<1>1. TypeOK /\ TypeOK' /\ Delivery /\ [Next]_vars => Delivery'
  BY StepDelivery, TypeSplit DEF RestOK, CallOK, TypeOK
<1>2. Delivery => QuietEditStaysPending
  BY DEF Delivery, DeliveryOf, Kept, QuietEditStaysPending
<1> QED
  BY InitDelivery, TypeCorrect, <1>1, <1>2, PTL DEF Spec

-----------------------------------------------------------------------------
(* Quiet switches are clean.  The invariant behind it: as long as every     *)
(* switch was made at rest, what is stored for an account, shown on a       *)
(* device or on its way was chosen under the account it is kept for.        *)

Owned(v, a) == v \in {Default, Absent} \/ v[1] = a
SnapshotOwned(s, a) == \A k \in Key : Owned(s[k], a)
RowOwned(r, a) == r = NoRow \/ SnapshotOwned(r, a)
CallOwned(q, a) == \/ q = Idle
                   \/ /\ q.cookie = a /\ SnapshotOwned(q.body, a)
                      /\ RowOwned(q.row, a)
CallsOwned(qs, a) == \A s \in Slot : CallOwned(qs[s], a)
DeviceOwned(c) == /\ SnapshotOwned(settings[c], cookie[c])
                  /\ CallsOwned(call[c], cookie[c])
Ownership == clean => /\ \A a \in Account : RowOwned(row[a], a)
                      /\ \A c \in Device : DeviceOwned(c)

LEMMA DefaultsOwned == ASSUME NEW a PROVE SnapshotOwned(Defaults, a)
  BY DEF SnapshotOwned, Owned, Defaults

LEMMA GetOwned == ASSUME NEW a \in Account \cup {Nobody}
                  PROVE  CallOwned(Get(a), a)
<1>1. Get(a).cookie = a /\ Get(a).body = Defaults /\ Get(a).row = NoRow
  BY GetType
<1> QED
  BY <1>1, DefaultsOwned DEF CallOwned, RowOwned

LEMMA PatchOwned ==
    ASSUME RestOK, NEW c \in Device, NEW s \in Snapshot,
           NEW r \in Revision, NEW d \in SUBSET Key,
           SnapshotOwned(s, cookie[c])
    PROVE  CallOwned(Patch(c, s, r, d), cookie[c])
<1> DEFINE p == Patch(c, s, r, d)
<1>1. cookie \in [Device -> Account \cup {Nobody}]
  BY DEF RestOK
<1>2. p.cookie = cookie[c] /\ p.body = s /\ p.row = NoRow
  BY <1>1, PatchType
<1> HIDE DEF p
<1>3. CallOwned(p, cookie[c])
  BY <1>2 DEF CallOwned, RowOwned
<1> QED
  BY <1>3 DEF p

LEMMA ReplyOwned ==
    ASSUME NEW q \in Call, q.at # "idle", NEW a, CallOwned(q, a),
           NEW result \in {"ok", "conflict", "failed"}
    PROVE  CallOwned(Reply(q, result), a)
<1>1. q.cookie = a
  BY DEF CallOwned, Idle
<1> DEFINE p == Reply(q, result)
<1>2. p.cookie = q.cookie /\ p.body = Defaults /\ p.row = NoRow
  BY ReplyType
<1> HIDE DEF p
<1>3. CallOwned(p, a)
  BY <1>1, <1>2, DefaultsOwned DEF CallOwned, RowOwned
<1> QED
  BY <1>3 DEF p

LEMMA FlushWithOwned ==
    ASSUME CallOK, RestOK, NEW c \in Device, NEW q \in [Slot -> Call],
           NEW s \in Snapshot, NEW d \in SUBSET Key, NEW r \in Revision,
           SnapshotOwned(s, cookie[c]), CallsOwned(q, cookie[c]),
           FlushWith(c, q, s, d, r)
    PROVE  CallsOwned(call'[c], cookie[c])
<1>1. CallOwned(Patch(c, s, r, d), cookie[c])
  BY PatchOwned
<1>2. /\ \A t \in Slot \ {"flush"} : call'[c][t] = q[t]
      /\ call'[c]["flush"] \in {q["flush"], Patch(c, s, r, d)}
  BY FlushWithType
<1>3. CallOwned(call'[c]["flush"], cookie[c])
  BY <1>1, <1>2 DEF CallsOwned, Slot
<1> QED
  BY <1>2, <1>3 DEF CallsOwned

LEMMA EndFlushOwned ==
    ASSUME CallOK, RestOK, NEW c \in Device, NEW d \in SUBSET Key,
           NEW r \in Revision, DeviceOwned(c), EndFlush(c, d, r)
    PROVE  CallsOwned(call'[c], cookie[c])
<1>1. CallOwned(Patch(c, settings[c], r, d), cookie[c])
  BY PatchOwned DEF RestOK, DeviceOwned
<1>2. /\ \A t \in Slot \ {"flush"} : call'[c][t] = call[c][t]
      /\ call'[c]["flush"] \in {Idle, Patch(c, settings[c], r, d)}
  BY EndFlushType
<1>3. CallOwned(call'[c]["flush"], cookie[c])
  BY <1>1, <1>2 DEF CallOwned
<1> QED
  BY <1>2, <1>3 DEF CallsOwned, DeviceOwned

LEMMA PutOwned ==
    ASSUME CallOK, NEW c \in Device, NEW s \in Slot, NEW x \in Call, NEW a,
           CallOwned(x, a), CallsOwned(call[c], a),
           call' = [call EXCEPT ![c][s] = x]
    PROVE  CallsOwned(call'[c], a)
<1>1. /\ call'[c][s] = x /\ \A t \in Slot \ {s} : call'[c][t] = call[c][t]
  BY PutSlot DEF CallOK
<1> QED
  BY <1>1 DEF CallsOwned

\* A step of c that leaves the rows, the cookies and the other devices alone.
LEMMA OwnersKept ==
    ASSUME Ownership, NEW c \in Device, UNCHANGED <<row, cookie, clean>>,
           \A e \in Device \ {c} : call'[e] = call[e]
                                   /\ settings'[e] = settings[e],
           clean => SnapshotOwned(settings'[c], cookie[c])
                    /\ CallsOwned(call'[c], cookie[c])
    PROVE  Ownership'
  BY DEF Ownership, DeviceOwned

LEMMA StepOwnership ==
    ASSUME RestOK, CallOK, RestOK', CallOK', Ownership, [Next]_vars
    PROVE  Ownership'
<1> USE CallType
<1>a. /\ cookie \in [Device -> Account \cup {Nobody}]
      /\ settings \in [Device -> Snapshot] /\ dirty \in [Device -> SUBSET Key]
      /\ rev \in [Device -> Revision] /\ row \in [Account -> Row]
      /\ call \in [Device -> [Slot -> Call]]
  BY DEF RestOK, CallOK
<1>b. clean => \A c \in Device : /\ DeviceOwned(c)
                                 /\ SnapshotOwned(settings[c], cookie[c])
                                 /\ CallsOwned(call[c], cookie[c])
  BY DEF Ownership, DeviceOwned
<1>2. CASE UNCHANGED vars
  BY <1>2 DEF vars, page, Ownership, DeviceOwned
<1>3. ASSUME NEW c \in Device, NEW k \in Key, NEW v \in Value, Edit(c, k, v)
      PROVE  Ownership'
  <2>1. /\ v \in Choices(cookie[c])
        /\ settings' = [settings EXCEPT ![c][k] = v]
        /\ UNCHANGED <<row, cookie, clean, call>>
    BY <1>3 DEF Edit
  <2>2. Owned(v, cookie[c])
    BY <2>1 DEF Choices, Owned
  <2>3. clean => SnapshotOwned(settings'[c], cookie[c])
    BY <1>a, <1>b, <2>1, <2>2 DEF SnapshotOwned, Snapshot
  <2> QED
    BY <1>a, <1>b, <2>1, <2>3, OwnersKept
<1>4. ASSUME NEW c \in Device, DebounceFires(c) \/ Online(c)
      PROVE  Ownership'
  <2>1. /\ FlushWith(c, call[c], settings[c], dirty[c], rev[c])
        /\ UNCHANGED <<row, cookie, clean, settings>>
    BY <1>4 DEF DebounceFires, Online
  <2>2. clean => CallsOwned(call'[c], cookie[c])
    BY <1>a, <1>b, <2>1, FlushWithOwned
  <2>3. \A e \in Device \ {c} : call'[e] = call[e]
    BY <1>a, <2>1, FlushWithType
  <2> QED
    BY <1>b, <2>1, <2>2, <2>3, OwnersKept
<1>5. ASSUME NEW c \in Device, NEW d \in SUBSET Key, NEW r \in Revision,
             EndFlush(c, d, r), UNCHANGED <<row, cookie, clean, settings>>
      PROVE  Ownership'
  <2>1. clean => CallsOwned(call'[c], cookie[c])
    BY <1>b, <1>5, EndFlushOwned
  <2>2. \A e \in Device \ {c} : call'[e] = call[e]
    BY <1>5, EndFlushType
  <2> QED
    BY <1>b, <1>5, <2>1, <2>2, OwnersKept
<1>6. ASSUME NEW c \in Device,
             FlushSaved(c) \/ ConflictReported(c) \/ FlushFailed(c)
      PROVE  Ownership'
  <2>1. CASE FlushSaved(c)
    <3> DEFINE f == call[c]["flush"]
    <3>1. f.revision \in Revision /\ dirty[c] \ f.sending \in SUBSET Key
      BY <1>a DEF Slot, Call
    <3>2. EndFlush(c, dirty[c] \ f.sending, f.revision)
      BY <2>1 DEF FlushSaved
    <3> QED
      BY <1>5, <2>1, <3>1, <3>2 DEF FlushSaved
  <2>2. CASE ConflictReported(c) \/ FlushFailed(c)
    BY <1>a, <1>5, <2>2 DEF ConflictReported, FlushFailed
  <2> QED
    BY <1>6, <2>1, <2>2
<1>7. ASSUME NEW c \in Device, NEW s \in Slot, NEW x \in Call,
             call' = [call EXCEPT ![c][s] = x],
             clean => CallOwned(x, cookie[c]),
             UNCHANGED <<row, cookie, clean, settings>>
      PROVE  Ownership'
  <2>1. clean => CallsOwned(call'[c], cookie[c])
    BY <1>b, <1>7, PutOwned
  <2>2. \A e \in Device \ {c} : call'[e] = call[e]
    BY <1>7, PutSlot DEF CallOK
  <2> QED
    BY <1>b, <1>7, <2>1, <2>2, OwnersKept
<1>8. ASSUME NEW c \in Device, FlushRefused(c)
      PROVE  Ownership'
  <2>1. /\ "flush" \in Slot /\ Get(cookie[c]) \in Call
        /\ CallOwned(Get(cookie[c]), cookie[c])
    BY <1>a, GetType, GetOwned DEF Slot
  <2> QED
    BY <1>7, <1>8, <2>1 DEF FlushRefused
<1>9. ASSUME NEW c \in Device, NEW h \in Hydration, SeedServer(c, h)
      PROVE  Ownership'
  <2> DEFINE p == Patch(c, settings[c], call[c][h].revision, {})
  <2>1. h \in Slot /\ call[c][h].revision \in Revision
    BY <1>a DEF Slot, Call
  <2>2. p \in Call
    BY <1>a, <2>1, PatchType
  <2>3. clean => CallOwned(p, cookie[c])
    BY <1>a, <1>b, <2>1, PatchOwned
  <2>4. /\ call' = [call EXCEPT ![c][h] = p]
        /\ UNCHANGED <<row, cookie, clean, settings>>
    BY <1>9 DEF SeedServer
  <2> HIDE DEF p
  <2> QED
    BY <1>7, <2>1, <2>2, <2>3, <2>4
<1>10. ASSUME NEW c \in Device, NEW h \in Hydration,
              SeedSaved(c, h) \/ HydrateFails(c, h)
       PROVE  Ownership'
  <2>1. /\ call' = [call EXCEPT ![c][h] = Idle]
        /\ UNCHANGED <<row, cookie, clean, settings>>
    BY <1>10 DEF SeedSaved, HydrateFails, page
  <2> QED
    BY <1>7, <2>1, IdleType DEF CallOwned, Slot
<1>11. ASSUME NEW c \in Device, NEW h \in Hydration, HydrateMerges(c, h)
       PROVE  Ownership'
  <2> DEFINE r == call[c][h].row
             taken == {k \in Key \ dirty[c] : r[k] # Absent}
             seeds == {k \in Key \ (dirty[c] \cup taken) :
                         settings[c][k] # Default}
             s == [k \in Key |-> IF k \in taken THEN r[k] ELSE settings[c][k]]
             d == dirty[c] \cup seeds
             q == [call[c] EXCEPT ![h] = Idle]
             v == call[c][h].revision
  <2>1. /\ settings' = [settings EXCEPT ![c] = s]
        /\ IF d # {} THEN FlushWith(c, q, s, d, v)
                     ELSE call' = [call EXCEPT ![c] = q] /\ UNCHANGED queued
        /\ UNCHANGED <<row, cookie, clean>>
        /\ r # NoRow /\ call[c][h] # Idle
    BY <1>11 DEF HydrateMerges, Merge, Answered, Idle
  <2>2. settings'[c] = s /\ \A e \in Device \ {c} : settings'[e] = settings[e]
    BY <1>a, <2>1
  <2>3. s \in Snapshot
    <3>1. settings'[c] \in Snapshot
      BY DEF RestOK
    <3> QED
      BY <2>2, <3>1
  <2>4. /\ d \in SUBSET Key /\ v \in Revision /\ q \in [Slot -> Call]
    BY <1>a, IdleType DEF Slot, Call
  <2>5. clean => SnapshotOwned(r, cookie[c])
    BY <1>b, <2>1 DEF CallsOwned, CallOwned, RowOwned, Slot
  <2>6. clean => SnapshotOwned(s, cookie[c])
    BY <1>b, <2>5 DEF SnapshotOwned
  <2>7. clean => CallsOwned(q, cookie[c])
    BY <1>a, <1>b DEF CallsOwned, CallOwned, Slot
  <2>8. /\ clean => CallsOwned(call'[c], cookie[c])
        /\ \A e \in Device \ {c} : call'[e] = call[e]
    <3> HIDE DEF s, d, q, v, r, taken, seeds
    <3>1. CASE d # {}
      BY <2>1, <2>3, <2>4, <2>6, <2>7, <3>1, FlushWithOwned, FlushWithType
    <3>2. CASE d = {}
      <4>1. call' = [call EXCEPT ![c] = q]
        BY <2>1, <3>2
      <4> QED
        BY <1>a, <2>7, <4>1
    <3> QED
      BY <3>1, <3>2
  <2> HIDE DEF s, d, q, v, r, taken, seeds
  <2> QED
    BY <2>1, <2>2, <2>6, <2>8, OwnersKept
<1>12. ASSUME NEW c \in Device, PageHide(c)
       PROVE  Ownership'
  <2>1. /\ Keepalive(c) \in Call
        /\ clean => CallOwned(Keepalive(c), cookie[c])
    BY <1>b, KeepaliveType DEF CallOwned, RowOwned
  <2> QED
    BY <1>7, <1>12, <2>1 DEF PageHide, Slot
<1>13. ASSUME NEW c \in Device, Reload(c)
       PROVE  Ownership'
  <2>1. UNCHANGED <<row, cookie, clean, settings>>
    BY <1>13 DEF Reload
  <2>2. PICK left : /\ \/ \E s \in Slot : left = call[c][s]
                      \/ left = Keepalive(c)
                   /\ call' = [call EXCEPT ![c] =
           [s \in Slot |-> IF s = "loose" THEN left
                           ELSE IF s = "boot" THEN Get(cookie[c]) ELSE Idle]]
    BY <1>13 DEF Reload, Slot
  <2>3. clean => CallOwned(left, cookie[c])
    BY <1>b, <2>2, KeepaliveType DEF CallsOwned, CallOwned, RowOwned
  <2>4. CallOwned(Get(cookie[c]), cookie[c]) /\ CallOwned(Idle, cookie[c])
    BY <1>a, GetOwned DEF CallOwned
  <2>5. /\ \A e \in Device \ {c} : call'[e] = call[e]
        /\ \A s \in Slot : call'[c][s] \in {left, Get(cookie[c]), Idle}
    BY <1>a, <2>2
  <2>6. clean => CallsOwned(call'[c], cookie[c])
    BY <2>3, <2>4, <2>5 DEF CallsOwned
  <2> QED
    BY <1>b, <2>1, <2>5, <2>6, OwnersKept
<1>14. ASSUME NEW c \in Device, Discard(c)
       PROVE  Ownership'
  BY <1>b, <1>14, OwnersKept DEF Discard
<1>15. ASSUME NEW c \in Device, ProbeDone(c)
       PROVE  Ownership'
  <2>1. /\ "login" \in Slot /\ Get(cookie[c]) \in Call
        /\ CallOwned(Get(cookie[c]), cookie[c])
    BY <1>a, GetType, GetOwned DEF Slot, Hydration
  <2>2. CASE call' = call
    BY <1>b, <1>15, <2>2, OwnersKept DEF ProbeDone, page
  <2>3. CASE call' = [call EXCEPT ![c]["login"] = Get(cookie[c])]
    BY <1>7, <1>15, <2>1, <2>3 DEF ProbeDone, page
  <2> QED
    BY <1>15, <2>2, <2>3 DEF ProbeDone
<1>16. ASSUME NEW c \in Device, NEW a \in Account \cup {Nobody},
              (Logout(c) /\ a = Nobody) \/ Login(c, a)
       PROVE  Ownership'
  <2> SUFFICES ASSUME clean' PROVE Ownership'
    BY DEF Ownership
  <2>1. /\ clean /\ AtRest(c) /\ UNCHANGED row
        /\ settings' = [settings EXCEPT ![c] = Defaults]
        /\ cookie' = [cookie EXCEPT ![c] = a]
        /\ \/ call' = call
           \/ call' = [call EXCEPT ![c]["login"] = Get(a)]
    BY <1>16 DEF Logout, Login, ResetAccount
  <2>2. ASSUME NEW e \in Device \ {c} PROVE DeviceOwned(e)'
    <3>1. settings'[e] = settings[e] /\ cookie'[e] = cookie[e]
          /\ call'[e] = call[e]
      BY <1>a, <2>1, <2>2
    <3> QED
      BY <1>b, <2>1, <2>2, <3>1 DEF DeviceOwned
  <2>3. settings'[c] = Defaults /\ cookie'[c] = a
    BY <1>a, <2>1
  <2>4. \A s \in Slot : call'[c][s] \in {Idle, Get(a)}
    BY <1>a, <2>1 DEF AtRest
  <2>5. DeviceOwned(c)'
    BY <2>3, <2>4, GetOwned, DefaultsOwned
       DEF DeviceOwned, CallsOwned, CallOwned
  <2> QED
    BY <2>1, <2>2, <2>5 DEF Ownership
<1>17. ASSUME NEW c \in Device, NEW s \in Slot, NEW x \in Call,
              Served(c, s, x), clean => CallOwned(x, cookie[c])
       PROVE  /\ clean => CallsOwned(call'[c], cookie[c])
              /\ \A e \in Device \ {c} : call'[e] = call[e]
  <2>1. /\ \A e \in Device \ {c} : call'[e] = call[e]
        /\ \A t \in Slot \ {s} : call'[c][t] = call[c][t]
        /\ call'[c][s] \in {x, Idle}
    BY <1>17, ServedType
  <2> QED
    BY <1>b, <1>17, <2>1 DEF CallsOwned, CallOwned
<1>18. ASSUME NEW c \in Device, NEW s \in Slot, ServeGet(c, s)
       PROVE  Ownership'
  <2> DEFINE q == call[c][s]
             m == row[q.cookie]
             x == [Saved(q, m) EXCEPT !.row = m]
  <2>1. /\ q \in Call /\ q.at = "sent" /\ Served(c, s, x) /\ q.cookie # Nobody
        /\ UNCHANGED <<row, cookie, clean, settings>>
    BY <1>18 DEF ServeGet, page
  <2>2. q.cookie \in Account /\ m \in Row
    BY <1>a, <2>1 DEF Call
  <2>3. x \in Call /\ x.cookie = q.cookie /\ x.body = Defaults /\ x.row = m
    BY <2>1, <2>2, RowReplyType
  <2> HIDE DEF x
  <2>4. clean => q.cookie = cookie[c]
    BY <1>b, <2>1 DEF CallsOwned, CallOwned, Idle
  <2>5. clean => RowOwned(m, q.cookie)
    BY <2>2 DEF Ownership
  <2>6. clean => CallOwned(x, cookie[c])
    BY <2>3, <2>4, <2>5, DefaultsOwned DEF CallOwned
  <2> QED
    BY <1>b, <1>17, <2>1, <2>3, <2>6, OwnersKept
<1>19. ASSUME NEW c \in Device, NEW s \in Slot, ServeCheck(c, s)
       PROVE  Ownership'
  <2> DEFINE q == call[c][s]
             y == [q EXCEPT !.at = "checked", !.base = Unknown]
             z == Reply(q, "conflict")
  <2>1. /\ q \in Call /\ q.at = "sent"
        /\ Served(c, s, y) \/ Served(c, s, z)
        /\ UNCHANGED <<row, cookie, clean, settings>>
    BY <1>19 DEF ServeCheck, page
  <2>2. q # Idle /\ (clean => CallOwned(q, cookie[c]))
    BY <1>b, <2>1 DEF CallsOwned, Idle
  <2>3. /\ y \in Call /\ y.cookie = q.cookie /\ y.body = q.body
        /\ y.row = q.row
    BY <2>1 DEF Call, Revision
  <2>4. z \in Call /\ (clean => CallOwned(z, cookie[c]))
    BY <2>1, <2>2, ReplyType, ReplyOwned
  <2> HIDE DEF y, z
  <2>5. clean => CallOwned(y, cookie[c])
    BY <2>2, <2>3 DEF CallOwned
  <2>6. /\ clean => CallsOwned(call'[c], cookie[c])
        /\ \A e \in Device \ {c} : call'[e] = call[e]
    <3>1. CASE Served(c, s, y)
      BY <1>17, <2>3, <2>5, <3>1
    <3>2. CASE Served(c, s, z)
      BY <1>17, <2>4, <3>2
    <3> QED
      BY <2>1, <3>1, <3>2
  <2> QED
    BY <1>b, <2>1, <2>6, OwnersKept
<1>20. ASSUME NEW c \in Device, NEW s \in Slot, ServeSave(c, s)
       PROVE  Ownership'
  <2> DEFINE q == call[c][s]
             x == Saved(q, q.body)
  <2>1. /\ q \in Call /\ q.at = "checked" /\ Served(c, s, x)
        /\ row' = [row EXCEPT ![q.cookie] = q.body]
        /\ UNCHANGED <<cookie, clean, settings>>
    BY <1>20 DEF ServeSave, page
  <2>3. x \in Call /\ x.cookie = q.cookie /\ x.body = Defaults /\ x.row = NoRow
    BY <2>1, SaveReplyType
  <2> HIDE DEF x
  <2> SUFFICES ASSUME clean PROVE Ownership'
    BY <2>1 DEF Ownership
  <2>4. q.cookie = cookie[c] /\ SnapshotOwned(q.body, q.cookie)
    BY <1>b, <2>1 DEF CallsOwned, CallOwned, Idle
  <2>5. CallOwned(x, cookie[c])
    BY <2>3, <2>4, DefaultsOwned DEF CallOwned, RowOwned
  <2>6. /\ CallsOwned(call'[c], cookie[c])
        /\ \A e \in Device \ {c} : call'[e] = call[e]
    BY <1>17, <2>1, <2>3, <2>5
  <2>7. \A a \in Account : RowOwned(row'[a], a)
    BY <1>a, <2>1, <2>4 DEF Ownership, RowOwned
  <2>8. \A e \in Device : DeviceOwned(e)'
    BY <1>b, <2>1, <2>6 DEF DeviceOwned
  <2> QED
    BY <2>7, <2>8 DEF Ownership
<1>21. ASSUME NEW c \in Device, NEW s \in Slot, LaterRevision(c, s)
       PROVE  Ownership'
  <2> DEFINE q == call[c][s]
             x == [q EXCEPT !.revision = row[q.cookie]]
  <2>1. /\ q \in Call /\ q.cookie # Nobody /\ q.result = "ok"
        /\ call' = [call EXCEPT ![c][s] = x]
        /\ UNCHANGED <<row, cookie, clean, settings>>
    BY <1>21 DEF LaterRevision, page
  <2>2. row[q.cookie] \in Revision
    BY <2>1 DEF RestOK, Call, Revision
  <2>3. x \in Call /\ x.cookie = q.cookie /\ x.body = q.body /\ x.row = q.row
    BY <2>1, <2>2 DEF Call
  <2> HIDE DEF x
  <2>4. clean => CallOwned(x, cookie[c])
    BY <1>b, <2>1, <2>3 DEF CallsOwned, CallOwned, Idle
  <2> QED
    BY <1>7, <2>1, <2>3, <2>4
<1>22. ASSUME NEW c \in Device, NEW s \in Slot,
              ServeDenied(c, s) \/ Lose(c, s)
       PROVE  Ownership'
  <2> DEFINE q == call[c][s]
             x == Reply(q, "failed")
  <2>1. /\ q \in Call /\ q.at # "idle" /\ Served(c, s, x)
        /\ UNCHANGED <<row, cookie, clean, settings>>
    BY <1>22 DEF ServeDenied, Lose, page
  <2>2. x \in Call /\ (clean => CallOwned(x, cookie[c]))
    BY <1>b, <2>1, ReplyType, ReplyOwned DEF CallsOwned
  <2> HIDE DEF x
  <2>3. /\ clean => CallsOwned(call'[c], cookie[c])
        /\ \A e \in Device \ {c} : call'[e] = call[e]
    BY <1>17, <2>1, <2>2
  <2> QED
    BY <1>b, <2>1, <2>3, OwnersKept
<1> QED
  BY <1>2, <1>3, <1>4, <1>6, <1>8, <1>9, <1>10, <1>11, <1>12, <1>13, <1>14,
     <1>15, <1>16, <1>18, <1>19, <1>20, <1>21, <1>22
     DEF Next, User, Answer, Serve

LEMMA InitOwnership == Init => Ownership
<1> SUFFICES ASSUME Init
             PROVE  /\ \A a \in Account : RowOwned(row[a], a)
                    /\ \A c \in Device : DeviceOwned(c)
  BY DEF Ownership
<1>1. \A a \in Account : RowOwned(row[a], a)
  BY DEF Init, RowOwned, SnapshotOwned, Owned
<1>2. ASSUME NEW c \in Device PROVE DeviceOwned(c)
  <2>1. SnapshotOwned(settings[c], cookie[c])
    BY DEF Init, SnapshotOwned, Owned
  <2>2. cookie[c] \in Account /\ \A s \in Slot : call[c][s] \in {Get(cookie[c]), Idle}
    BY DEF Init, Start
  <2>3. CallsOwned(call[c], cookie[c])
    BY <2>2, GetOwned DEF CallsOwned, CallOwned
  <2> QED
    BY <2>1, <2>3 DEF DeviceOwned
<1> QED
  BY <1>1, <1>2

\* Whatever the accounts and devices, when every switch of account is made at
\* rest no device shows under one account what was chosen under another.
THEOREM QuietSwitchesAreClean == Spec => []QuietSwitchIsClean
<1>1. TypeOK /\ TypeOK' /\ Ownership /\ [Next]_vars => Ownership'
  BY StepOwnership, TypeSplit DEF RestOK, CallOK, TypeOK
<1>2. TypeOK /\ Ownership => QuietSwitchIsClean
  <2> SUFFICES ASSUME TypeOK, Ownership, NEW c \in Device, NEW k \in Key,
                      clean, settings[c][k] # Default
               PROVE  settings[c][k][1] = cookie[c]
    BY DEF QuietSwitchIsClean
  <2>1. Owned(settings[c][k], cookie[c])
    BY DEF Ownership, DeviceOwned, SnapshotOwned
  <2>2. settings[c][k] \in Value
    BY DEF TypeOK, Snapshot
  <2>3. settings[c][k] # Absent
    BY <2>2, MarkersAreDistinct DEF Value
  <2> QED
    BY <2>1, <2>3 DEF Owned
<1> QED
  BY InitOwnership, TypeCorrect, <1>1, <1>2, PTL DEF Spec

=============================================================================
