# LumiRSS: TLA+ models, checks and proofs

LumiRSS is a self-hosted reader on top of FreshRSS: a FastAPI service (`services/bff`, the
"BFF"), a React client and an iOS client. The state that must survive concurrency and
restarts lives in the BFF, in SQLite files and in the memory of one asyncio process; the web
client keeps state of its own that outlives a request (unsent settings, a reading session, the
verdict that an article has been read). This directory models the parts of both where the
order of steps decides correctness. Paths without a prefix are under
`services/bff/src/lumirss/`; `.ts` and `.tsx` files are under `apps/web/src/`.

## 1. Inventory

How the parts meet: HTTP handlers and background loops are coroutines of one event loop; each
awaits every database call, every FreshRSS call and every provider call, and at each await
another coroutine may run. They share SQLite tables (one commit per statement, or per
`transaction()`), objects on `app.state`, and, per conversation or per index, an
`asyncio.Lock` and a few sets. A second process on the same data directory shares only the
tables. FreshRSS, the AI provider and the SMTP relay are external. In a page of the web client a
timer, an event, an answer and a render with its effects are tasks that run to completion;
between two of them anything else may run, and what a closure captured may have changed.

| Component | State | Operations | What is hard | What makes it correct | Model |
|---|---|---|---|---|---|
| Agent write approvals (`agent_store.py`, `agent.py`, `routers/agent.py`) | `agent_approvals`, `agent_tool_writes`, transcript, pause snapshot | mint, approve, reject, revise, expire, retry, pause, resume | two tabs decide one row; the write and its journal row are awaits apart; restart between them | a row's write runs at most once and only if approved; decisions are final; a result stands on a write of its own conversation | `AgentApproval` |
| Agent turn life cycle (same files, shutdown in `main.py`) | lock, task, flags and subscribers of a conversation; run marker; snapshot | post, cancel, pause, resume, event stream, restart sweep, shutdown | a cancellation can be raised at every await, also while an exception is handled | a stop reaches the turn it was meant for; the marker never stands without a reason; everything ends | `AgentTurn` |
| Search projection (`search_index.py`, `search_writer.py`, `search_meta_store.py`) | `search_entries`, staging table, `search_feeds`, `incomplete`, `partial` | rebuild, incremental sync, mirror of a state change | paging against a source that changes; failures between pages; two service objects | nothing lost silently, aborted rebuilds repeated, the index converges | `SearchProjection` |
| Runtime leases (`runtime.py`) | `runtime_leases` | acquire, release | expiry while the holder is late | no two live holders of a scope; nobody frees another's lease | `RuntimeLeases`, `ExclusiveLease` |
| Mail digest and newsletter ledger (`mail_digest.py`, `newsletter_issues.py`, `routers/newsletter.py`, `routers/mail.py`) | `digest_settings`, `newsletter_issues` | tick, send-now, retry, edit of the recipients | refusal of some recipients, crash between mail and ledger, two instances | the ledger invents no delivery and does not close over a recipient | `DigestDelivery` |
| GPT digest (`gpt_digest*.py`) | editions, configurations | tick, generate, publish | same lease, existence check before a long provider call | one edition per window | planned |
| Accounts, invites, FreshRSS pool (`accounts_store.py`) | accounts, invites, pooled accounts | claim, provision, give back | two rows claimed together, provisioning fails half way | an invite and a pooled account are used once, and given back | planned |
| Settings synchronisation (`store/settings-sync.ts`, `lib/auth-reset.ts`, the conflict store and dialog; `routers/settings.py`, `app_settings.py`) | settings and dirty keys of a device, revision, flush chain, dialog; the stored document of an account | edit, debounce, flush, hydrate, seed, conflict, pagehide, reload, log-out and log-in; GET and PATCH | a page goes on while requests are out; lost answers; switches of account | what a user changed is delivered or reported; nothing leaks between accounts | `SettingsSync` |
| Reading aloud (`lib/reader-speech.ts`, `components/ReaderHeader.tsx`) | queue, generation, gap timer, sleep deadline; state of the control; the browser's utterances | start, pause, resume, stop, change of rate, a word spoken from elsewhere | events of cancelled utterances come late; several engines share one synthesizer | no block skipped, the mark is where the voice is, the control tells the truth, the sleep timer holds | `ReaderSpeech` |
| Read marks (`api/queries.ts`, `components/EntryList.tsx`, `lib/finish-read.ts`, `components/Reader.tsx`) | caches of the list and of the article, what the observer saw, timers, undone articles | writes, fetches, scrolling, opening, dwelling, hiding | answers out of order, timers that outlive what started them, stale closures | a mark nobody made by hand is earned, and an earned one is made | `EntryWrites`, `ScrollMarks`, `FinishRead` |
| Web client: the rest | none of its own | forms, pages, lists, generated API types | | | not modelled |
| Reading queue (`reading_queue.py`) | positions | add, move, remove | concurrent moves | a permutation stays a permutation | planned |
| Backup and restore (`backup.py`) | several databases, archives | create, restore | restore order, partial failure | all or nothing | planned |
| Inbox, webhooks, dead letters (`inbox_store.py`, `api_sources.py`, `new303_*`, `new305_*`) | inbox rows, dead letters | receive, replay | duplicates | each delivery counted once | planned |
| Obsidian export (`obsidian_export.py`) | files in a vault, export rows | export, conflict | file edited in between | user edits survive | planned |
| Retrieval and AI functions (`rag*.py`, `ai_*.py`) | chunks, embeddings, quota | index, ask, summarize | quota under concurrency | quota not exceeded | planned (quota) |
| Agent tools and undo (`agent_tools.py`, ...) | what the tools write | tools, undo | undo of a write that was changed since | undo only what is unchanged | planned (undo) |
| Scheduler registry (`runtime.py`), storage (`storage.py`, `db_tx.py`, `migrations.py`), sessions (`auth_store.py`, ...), mail bridge, OPML, RSSHub, library, about 190 small `newNNN_*` features, clients, deployment | see `PROJECT.json` | | I/O, parsing, cryptography, single-row updates | | not modelled; the grain of storage (one commit per statement or `transaction()`) is the grain of the steps of every module |

`PROJECT.json` repeats this list with sources, and lists the hazards, each at its line.

## 2. Plan

Done: `AgentApproval`, `AgentTurn`, `SearchProjection`, `SettingsSync`, `ReaderSpeech`,
`DigestDelivery` over `RuntimeLeases` and `ExclusiveLease`, `ScrollMarks` and `FinishRead` over
`EntryWrites`, each with a module of proofs. Every safety property of a passing run is proved, three
of `SearchProjection` under hypotheses (section 5).

Next, in this order:

1. Proofs that say under which hypotheses a refuted sentence holds, as `JournalSuffices` does
   and `OwnKeysSuffice` do for the journal: `OneVoice`, `EditStaysPending`,
   `OnlyUndoneIsSuspended`, `WindowSentOnce`.
2. `AgentSession`: the composition of `AgentTurn` and `AgentApproval`, so that a resumed turn
   has its transcript, a cancel reaches the summarizing round, and a stale snapshot can be
   told from a current one; undo.
3. `SettingsSync` with two devices of one account and an abstract register that says which
   updates a conflict may lose.
4. `AccountPool`: an abstract "one invite, one account" and the claim/provision/give-back of
   `accounts_store.py` as its implementation.
5. `ReadingQueue` (positions as a sequence, moves as operators checked against a reference).
6. `GptDigest` over `RuntimeLeases`.
7. Inbox and dead letters, backup and restore, Obsidian export.

## 3. Modules

### AgentApproval
One step is a stretch of code between two awaits. `appr` is `agent_approvals`, `journal` is
`agent_tool_writes`, `results` the successful tool rows of the transcript, `req` the handlers
in flight with their locals. Approving is `Approve` (SELECT), `Claim` (conditional UPDATE),
`Policy`, `Lookup` (journal), `Invoke` (the write), `Record` (journal row), `AppendResult`;
revising is `Revise`, `MintRevision`, `Supersede`; retrying `Retry`, `Remint`; pausing
`Pause`, `Freeze`; resuming `Resume`, `Settle`. `ProviderSuspends`, `ProviderDenied` and
`ProviderAnswers` are what a turn can do. `effect` is a history variable: how often a row's
write ran, and under which turn key. Call ids are fresh per turn (the provider makes them). The
journal is one table for all conversations: its key holds the tool, the arguments and the number
of the turn in its conversation, and not the conversation.

### AgentTurn
One conversation: lock, task, flags, subscribers, marker and snapshot are kept per conversation, so
another one shares nothing of what is modelled here. A turn is at a *place*, which is an await (or a group of awaits inside the
`try` block). `hard` is a `task.cancel()` that has not been raised yet; `Interrupt` raises it. The
statement that was awaited goes on in its thread (`Database._run`): `Abandon` puts it among the
`stray` ones, and `Land` commits it later, after whatever came in between. So the INSERT of a marker
can land after the DELETE meant for it, and a late DELETE can take a later turn's marker. A `marker`
is `ours`, of an `old` process, or `left` over: by a late INSERT, or by a process whose turn began in
the second in which this one started, which the sweep spares. `Raised` is the heart: inside the `try` block of
`_managed_turn` an exception leads to a finishing clause, inside such a clause it ends the
task. `covered` says where a finishing turn is. Messages, cancels, pauses and resumes are
handlers; streams subscribe, replay, wait. `asked` and `broken` are history. A place inside
`_turn_rounds` stands for provider and tools together; what approvals do is
`AgentApproval`'s subject. `Shutdown` may be followed by further requests, which the program does not
allow: the model has more behaviours, never fewer.

### SearchProjection
`up` is FreshRSS (entries with a state, newest last), `live` and `stage` the two tables,
`job` the rebuilds and syncs with their locals (`known` is the map read once at the start,
`held` the page fetched). A table is a function from entries to a state or `Absent`.
`Overlap` says whether two service objects may work at once: the code has two (the loop's and
the handlers'), and the lock belongs to one object. `OtherClients` lets FreshRSS be edited
behind the BFF. FreshRSS gains entries (`Arrive`) and drops them (`Purge`); `Fetch` brings a page,
or an answer without entries, which the walk takes for its end.

### ExclusiveLease, RuntimeLeases, DigestDelivery
`ExclusiveLease` is what a lease promises: at most one protected claim per scope.
`RuntimeLeases` is the table with its sweep, its takeover and its release. `DigestDelivery`
adds the schedulers (check, acquire, prepare, send, ledger row, mark, release), send-now,
retry, the relay that answers each address on its own, and edits of the recipients;
`Windows` instantiates `ExclusiveLease` with the claims of schedulers whose lease has not
expired. The clock is a counter; `Hour[t]` is the hour unit `t` lies in.

### SettingsSync
A device is a browser with one tab, the server a row per account and the separate reads
and the write of its handlers. `call[c]` holds the requests of a page by the place in the code that
awaits them: the flush chain, the hydration at the start, the one after a log-in, and one
nobody waits for (the keepalive of `pagehide`). `Edit` is the subscription of
`initSettingsSync`; `DebounceFires`, `Online` call `flush`; `FlushSaved`, `FlushRefused`,
`ConflictReported`, `FlushFailed` are its branches, each with the `finally` clause that starts
the queued flush; `SeedServer`, `SeedSaved`, `HydrateMerges`, `HydrateFails` are `hydrate`;
`Discard` is the dialog; `Logout`, `Login` and `ResetAccount` the change of account. `ServeGet`,
`ServeCheck`, `ServeSave` and `LaterRevision` are the server: the revision is read in a
statement of its own, so that it may belong to a later document than the one returned. The
revision is a hash of the stored row, so in the model it *is* the row. `pending` is history:
what a user chose and the server has yet to store, and in which circumstances it was chosen.

### ReaderSpeech
`reader` is the state of `ReaderSpeechEngine`, `control` that of `useSpeechControl`, `voice` the
utterances the browser has, `reports` the events it has yet to fire. `UtteranceEnds` is the
browser; `EntryEnds`, `EntryFails`, `NothingToDo`, `WordFails` the callbacks, with the guard on
the generation; `GapEnds` the timer; `SpeakNext` the heart of the engine, which honours the
sleep deadline, waits before a translation or speaks. `Play`, `Pause`, `Resume`, `Stop`,
`ChangeConfig` (a new generation of the current block), `ChangeSleep` are the user's;
`SpeakWord` is `speakText`, whose engine cancels everything on the synthesizer, and the
reader's engine hears of it later as the end of an utterance of its own generation.

### EntryWrites, ScrollMarks, FinishRead
`EntryWrites` is a PATCH of an entry's read state: sent, carried out, answered or lost, in any
order. `ScrollMarks` adds the list's cache, which `Answer` patches, `ListAnswered` replaces and
`ListFails` leaves as it was, and the observer of `EntryList`: `ListRenders` is the effect that builds
a new observer (clearing timers and guarding rows that became unread again), `Notify` its callback,
`SettleEnds` the timer that marks. `top` is the row in the list's viewport and `gone` counts those
above the browser's: rows in between are behind the header, out of view for the observer, and not
yet past for the test that starts the timer (`bottom < 0`). `loose` and `crossed` are history: of
which entries the cache, and the fetch that is out, may have missed a write. `FinishRead` adds the cache of the open article and
`useFinishRead`: `Open` only selects, `ReaderRenders` runs the effects in the order of their
declaration, `Progress` and `HideShow` feed `Evaluate`, `DwellEnds` marks, `Confirm` is the
button. The two do not share state beyond the writes, whose `Origin` says who made them; each
treats the other's, and a user's, as `Mark`; `MarkElsewhere` is another device's, of which no
answer comes here.

`PROJECT.json` "map" gives each definition its lines. Operators whose comment begins
with "Fault:" (such as `EndFlushStuck` or `ListRendersUnobserved`) are used by no specification:
they are plausible bugs of the code, each before the definition it varies, and each property
of a passing run is violated when that definition is replaced by one of them.

## 4. What the runs check

`CHECK_DEADLOCK FALSE` where it is said: these systems wait for requests, and bounded
counters stop them; a state without successors is a state in which nobody asks for anything.
`ScrollMarks` and `FinishRead` never stop (one can always scroll and open articles), and there
deadlock is checked.

Passing runs:

| Run | Distinct states | Shows |
|---|---|---|
| `AgentApprovalConcurrent` | 786,059 | With two handlers at work on three rows, one restart or half-failed write: `ExecutedAtMostOnce`, `ExecutedOnlyIfApproved`, `SupersededPointsToReplacement`, `DecisionsAreFinal`. |
| `AgentTurnLifecycle` | 333,782 | `StopsWereAsked` (a stop does not reach a later turn), `MarkerIsExplained` (a marker without a turn comes from an interrupted finalization, from an earlier process nobody has swept, from a statement that landed after its cancellation, or from the second in which the process started), `SweepSparesLiveTurns`, `WaitingStreamHasPublisher` (no `turn_done` falls between replay and wait), and under fairness `TurnsEnd`, `StreamsEnd`. |
| `SearchProjectionTurns` | 160,732 | When rebuilds do not overlap: `EntriesNeverLost` (a row FreshRSS still has goes only in the swap of a walk that ended at its cap or at a later answer without entries), `ReportIsHonest`, `LeftoverIsMarked`, and under fairness `RebuildRetried`, `NewestPageConverges`. |
| `DigestDeliveryLedger` | 2,054,780 | `SentIsReal`, `ClosedOwesNobody` (an issue closed as sent reached every address it lists, but for those put into or taken out of the settings), and the refinement `WindowsAreExclusive`. |
| `SettingsSyncDelivery` | 520,194 | One device, two accounts, and a lost request or answer, a hidden or reloaded page, or a log-out: `QuietEditStaysPending` (a change made while no PATCH carries its key is remembered until it is stored), `QuietSwitchIsClean` (with nothing in the air at a switch of account, no value chosen under one shows under the other), and under fairness `QuietEditSettles` (a change on its way is stored, or the dialog is up, or after a loss it waits for the user, dirty and shown as such). |
| `ReaderSpeechSessions` | 437,699 | `NothingIsSkipped`, `MarkFollowsVoice`, `ControlMatchesEngine`, `SleepIsHonoured`, and under fairness `ReadingEnds`. |
| `ScrollMarksList` | 440,568 | `ListAgrees` (with no fetch out, the list has what the server has of every entry without a write on its way, but for entries of which the cache is known to have missed a write), and under fairness `ScrollMarksAreMade` (a row seen, unread and above the browser's viewport is marked, however often the list is drawn again, unless it was last reported behind the header). |
| `FinishReadArticles` | 1,086,044 | `FinishMarksAreEarned` (the dwell timer marks the article it was started for, and none that became unread again while open), and under fairness `FinishMarksAreMade` (an article whose end stays in view after enough reading is marked). |

Violation runs, each against a sentence of the repository (quoted in "findings"):

| Run | The sentence | What the code does |
|---|---|---|
| `AgentApprovalRetryRace` | a journaled write never executes twice in a turn | retry between the write and its journal row mints a second approval; the write runs again |
| `AgentApprovalForeignResult` | an approved write goes through the per-thread journal | the journal's key names no conversation: the same call approved in the turn of the same number of another conversation is answered from the first one's row, and its write never runs |
| `SettingsSyncLostEdit` | dirty keys are cleared when they are stored and kept on failure | a key changed again while its PATCH is out is cleared with it; if the next PATCH fails, the change is forgotten |
| `FinishReadSuspended` | the suspended articles are those the user made unread again | the effect compares the flag of the article that was left with that of the new one, and suspends an article nobody touched |

Sentences the code contradicts, stated as definitions of the modules and refuted by TLC, that
have no standing run. With the specification `Spec` (unless said otherwise), the definition as
the only invariant or property, `CHECK_DEADLOCK FALSE` and the constants given, TLC finds the
counterexample:

| Definition | The sentence | What the code does | Constants |
|---|---|---|---|
| `CallExecutedOnce` (`AgentApproval`) | completed steps are never re-executed (`routers/agent.py`, resume) | `resume_prepare` (`agent.py:464`, `489`) mints an approval for an expired row whose call has run under another row | one thread, call and request, two payloads, four rows, `MaxTurns = MaxQueued = 1`, `MaxFaults = 0` |
| `NeverStuckProcessing` (`AgentTurn`) | cancel always ends in `cancelled`, never stuck `processing` (`agent.py:19-21`) | a second cancel interrupts the finalization of the first (`agent.py:334`); the marker stays | `MaxTurns = 1`, `Handler = {h1}`, `Stream = {}`, `MaxCancels = 2`, `MaxFaults = 0` |
| `ResumeContinues` (`AgentTurn`) | otherwise the background continuation runs the remaining rounds (`agent.py:447-448`) | `start_resume` is not awaited (`routers/agent.py:844-846`); the snapshot is consumed and nothing starts | as above, `MaxCancels = 0` |
| `ReportIsHonest` (`SearchProjection`) | the lock keeps two rebuilds apart (`search_index.py:114-116`) | it belongs to one of two service objects (`main.py:480`, `deps.py:506`) | `Overlap = TRUE`, `Newest = 2`, `Mark = {new}`, `Manual = {m1}`, `Patch = {}`, `PageSize = 1`, `RebuildPages = SyncPages = 2`, `OtherClients = TRUE`, `MaxChanges = MaxFaults = 0` |
| `KnownPageHidesNothing` (`SearchProjection`) | behind a fully known page everything is indexed (`search_index.py:224-225`, `282`) | a sync that failed between two pages leaves a hole that later syncs do not see | as the passing run, `RebuildPages = SyncPages = 3`, `Manual = {}` |
| `StateIsPickedUp` (`SearchProjection`) | the next sync picks the state up either way (`search_index.py:505-509`) | a change overtaken by a rebuild stays wrong for an older entry | as the passing run, `Newest = 2`, `OtherClients = FALSE`, `FairSpec` |
| `WindowSentOnce` (`DigestDelivery`) | a second process cannot send the window twice (`mail_digest.py:380-381`) | `last_sent_at` is read before the lease and not again under it (`432`) | as the passing run, `Handler = {}`, `MaxFaults = 0` |
| `ConflictMeansOtherDevice` (`SettingsSync`) | a 409 means that another device has written (`settings-sync.ts:153`, `SettingsConflictDialog.tsx:94`) | `hydrate` drops the revision its own seed returns (`settings-sync.ts:235`); the first change goes out over revision 0 and is refused | one device, account, key and shade, `MaxEdits = 1`, `MaxFaults = MaxSwitches = 0` |
| `OneVoice` (`ReaderSpeech`) | one channel: what is spoken is cancelled first (`reader-speech.ts:793`) | `speakText` cancels an utterance of the reader, whose engine takes the late `onend` for its own and speaks its next block along with the word | as the passing run |

Disagreements and weaknesses seen while modelling that have no definition of their own:

- `routers/agent.py:214` checks for a pending approval when a message arrives; the turn may
  start after the running one has suspended, over its approval (`agent_store.py:25-26`).
- A retry merges into the row as it is after its own mails went out, but takes the status from
  those mails alone (`mail_digest.py:516-521`, `522`). Monday's row has failed for `a`; a retry
  reads it and mails `a`; meanwhile `b` is put into the settings and the next tick of the hour
  mails both, is refused by both and writes them to the row as failed; the retry finds that row,
  merges, and closes it as sent with `b` still failed. A sent row cannot be retried, so `b` does
  not get this issue. Hence `ClosedOwesNobody` excepts addresses that were put into the settings
  (`edited`); without the exception TLC finds this behaviour with `Spec`, one scheduler
  and `MaxFaults = 3`. No sentence of the repository says otherwise.
- After a partial failure, or a crash before `mark_sent`, the next tick of the hour mails
  every recipient again; `newsletter_issues.py:3-13` promises otherwise.
- A cancel that is refused, or one of an earlier turn, leaves its flag; the summarizing round
  after an approval checks the flag outside `_managed_turn` (`agent.py:793`) and stops.
- The pause route saves its snapshot after several awaits; a turn started meanwhile has
  already dropped the snapshot (`agent.py:535-538`), and resume points at the older turn.
- A marker that is left over (see `AgentTurn`) is never swept: the conversation shows as running and a
  stream upon it waits for its idle time, until a cancel or the end of the next turn deletes it. A DELETE that lands late can take the marker of a later turn, which then runs unmarked.
- FreshRSS answering a later page of a rebuild without entries and without a continuation is taken for
  the end (`search_index.py:163-176`): the swap drops the rows behind it, and `partial` stays false.
- The cancel route that takes a marker for an orphan (`routers/agent.py:256-263`) can delete
  the marker of a turn that has just started.
- After a 409 the client forgets the revision (`settings-sync.ts:176-177`): the next flush
  carries none and overwrites the other device behind the open dialog. The comment above it
  still describes a silent second hydration. The dialog's submit copies the whole answer of
  the GET into the PATCH, which the server refuses with 400 as unknown fields; the way out is
  to discard, which keeps the dirty keys.
- A PATCH that is lost while the browser stays online is sent again only by the next change, the
  retry button, an `online` event or a reload (`settings-sync.ts:307-311`): nothing makes any of
  these happen, so `QuietEditSettles` lets such a change wait, as long as it is dirty.
- `resetAccountSettingsSync` leaves the queued flush, a hydration that is out and the dialog of
  the old account (hence the condition "at rest" of `QuietSwitchIsClean`). A hydration that was
  lost is tried again only by the probe or a reload.
- A start of the reading at a point behind which nothing can be read stops the session and
  returns with the control at "speaking" (`ReaderHeader.tsx:291-296`). The sleep deadline is not
  looked at again when the gap before a translation ends.
- The dwell timer of `useFinishRead` uses the read flag of the render that started it
  (`finish-read.ts:189`). An automatic mark of one article that fails after the next one was
  opened shows its error there, and its Retry marks the new article (`finish-read.ts:171`).
- Building a new observer empties the guard of rows that are visible and were made unread by
  hand (`EntryList.tsx:774-775`). The guard (784) is for rows the list showed as read. In the unread
  view such a row is absent; when its mark is undone it comes back unguarded, and if it was seen
  before and lies above, the new observer's first report marks it again with no scrolling at all.
- A row scrolled slowly leaves the list's viewport behind the header, with `bottom` still above zero:
  no timer starts (`EntryList.tsx:818`; the list scrolls below the header, 1155-1158), and no further
  report comes until the list is drawn anew. `ScrollMarksAreMade` excepts such rows.
- A scroll mark the server refused is not tried again. Writes of one entry are not serialised, and
  a fetch answered before a write is applied after its patch. When the fetch after a mark-unread
  fails, the row stays missing from the unread view (`queries.ts:644-646`). What another device writes
  comes only with a fetch. These are the entries `loose` of `ScrollMarks`. After a pull that failed no
  further pull starts (`EntryList.tsx:718`, `746`), although 755 says that the notice stays until
  the next one.

### Bounds, and why they are enough
- `AgentApproval`: three rows are what one call needs for an original, its revision and a
  retry; two handlers for every race of two requests; two payloads so that a revision differs;
  one fault because each finding of a crash is local. One conversation in the passing run, whose
  properties are about one row or one decision; what the code joins is the journal, and
  `AgentApprovalForeignResult` has two conversations with a call each.
- `AgentTurn`: a stop or a leftover can reach at most the following turn, since each turn
  starts by discarding the requests: two turns. Two cancels interrupt a finalization. One
  handler at a time, but a cancel of a live turn occupies none, so cancel, pause and resume
  still interleave. One fault: a restart, a failed or a late statement, or a full queue.
- `SearchProjection`: three entries, pages of one, a cap of two pages: a rebuild that stops at
  its cap, a sync that stops before the end and an entry that arrives between two pages all
  occur, and so do, as one change or fault, an entry dropped and an empty answer. Two marks are
  enough to tell an old state from a new one.
- `DigestDelivery`: two schedulers and one handler, two addresses (one reached, one refused),
  three units of time with a lease of one unit so that it expires under its holder, two faults
  or edits. A larger instance takes too long for a standing run: `MCSpec` starts with both
  addresses in the settings, where `Init` allows any. With one scheduler, `Spec` and
  `MaxFaults = 3` (933,917 states) `ClosedOwesNobody` was checked too; it is proved for all.
- `SettingsSync`: one device, one key and one shade already interleave the flush chain, two
  hydrations, the seed, the keepalive and both handlers. A second change is needed for
  `EditStaysPending` (a key changed again), a second account and a log-out for
  `QuietSwitchIsClean`, one fault for a lost answer, a hidden page or a reload. `MCSpec` lets a behaviour have
  a fault or a log-out, not both (`OneDisturbance`), and starts with the session of one account while
  the other has stored nothing (`MCInit`); `SettingsSyncLostEdit` has the second change. The safety
  properties are proved without these bounds.
- `ReaderSpeech`: four blocks of which the first and the last have a translation and the second
  says nothing after the lexicon: every successor of an entry occurs. Three turns are a session,
  its change or its successor, and a word or a failure in between.
- `ScrollMarks`, `FinishRead`: two entries (the row scrolled past and the one it makes room for,
  the article left and the one opened) and two writes, so that one overlaps another or answers
  after it. In the list `MCInit` starts with the last row unread, as nothing makes room for it.

Symmetry is used only in runs without liveness properties, on sets no action tells apart.

### Fairness
- `AgentTurn`: weak fairness per turn, handler and stream and for the sweep: asyncio runs every
  ready task, provider calls have time limits, rounds are counted, and a stream gives up after
  120 silent seconds. Nothing is assumed of requests, faults or decisions of the user.
- `SearchProjection`: weak fairness for each job's steps, for the mirror of a running PATCH and
  for the loop's next cycle (`_search_sync_loop` comes round for ever). FreshRSS may fail
  `MaxFaults` times, then answers; without that nothing could converge.
- `SettingsSync`: weak fairness of answers being handled, of the debounce timer, of the server's
  statements and of the probe at the start. Nothing makes the browser go online or the user press
  the retry button, and no fairness says so. Losses are bounded by `MaxFaults`.
- `ReaderSpeech`: weak fairness of utterances coming to their end unless the synthesizer is
  held, of the gap timer and of the events the browser has yet to fire.
- `ScrollMarks`: weak fairness of the render, of the observer's reports and of the settle
  timers; `FinishRead`: weak fairness of the render and of the dwell timer. Nothing is assumed of the
  network: a mark counts as made when it has left.
- `AgentApproval` and `DigestDelivery` state no liveness.

## 5. What is proved

`AgentApprovalProofs`, for any sets of conversations, calls, payloads, rows and handlers and
any bounds, from the assumptions that `None` is no member of them and the bounds are naturals:

- `TypeCorrect`, `AtMostOneExecution`, `OnlyApprovedWritesRun` from the inductive invariant
  `IInv`: the type invariant, handlers and rows well formed (a handler past its read knows its
  row, conversation and payload, and they agree with the table), claims exclusive (two handlers
  between claim and result work on different rows, and before its effect the count is zero),
  plus the two properties. The properties alone are not inductive: that a write runs once
  follows from the claim being a conditional UPDATE *and* from nobody else being between its
  claim and its effect on the same row.
- `DecisionsStand`: no step changes the status of a decided row; `RowsKeepTheirBinding`: none
  binds a row to another conversation, call or arguments (deleting a conversation, which removes
  its rows, is not in the model). From `IInv`, action by action.
- `OwnKeysSuffice`: `ResultsAreOwn`, which a run refutes, holds of every behaviour in which no handler
  finds another conversation's journal row (`OwnKeys`). `RealInv` says that what a handler carries
  past its journal lookup, and what the journal holds, stands on a write that ran.
- `PointersLead` (`SupersededPointsToReplacement`) from `PointInv`: a handler between `MintRevision`
  and `Supersede` carries a replacement that is committed and matches the row it will retire.
- `JournalSuffices`: `NoDuplicateSideEffect`, which a run refutes, holds of every behaviour in which
  no two handlers are between lookup and journal row of the same arguments in the same turn, and
  no fault cuts a write off from its journal row. `JournalInv` says that a write that ran is in the
  journal or in the hands of the handler that is about to put it there, and that a handler on
  its way to run one has not overlooked an entry. The hypotheses are about what the service
  does not enforce; they say what would have to be (a lock, or lookup and journal row in one
  transaction with the write).

`AgentTurnProofs`, for any number of turns, handlers, streams, cancels and faults:
`TurnTypeCorrect`, `StopsAreAsked`, `MarkersAreExplained`, `SweepSparesMarkers` and
`StreamsHavePublisher`, from one invariant, `TurnInvariant`. None of the properties is inductive.
Stops need that a flag which a live turn would find was raised while it was live
(`_managed_turn` discards earlier ones as soon as it has the lock), that at most one turn is
live, and that a `task.cancel()` on its way was asked for; markers and the sweep need that
nothing is queued or runs before the sweep is done, that a turn which publishes has deleted
its marker, and that what a late statement brings is `left` over and never taken for the marker of a
live turn. A cancellation can be raised in every place, so each of these is proved again for
`Interrupt`, clause by clause of the code's `except` blocks.

`SearchProjectionProofs`, for any number of entries, workers and PATCH handlers, any page size
and any caps:

- `SearchTypeCorrect`, overlapping rebuilds included. That a walk keeps its cap and that each
  kind of job is only at places of its own code is part of the invariant.
- `ReportsAreHonest` and `LeftoversAreMarked`, as long as no two rebuilds overlap (`OneRebuild`). An
  incremental sync may overlap a rebuild. The invariant says that a rebuild is announced by
  `incomplete` from its start to its end, and that what it has counted is staged and, after the
  swap, indexed.
- `EntriesAreKept` (`EntriesNeverLost`), as long as one worker works at a time (`OneAtATime`): a sync
  that overlaps a rebuild may index an entry that arrived behind the rebuild's walk, and the swap
  drops it again. The invariant says that the walk of a rebuild has every indexed entry that FreshRSS
  still has on its side of the cursor, unless an answer without entries cut it short.

The hypotheses are needed, and the service does not enforce them: the loop and the handlers have a
service object and a lock each, and with `Overlap = TRUE` TLC refutes `ReportIsHonest` (see the table
above). In the run `Overlap = FALSE` takes the place of both.

`DigestDeliveryProofs`, for any number of instances, handlers, addresses, hours and lease
lengths:

- `TypeCorrect` from `ShapeInv` (what an actor carries at each step).
- `SendersAreExclusive` and `LeaseRefinement` from `LeaseInv`: owner tokens of schedulers at work
  differ, and each claim that has not expired is backed by the row of its window. The
  refinement maps each step to a grant, an end of claims or a stutter of `ExclusiveLease`.
- `SentIsRealAlways` from `BookInv`: what an actor tallies, and what the ledger calls sent, was
  accepted by the relay.
- `ClosedOwesNobodyAlways` from `AccountInv`: for addresses that were not edited, every row lists
  exactly the recipients of the settings, and an actor that converses has each of them still to
  mail, in its tally, or, in a retry, among those reached before.

`SettingsSyncProofs`, for any sets of devices, accounts, keys and shades and any bounds:

- `TypeCorrect`.
- `QuietEditsPending`: a change made in quiet is dirty, and on screen, until it is stored. The
  property is not inductive: one must know what is on its way. The strengthening says that a
  PATCH whose success would clear the key of such a change (the flush that remembers it, or a
  seed, which clears all) carries its value for the same account, or will not succeed.
- `QuietSwitchesAreClean`: as long as every switch found the device at rest, what is stored for
  an account, shown on a device or in the air was chosen under the account it is kept for.

`ReaderSpeechProofs`, for any article and any bound: `SpeechTypeCorrect`, `NothingSkipped`,
`MarkIsRight`, `ControlIsRight` and the action property `SleepHolds`. The invariant they share
relates the engine to the synthesizer: in each generation there is one thing at a time, a gap,
an utterance or its report, and it is about the entry the engine is at; a report of the present
generation that says "cut" has a word spoken from elsewhere behind it.

`ScrollMarksProofs`, for any number of entries and writes: `ScrollTypeCorrect` and `ListsAgree`. For an
entry of which the cache missed nothing the invariant says that the writes of it on their way
agree, and that its row is right, about to be patched, or waiting for a fetch to be inserted; for
one of which the fetch that is out misses nothing, that no write of it is on its way and that what
the fetch carries is what the server has. So a fetch that succeeds repairs the second kind, and one
that fails harms only rows that waited for it.

`FinishReadProofs`, for any number of articles and writes: `FinishTypeCorrect` and
`FinishMarksEarned`, from the invariant that a dwell timer belongs to the rendered article and
that an article made unread again while it was open is suspended.

Only model-checked are the liveness properties, `TurnsEnd`, `StreamsEnd`, `RebuildRetried`,
`NewestPageConverges`, `QuietEditSettles`, `ReadingEnds`, `ScrollMarksAreMade` and
`FinishMarksAreMade`: fairness is stated with ENABLED, of which the prover knows nothing.

## 6. Abstractions and what is left out

- A statement whose await was cancelled goes on in its thread; that it commits before, or after,
  whatever follows is in the model, that it is still running when the process ends is not told from
  never having run. At most one is late in the run.
- In `DigestDelivery` actors may be on any instance. The conversation with the relay is
  synchronous, so actors of one process exclude each other during it; the model has more
  interleavings, never fewer.
- Expiry of an approval is a flag that an `Age` step sets at any time; the ten minutes are
  not counted.
- In `SettingsSync` a PATCH carries every key, as the code sends whole snapshots; several tabs
  of one browser, `DELETE /settings` and single values are left out.
- In `ReaderSpeech` a queue is a set of entries, always in the order of the article; the engines
  of successive articles are one. `setQueueContinuation` has no caller and is left out; so are
  the choice of a voice and the truncation of long texts.
- In `ScrollMarks` the list's viewport holds one row; the option to mark on scrolling, and in
  `FinishRead` the one to mark finished articles, is on. `reached` stands for the end in view
  *and* enough progress. `Mark` is any write from elsewhere on the page: a user's or the other
  detector's. Favourites, pages of the list, caches of searches and the undo toast are left
  out. The two detectors are not composed: they meet only in the server's state and in writes,
  which either one already receives from anywhere.
- Left out inside other modelled parts: message texts, citations, budgets, masking, rendering of
  mails, `last_error`, ranking and query parsing, side tables of the search writer, deletion
  of a conversation, a client that disconnects from its stream.

### Not modelled

The map covers a small share of the repository, and a faithful one cannot cover most of it.
The implementation is very large and its bulk has no order of steps: `apps/web/src/api` alone
has some ninety thousand lines of generated types and one typed wrapper per endpoint; the
components and pages of the web client render what a query returned; about 190 features
(`new001` and so on) are a small table with a router, each operation a single statement. A model of those
would restate the code line by line and could not be wrong in an interesting way. Of what does
have an order of steps, the parts marked "planned" above remain: the account pool, the reading
queue, the GPT digest, inbox and dead letters, undo, backup and restore, Obsidian export. The
others are I/O, parsing or cryptography. iOS and deployment are a user interface over the HTTP
API and a script.
