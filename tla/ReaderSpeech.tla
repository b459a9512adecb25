---------------------------- MODULE ReaderSpeech ----------------------------
(***************************************************************************)
(* Reading an article aloud: the engine ReaderSpeechEngine and speakText   *)
(* of apps/web/src/lib/reader-speech.ts, and useSpeechControl of           *)
(* components/ReaderHeader.tsx on top of it.                               *)
(*                                                                         *)
(* The browser has one synthesizer.  Each call of speakText, from the      *)
(* dictionary card or the command palette, makes an engine of its own on   *)
(* it, and what a cancelled utterance reports comes later, as an end or as *)
(* an error, when a different utterance may be in the air.  A timer, an    *)
(* event and a click each run to completion.  The engines of successive    *)
(* articles are one engine here: their generations only grow.              *)
(***************************************************************************)
EXTENDS Naturals, Sequences

CONSTANTS
  Blocks,       \* readable blocks of the article
  Translated,   \* those with a translation
  Blank,        \* those the lexicon leaves nothing of
  None,
  MaxTurns      \* bound: sessions, changes of rate or voice, calls of
                \* speakText and failures of the synthesizer, together

ASSUME ArticleHasBlocks ==
  /\ Blocks \in Nat \ {0}
  /\ Translated \subseteq 1 .. Blocks /\ Blank \subseteq 1 .. Blocks
ASSUME TurnsAreNatural == MaxTurns \in Nat

Block == 1 .. Blocks
\* A block makes two entries, what it says and its translation.  A queue is
\* the set of its entries: it is always in the order of the article.
Entry == 1 .. 2 * Blocks
BlockOf(i) == (i + 1) \div 2
IsTranslation(i) == i % 2 = 0
First(S) == CHOOSE i \in S : \A j \in S : i <= j

\* An utterance is entry pos in some generation of the reader (word = 0), or
\* the only one of a call of speakText.
Utterance == [word : 0 .. MaxTurns, gen : Nat, pos : 0 .. 2 * Blocks]
\* What the synthesizer reports; an utterance that was cut reports either.
Report == [of : Utterance, as : {"end", "error", "cut"}]

VARIABLES
  gen,      \* generation
  stopped,  \* stopped
  queue,    \* queue
  pos,      \* the entry queuePos points to, or 0
  gap,      \* gapTimer: the generation it was set in, or None
  gapped,   \* interPairGapMs > 0
  sleep,    \* sleepDeadline: off, set or passed
  state,    \* the control: idle, speaking, paused
  shown,    \* the block marked in the article and named in the panel
  voice,    \* the synthesizer: utterances it has to speak, the first is heard
  held,     \* the synthesizer is paused
  reports,  \* events it has yet to fire
  heard,    \* history: entries of this session heard to their end
  cutIn,    \* history: a word was spoken, or yet to report, in this session
  hollow,   \* history: the last start found nothing to read
  turns, words

reader == <<gen, stopped, queue, pos, gap, gapped, sleep>>
control == <<state, shown>>
synthesizer == <<voice, held, reports>>
history == <<heard, cutIn, hollow>>
bounds == <<turns, words>>
vars == <<reader, control, synthesizer, history, bounds>>

TypeOK ==
  /\ gen \in Nat /\ stopped \in BOOLEAN
  /\ queue \in SUBSET Entry /\ pos \in 0 .. 2 * Blocks
  /\ gap \in Nat \cup {None} /\ gapped \in BOOLEAN
  /\ sleep \in {"off", "set", "passed"}
  /\ state \in {"idle", "speaking", "paused"} /\ shown \in Block \cup {None}
  /\ voice \in Seq(Utterance) /\ held \in BOOLEAN
  /\ reports \in SUBSET Report
  /\ heard \in SUBSET Entry /\ cutIn \in BOOLEAN /\ hollow \in BOOLEAN
  /\ turns \in 0 .. MaxTurns /\ words \in 0 .. turns

-----------------------------------------------------------------------------
(* The synthesizer. *)

Cut(v) == {[of |-> v[i], as |-> "cut"] : i \in DOMAIN v}
Spoken(g, p) == [word |-> 0, gen |-> g, pos |-> p]

\* cancel: whether a pause outlives it is up to the browser.
Cancelled == held' \in {held, FALSE}

Turn == turns < MaxTurns /\ turns' = turns + 1

\* The first utterance is heard to its end, or fails.
UtteranceEnds ==
  /\ voice # <<>> /\ ~held
  /\ voice' = Tail(voice)
  /\ reports' = reports \cup {[of |-> Head(voice), as |-> "end"]}
  /\ heard' = IF Head(voice).word = 0 THEN heard \cup {Head(voice).pos} ELSE heard
  /\ UNCHANGED <<reader, control, held, cutIn, hollow, bounds>>

UtteranceFails ==
  /\ voice # <<>> /\ Turn
  /\ voice' = Tail(voice)
  /\ reports' = reports \cup {[of |-> Head(voice), as |-> "error"]}
  /\ UNCHANGED <<reader, control, held, history, words>>

-----------------------------------------------------------------------------
(* The engine.  Each operator is given the utterances v the synthesizer has *)
(* when it is called, and the reports r that are still to come.            *)

\* Fault: the synthesizer is not cancelled.
StopEngineSpeaking(v, r) ==
  /\ gen' = gen + 1 /\ stopped' = TRUE /\ queue' = {} /\ pos' = 0
  /\ gap' = None /\ sleep' = "off"
  /\ voice' = v /\ reports' = r
  /\ state' = "idle" /\ shown' = None

\* stop, and the callbacks that put the control back to idle.
StopEngine(v, r) ==
  /\ gen' = gen + 1 /\ stopped' = TRUE /\ queue' = {} /\ pos' = 0
  /\ gap' = None /\ sleep' = "off"
  /\ voice' = <<>> /\ reports' = r \cup Cut(v)
  /\ state' = "idle" /\ shown' = None

\* finish: the queue is exhausted.
Finish(v, r) ==
  /\ gen' = gen + 1 /\ stopped' = TRUE /\ queue' = {} /\ pos' = 0
  /\ gap' = None /\ sleep' = "off"
  /\ voice' = v /\ reports' = r
  /\ state' = "idle" /\ shown' = None

\* Fault: blocks are counted from 0 where they are marked.
SpeakEntryFromZero(p, g, v, r) ==
  /\ gap' = None
  /\ voice' = Append(v, Spoken(g, p)) /\ reports' = r
  /\ shown' = BlockOf(p) - 1

\* speakEntry.
SpeakEntry(p, g, v, r) ==
  /\ gap' = None
  /\ voice' = Append(v, Spoken(g, p)) /\ reports' = r
  /\ shown' = BlockOf(p)

\* Fault: every entry is preceded by the gap.
AlwaysWaits(p) == gapped

\* A translation is preceded by the gap.
MustWait(p) == IsTranslation(p) /\ gapped

\* Fault: only the end of the queue stops a session.
NeverDue == FALSE

\* The deadline is looked at between entries.
Due == sleep = "passed"

\* speakNext in generation g, when these entries are left.
SpeakNext(left, g, v, r) ==
  \/ Due /\ StopEngine(v, r)
  \/ ~Due /\ left = {} /\ Finish(v, r)
  \/ /\ ~Due /\ left # {}
     /\ pos' = First(left) /\ gen' = g
     /\ UNCHANGED <<stopped, queue, sleep, state>>
     /\ IF MustWait(pos')
        THEN gap' = g /\ voice' = v /\ reports' = r /\ UNCHANGED shown
        ELSE SpeakEntry(pos', g, v, r)

\* The gap is over; the deadline is not looked at again.
GapEnds ==
  /\ gap # None /\ gap = gen
  /\ SpeakEntry(pos, gen, voice, reports)
  /\ UNCHANGED <<gen, stopped, queue, pos, gapped, sleep, state, held, history,
                 bounds>>

DeadlinePasses ==
  /\ sleep = "set" /\ sleep' = "passed"
  /\ UNCHANGED <<gen, stopped, queue, pos, gap, gapped, control, synthesizer,
                 history, bounds>>

-----------------------------------------------------------------------------
(* What the synthesizer reports. *)

\* Fault: an event of any generation is taken for one of the current.
OfAnyGeneration(u) == u.word = 0

\* onend and onerror compare the generation first.
Live(u) == u.word = 0 /\ u.gen = gen

\* Fault: the entry that ended is spoken again.
EntryEndsAgain(e) ==
  /\ Live(e.of) /\ ~stopped /\ e.as \in {"end", "cut"}
  /\ SpeakNext({i \in queue : i >= pos}, gen, voice, reports \ {e})
  /\ IF Due THEN Cancelled ELSE UNCHANGED held
  /\ UNCHANGED <<gapped, history, bounds>>

\* onend.
EntryEnds(e) ==
  /\ Live(e.of) /\ ~stopped /\ e.as \in {"end", "cut"}
  /\ SpeakNext({i \in queue : i > pos}, gen, voice, reports \ {e})
  /\ IF Due THEN Cancelled ELSE UNCHANGED held
  /\ UNCHANGED <<gapped, history, bounds>>

\* onerror: the engine never tries again.
EntryFails(e) ==
  /\ Live(e.of) /\ e.as \in {"error", "cut"}
  /\ StopEngine(voice, reports \ {e}) /\ Cancelled
  /\ UNCHANGED <<gapped, history, bounds>>

\* An utterance of an earlier generation, or the end of a word.
NothingToDo(e) ==
  /\ \/ e.of.word = 0 /\ ~Live(e.of)
     \/ e.of.word # 0 /\ e.as \in {"end", "cut"}
  /\ reports' = reports \ {e}
  /\ UNCHANGED <<reader, control, voice, held, history, bounds>>

\* onerror of the engine of a word: its stop cancels whatever is spoken.
WordFails(e) ==
  /\ e.of.word # 0 /\ e.as \in {"error", "cut"}
  /\ voice' = <<>> /\ reports' = (reports \ {e}) \cup Cut(voice) /\ Cancelled
  /\ UNCHANGED <<reader, control, history, bounds>>

-----------------------------------------------------------------------------
(* What the user does. *)

\* buildSpeechQueue and the filter of speakQueue: the entries of the blocks
\* from b on that have something to say, with their translations if asked.
QueueFrom(b, bilingual) ==
  {i \in Entry : /\ BlockOf(i) >= b /\ BlockOf(i) \notin Blank
                 /\ IsTranslation(i) => bilingual /\ BlockOf(i) \in Translated}

\* startSpeaking: what goes on is stopped first, the deadline is set anew.
\* The first entry is never a translation.
StartSpeaking(b, bilingual, deadline) ==
  LET q == QueueFrom(b, bilingual)
      r == reports \cup Cut(voice)
  IN  /\ Turn
      /\ gen' = gen + 1 /\ queue' = q /\ stopped' = (q = {})
      /\ sleep' = deadline /\ gapped' \in {FALSE, bilingual} /\ Cancelled
      /\ \/ /\ q = {} /\ pos' = 0
            /\ gap' = None /\ voice' = <<>> /\ reports' = r /\ shown' = None
            /\ UNCHANGED state
         \/ /\ q # {} /\ pos' = First(q) /\ SpeakEntry(pos', gen', <<>>, r)
            /\ state' = "speaking"
      /\ heard' = {} /\ cutIn' = (\E e \in r : e.of.word # 0)
      /\ hollow' = (q = {})
      /\ UNCHANGED words

\* toggle when idle starts at the top of the viewport, if anything from there
\* on can be read; speakFromBlock starts at a selection, or, when idle, at a
\* bookmark, which may lie past the end of an article that has changed.
Play ==
  \E b \in 1 .. Blocks + 1, bilingual \in BOOLEAN, deadline \in {"off", "set"} :
    /\ b \in Block \/ state = "idle"
    /\ StartSpeaking(b, bilingual, deadline)

\* toggle.
Pause ==
  /\ state = "speaking"
  /\ state' = "paused" /\ held' = (held \/ ~stopped)
  /\ UNCHANGED <<reader, shown, voice, reports, history, bounds>>

Resume ==
  /\ state = "paused"
  /\ state' = "speaking" /\ held' = (held /\ stopped)
  /\ UNCHANGED <<reader, shown, voice, reports, history, bounds>>

\* stop, and the unmount when another article is opened.
Stop ==
  /\ state # "idle"
  /\ StopEngine(voice, reports) /\ Cancelled
  /\ UNCHANGED <<gapped, history, bounds>>

\* changeRate, changeVoice, changeVoiceForLang: setConfig reads the current
\* entry again in a new generation.
ChangeConfig ==
  /\ state = "speaking" /\ ~stopped /\ Turn
  /\ SpeakNext({i \in queue : i >= pos}, gen + 1, <<>>, reports \cup Cut(voice))
  /\ Cancelled
  /\ UNCHANGED <<gapped, history, words>>

\* changeSleepMinutes.
ChangeSleep ==
  /\ state # "idle" /\ sleep' \in {"off", "set"}
  /\ UNCHANGED <<gen, stopped, queue, pos, gap, gapped, control, synthesizer,
                 history, bounds>>

\* speakText: an engine that knows nothing of the reader's.
SpeakWord ==
  /\ Turn
  /\ words' = words + 1 /\ cutIn' = TRUE
  /\ voice' = <<[word |-> words', gen |-> 0, pos |-> 0]>>
  /\ reports' = reports \cup Cut(voice) /\ Cancelled
  /\ UNCHANGED <<reader, control, heard, hollow>>

-----------------------------------------------------------------------------
Init ==
  /\ gen = 0 /\ stopped = TRUE /\ queue = {} /\ pos = 0
  /\ gap = None /\ gapped = FALSE /\ sleep = "off"
  /\ state = "idle" /\ shown = None
  /\ voice = <<>> /\ held = FALSE /\ reports = {}
  /\ heard = {} /\ cutIn = FALSE /\ hollow = FALSE
  /\ turns = 0 /\ words = 0

Fires(e) == EntryEnds(e) \/ EntryFails(e) \/ NothingToDo(e) \/ WordFails(e)
Browser == UtteranceEnds \/ GapEnds \/ \E e \in reports : Fires(e)
User == Play \/ Pause \/ Resume \/ Stop \/ ChangeConfig \/ ChangeSleep \/ SpeakWord

Next == Browser \/ User \/ UtteranceFails \/ DeadlinePasses

Spec == Init /\ [][Next]_vars

\* The synthesizer speaks what it is given unless it is held, and reports it;
\* timers fire.
FairSpec == /\ Spec /\ WF_vars(UtteranceEnds) /\ WF_vars(GapEnds)
            /\ WF_vars(\E e \in reports : Fires(e))

-----------------------------------------------------------------------------
(* Properties. *)

\* The engine comes to an entry only after every earlier one of the session
\* was heard to its end, however rates are changed and sessions replaced
\* while reports of cancelled utterances are late, unless a word cut in.
NothingIsSkipped ==
  ~stopped /\ ~cutIn => \A i \in queue : i < pos => i \in heard

\* The marked block is the one the engine is at, a pending gap included.
MarkFollowsVoice == ~stopped => shown = BlockOf(pos)

\* The control and the engine agree: nothing of the reader is spoken or will
\* be behind an idle control, and a session shown as being read goes on
\* (unless it was started where there was nothing to read).
ControlMatchesEngine ==
  /\ state = "idle" => /\ stopped /\ gap = None
                       /\ \A i \in DOMAIN voice : voice[i].word # 0
  /\ state # "idle" /\ ~hollow => ~stopped

\* Once the deadline has passed no new block is begun; the translation a gap
\* was already running for may still be.
SleepIsHonoured ==
  [][sleep = "passed" /\ sleep' = "passed" =>
       \A i \in DOMAIN voice' :
         voice'[i].word = 0 =>
           \/ \E j \in DOMAIN voice : voice[j] = voice'[i]
           \/ gap # None /\ IsTranslation(pos)]_vars

\* A session comes to its end, or is held.
ReadingEnds == ~stopped ~> (stopped \/ held)

\* The comments on the engine and on speakText: one channel, what is spoken
\* is cancelled first.
\* Refuted by a word read aloud during a session; not run, see the README.
OneVoice == Len(voice) <= 1

=============================================================================
