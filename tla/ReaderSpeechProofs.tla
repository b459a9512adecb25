------------------------- MODULE ReaderSpeechProofs -------------------------
(***************************************************************************)
(* Proofs about ReaderSpeech: its types, that nothing is skipped, that the *)
(* mark and the control agree with the engine, and the sleep timer, for an *)
(* article of any length.                                                  *)
(***************************************************************************)
EXTENDS ReaderSpeech, WellFoundedInduction, TLAPS

-----------------------------------------------------------------------------
(* Entries. *)

LEMMA FirstIsLeast ==
    ASSUME NEW S \in SUBSET Entry, S # {}
    PROVE  First(S) \in S /\ \A j \in S : First(S) <= j
<1> DEFINE R == OpToRel(<, Nat)
<1>1. S \subseteq Nat /\ S # {}
  BY ArticleHasBlocks DEF Entry
<1>2. IsWellFoundedOn(R, Nat)
  BY NatLessThanWellFounded, Zenon
<1>3. \A i, j \in Nat : i < j => <<i, j>> \in R
  BY DEF OpToRel
<1> HIDE DEF R
<1>4. \E x \in S : \A y \in S : ~ (<<y, x>> \in R)
  BY <1>1, <1>2, WFMin, Zenon
<1>5. \E x \in S : \A y \in S : x <= y
  <2>1. PICK x \in S : \A y \in S : ~ (<<y, x>> \in R)
    BY <1>4
  <2>2. \A y \in S : ~ (y < x)
    BY <1>1, <1>3, <2>1
  <2> QED
    BY <1>1, <2>2
<1> QED
  <2>1. \E x \in S : x \in S /\ \A j \in S : x <= j
    BY <1>5
  <2> QED
    BY <2>1, Zenon DEF First

LEMMA BlockOfEntry == \A i \in Entry : BlockOf(i) \in Block
  BY ArticleHasBlocks DEF Entry, Block, BlockOf

\* A translation is of the block of the entry before it.
LEMMA TranslationFollows ==
    ASSUME NEW i \in Entry, IsTranslation(i)
    PROVE  i - 1 \in Entry /\ ~IsTranslation(i - 1) /\ BlockOf(i - 1) = BlockOf(i)
  BY ArticleHasBlocks DEF Entry, BlockOf, IsTranslation

LEMMA SpokenType ==
    ASSUME NEW g \in Nat, NEW p \in Entry
    PROVE  /\ Spoken(g, p) \in Utterance
           /\ Spoken(g, p).word = 0 /\ Spoken(g, p).gen = g
           /\ Spoken(g, p).pos = p
  BY ArticleHasBlocks, TurnsAreNatural DEF Spoken, Utterance, Entry

LEMMA CutType ==
    ASSUME NEW v \in Seq(Utterance)
    PROVE  /\ Cut(v) \in SUBSET Report
           /\ \A e \in Cut(v) : e.as = "cut" /\ \E i \in DOMAIN v : e.of = v[i]
  BY DEF Cut, Report

-----------------------------------------------------------------------------
(* The invariant.  In each generation there is one thing at a time: a gap,  *)
(* an utterance in the synthesizer, or its report; and it is about the      *)
(* entry the engine is at.                                                  *)

InVoice ==
  \A i \in DOMAIN voice : voice[i].word = 0 =>
    /\ voice[i].gen = gen /\ voice[i].pos = pos /\ ~stopped /\ gap = None
    /\ \A j \in DOMAIN voice : voice[j].word = 0 => i = j

Reported ==
  \A e \in reports :
    /\ e.of.word = 0 => e.of.gen <= gen
    /\ Live(e.of) =>
         /\ e.of.pos = pos /\ ~stopped /\ gap = None
         /\ \A i \in DOMAIN voice : voice[i].word # 0
         /\ e.as = "end" => pos \in heard
         /\ e.as = "cut" => cutIn
         /\ \A f \in reports : Live(f.of) => f = e

Waiting == gap # None => gap = gen /\ ~stopped /\ IsTranslation(pos)

Paired == \A i \in queue : IsTranslation(i) => i - 1 \in queue

Reading == ~stopped => /\ pos \in queue /\ shown = BlockOf(pos)
                       /\ ~cutIn => \A i \in queue : i < pos => i \in heard

NoWords == ~cutIn => /\ \A i \in DOMAIN voice : voice[i].word = 0
                     /\ \A e \in reports : e.of.word = 0

Control == /\ state = "idle" => stopped
           /\ state # "idle" /\ ~hollow => ~stopped

Inv == /\ TypeOK /\ InVoice /\ Reported /\ Waiting /\ Paired /\ Reading
       /\ NoWords /\ Control

\* Nothing of the reader's is left in v or, in generation g, in r.
Clear(v, r, g) ==
  /\ v \in Seq(Utterance) /\ r \in SUBSET Report
  /\ \A i \in DOMAIN v : v[i].word # 0
  /\ \A e \in r : e.of.word = 0 => e.of.gen < g
  /\ ~cutIn => v = <<>> /\ \A e \in r : e.of.word = 0

USE DEF bounds, history, control, synthesizer, reader

LEMMA StopKeeps ==
    ASSUME Inv, NEW v \in Seq(Utterance), NEW r \in SUBSET Report,
           \A i \in DOMAIN v : v[i].word = 0 => v[i].gen <= gen,
           \A e \in r : e.of.word = 0 => e.of.gen <= gen,
           ~cutIn => /\ \A i \in DOMAIN v : v[i].word = 0
                     /\ \A e \in r : e.of.word = 0,
           StopEngine(v, r), UNCHANGED <<gapped, history>>, held' \in BOOLEAN,
           turns' \in 0 .. MaxTurns, words' \in 0 .. turns'
    PROVE  Inv'
<1>1. /\ gen' = gen + 1 /\ stopped' = TRUE /\ queue' = {} /\ pos' = 0
      /\ gap' = None /\ sleep' = "off" /\ voice' = <<>>
      /\ reports' = r \cup Cut(v) /\ state' = "idle" /\ shown' = None
      /\ UNCHANGED <<gapped, heard, cutIn, hollow>> /\ gen \in Nat
  BY DEF StopEngine, Inv, TypeOK
<1>2. reports' \in SUBSET Report
  BY <1>1, CutType
<1>3. \A e \in reports' : e.of.word = 0 => e.of.gen <= gen
  BY <1>1, CutType
<1>4. ~cutIn => \A e \in reports' : e.of.word = 0
  BY <1>1, CutType
<1>5. TypeOK'
  BY <1>1, <1>2, ArticleHasBlocks DEF Inv, TypeOK
<1>6. \A e \in reports' : (e.of.word = 0 => e.of.gen <= gen') /\ ~(Live(e.of)')
  BY <1>1, <1>2, <1>3 DEF Live, Report, Utterance
<1>7. Reported'
  BY <1>6 DEF Reported, Live
<1> QED
  BY <1>1, <1>4, <1>5, <1>7 DEF Inv, InVoice, Waiting, Paired, Reading, NoWords, Control

LEMMA FinishKeeps ==
    ASSUME Inv, NEW v, NEW r, Clear(v, r, gen + 1),
           Finish(v, r), UNCHANGED <<gapped, history>>, held' \in BOOLEAN,
           turns' \in 0 .. MaxTurns, words' \in 0 .. turns'
    PROVE  Inv'
<1>1. /\ gen' = gen + 1 /\ stopped' = TRUE /\ queue' = {} /\ pos' = 0
      /\ gap' = None /\ sleep' = "off" /\ voice' = v
      /\ reports' = r /\ state' = "idle" /\ shown' = None
      /\ UNCHANGED <<gapped, heard, cutIn, hollow>> /\ gen \in Nat
  BY DEF Finish, Inv, TypeOK
<1>2. TypeOK'
  BY <1>1, ArticleHasBlocks DEF Inv, TypeOK, Clear
<1>3. \A e \in reports' : (e.of.word = 0 => e.of.gen <= gen') /\ ~(Live(e.of)')
  BY <1>1 DEF Clear, Live, Report, Utterance
<1>4. Reported'
  BY <1>3 DEF Reported, Live
<1> QED
  BY <1>1, <1>2, <1>4 DEF Inv, InVoice, Waiting, Paired, Reading, NoWords, Control, Clear

\* An utterance for the entry the engine is at is given to the synthesizer,
\* or the gap before it begins.
LEMMA EntryKeeps ==
    ASSUME Inv, NEW g \in Nat, NEW v, NEW r, gen <= g, NEW p \in Entry,
           v \in Seq(Utterance) /\ r \in SUBSET Report,
           \A i \in DOMAIN v : v[i].word # 0,
           \A e \in r : e.of.word = 0 => e.of.gen < g,
           ~cutIn' => v = <<>> /\ \A e \in r : e.of.word = 0,
           gen' = g, stopped' = FALSE, pos' = p, p \in queue',
           queue' \in SUBSET Entry, Paired', sleep' \in {"off", "set", "passed"},
           state' \in {"speaking", "paused"}, held' \in BOOLEAN,
           gapped' \in BOOLEAN, hollow' \in BOOLEAN, cutIn' \in BOOLEAN,
           heard' \in SUBSET Entry,
           ~cutIn' => \A i \in queue' : i < p => i \in heard',
           turns' \in 0 .. MaxTurns, words' \in 0 .. turns',
           \/ SpeakEntry(p, g, v, r)
           \/ /\ gap' = g /\ IsTranslation(p) /\ voice' = v /\ reports' = r
              /\ shown' = BlockOf(p)
    PROVE  Inv'
<1>1. /\ reports' = r /\ shown' = BlockOf(p) /\ shown' \in Block
  BY BlockOfEntry DEF SpeakEntry
<1>2. \A e \in reports' : (e.of.word = 0 => e.of.gen <= gen') /\ ~(Live(e.of)')
  BY <1>1 DEF Live, Report, Utterance
<1>3. Reported' /\ Reading' /\ Control'
  BY <1>1, <1>2 DEF Reported, Live, Reading, Control
<1>4. ASSUME voice' \in Seq(Utterance), gap' \in Nat \cup {None}
      PROVE  TypeOK'
  <2>1. pos' \in 0 .. 2 * Blocks
    BY ArticleHasBlocks DEF Entry
  <2> QED
    BY <1>1, <1>4, <2>1 DEF TypeOK
<1>5. CASE SpeakEntry(p, g, v, r)
  <2> DEFINE u == Spoken(g, p)
  <2>1. u \in Utterance /\ u.word = 0 /\ u.gen = g /\ u.pos = p
    BY SpokenType
  <2>2. gap' = None /\ voice' = Append(v, u)
    BY <1>5 DEF SpeakEntry
  <2> HIDE DEF u
  <2>3. /\ voice' \in Seq(Utterance) /\ DOMAIN voice' = 1 .. Len(v) + 1
        /\ Len(v) \in Nat
        /\ \A i \in DOMAIN v : voice'[i] = v[i]
        /\ DOMAIN v = 1 .. Len(v)
    BY <2>1, <2>2
  <2>4. voice'[Len(v) + 1] = u
    BY <2>1, <2>2
  <2>5. \A i \in DOMAIN voice' : voice'[i].word = 0 => i = Len(v) + 1
    BY <2>3
  <2>6. InVoice'
    BY <2>1, <2>2, <2>4, <2>5 DEF InVoice
  <2>7. NoWords'
    <3> SUFFICES ASSUME ~cutIn'
                 PROVE  /\ \A i \in DOMAIN voice' : voice'[i].word = 0
                        /\ \A e \in reports' : e.of.word = 0
      BY DEF NoWords
    <3>1. v = <<>> /\ DOMAIN voice' = 1 .. 1 /\ voice'[1] = u
      BY <2>2, <2>3, <2>4
    <3> QED
      BY <1>1, <2>1, <3>1
  <2>8. TypeOK'
    BY <1>4, <2>2, <2>3
  <2> QED
    BY <1>3, <2>2, <2>6, <2>7, <2>8 DEF Inv, Waiting
<1>6. CASE gap' = g /\ IsTranslation(p) /\ voice' = v
  <2>1. TypeOK'
    BY <1>4, <1>6
  <2>2. InVoice' /\ NoWords'
    BY <1>1, <1>6 DEF InVoice, NoWords
  <2>3. Waiting'
    BY <1>6 DEF Waiting
  <2> QED
    BY <1>3, <2>1, <2>2, <2>3 DEF Inv
<1> QED
  BY <1>5, <1>6

LEMMA SpeakNextKeeps ==
    ASSUME Inv, ~stopped, NEW left \in {{i \in queue : i > pos}, {i \in queue : i >= pos}},
           NEW g \in {gen, gen + 1},
           NEW v, NEW r, Clear(v, r, g),
           ~cutIn => \A i \in queue \ left : i \in heard,
           SpeakNext(left, g, v, r), UNCHANGED <<gapped, history>>,
           held' \in BOOLEAN, turns' \in 0 .. MaxTurns, words' \in 0 .. turns'
    PROVE  Inv'
<1>1. /\ gen \in Nat /\ g \in Nat /\ gen <= g /\ g <= gen + 1
      /\ v \in Seq(Utterance) /\ r \in SUBSET Report
      /\ queue \in SUBSET Entry /\ left \in SUBSET Entry
  BY DEF Inv, TypeOK, Clear
<1>2. /\ \A i \in DOMAIN v : v[i].word # 0
      /\ \A e \in r : e.of \in Utterance /\ (e.of.word = 0 => e.of.gen < g)
      /\ ~cutIn => v = <<>> /\ \A e \in r : e.of.word = 0
  BY <1>1 DEF Clear, Report
<1>3. \A e \in r : e.of.word = 0 => e.of.gen <= gen /\ e.of.gen < gen + 1
  BY <1>1, <1>2 DEF Utterance
<1>4. CASE Due /\ StopEngine(v, r)
  <2>1. ~cutIn => \A i \in DOMAIN v : v[i].word = 0
    BY <1>2
  <2> QED
    BY <1>1, <1>2, <1>3, <1>4, <2>1, StopKeeps
<1>5. CASE ~Due /\ left = {} /\ Finish(v, r)
  <2>1. Clear(v, r, gen + 1)
    BY <1>1, <1>2, <1>3 DEF Clear
  <2> QED
    BY <1>5, <2>1, FinishKeeps
<1>6. CASE ~Due /\ left # {}
  <2> DEFINE p == First(left)
  <2>1. p \in left /\ p \in Entry /\ p \in queue /\ \A j \in left : p <= j
    BY <1>1, <1>6, FirstIsLeast
  <2>2. /\ pos' = p /\ gen' = g /\ UNCHANGED <<stopped, queue, sleep, state>>
        /\ \/ SpeakEntry(p, g, v, r)
           \/ /\ gap' = g /\ IsTranslation(p) /\ voice' = v /\ reports' = r
              /\ UNCHANGED shown
    BY <1>6 DEF SpeakNext, MustWait
  <2> HIDE DEF p
  <2>3. ~cutIn => \A i \in queue : i < p => i \in heard
    BY <1>1, <2>1 DEF Entry
  <2>4. pos \in queue /\ shown = BlockOf(pos) /\ Paired
    BY DEF Inv, Reading
  <2>5. IsTranslation(p) => p = pos \/ p - 1 = pos
    BY <1>1, <2>1, <2>4 DEF Entry, Paired
  <2>6. IsTranslation(p) => shown = BlockOf(p)
    BY <1>1, <2>1, <2>4, <2>5, TranslationFollows
  <2>7. \/ SpeakEntry(p, g, v, r)
        \/ /\ gap' = g /\ IsTranslation(p) /\ voice' = v /\ reports' = r
           /\ shown' = BlockOf(p)
    BY <2>2, <2>6
  <2>8. Paired' /\ state' \in {"speaking", "paused"} /\ sleep' \in {"off", "set", "passed"}
        /\ queue' \in SUBSET Entry /\ stopped' = FALSE
        /\ gapped' \in BOOLEAN /\ hollow' \in BOOLEAN /\ cutIn' \in BOOLEAN
        /\ heard' \in SUBSET Entry
    BY <2>2, <2>4 DEF Inv, TypeOK, Control, Paired
  <2>9. /\ ~cutIn' => v = <<>> /\ \A e \in r : e.of.word = 0
        /\ ~cutIn' => \A i \in queue' : i < p => i \in heard'
        /\ p \in queue'
    BY <1>2, <2>1, <2>2, <2>3
  <2> QED
    BY <1>1, <1>2, <2>1, <2>2, <2>7, <2>8, <2>9, EntryKeeps
<1> QED
  BY <1>4, <1>5, <1>6 DEF SpeakNext

-----------------------------------------------------------------------------
(* The steps. *)

LEMMA TailOf ==
    ASSUME NEW v \in Seq(Utterance), v # <<>>
    PROVE  /\ Tail(v) \in Seq(Utterance) /\ Head(v) = v[1] /\ 1 \in DOMAIN v
           /\ v[1] \in Utterance
           /\ \A i \in DOMAIN Tail(v) :
                i + 1 \in DOMAIN v /\ i + 1 # 1 /\ i \in Nat /\ Tail(v)[i] = v[i + 1]
  OBVIOUS

LEMMA HeadReported ==
    ASSUME Inv, voice # <<>>, voice' = Tail(voice), NEW k \in {"end", "error"},
           reports' = reports \cup {[of |-> Head(voice), as |-> k]},
           heard' \in SUBSET Entry, heard \subseteq heard',
           k = "end" /\ Head(voice).word = 0 => pos \in heard',
           UNCHANGED <<reader, control, held, cutIn, hollow, words>>,
           turns' \in 0 .. MaxTurns, turns <= turns'
    PROVE  Inv'
<1> DEFINE u == Head(voice)
           n == [of |-> u, as |-> k]
<1>1. /\ voice \in Seq(Utterance) /\ reports \in SUBSET Report
      /\ u = voice[1] /\ 1 \in DOMAIN voice /\ u \in Utterance
      /\ voice' \in Seq(Utterance)
      /\ \A i \in DOMAIN voice' : i + 1 \in DOMAIN voice /\ i + 1 # 1 /\ i \in Nat
                                  /\ voice'[i] = voice[i + 1]
  BY TailOf DEF Inv, TypeOK
<1>2. /\ n \in Report /\ n.of = u /\ n.as = k /\ n.as # "cut"
      /\ reports' = reports \cup {n}
      /\ k = "end" /\ u.word = 0 => pos \in heard'
      /\ \A f : Live(f.of)' <=> Live(f.of)
  BY <1>1 DEF Report, Live
<1> HIDE DEF u, n
<1>3. u.word = 0 => /\ u.gen = gen /\ u.pos = pos /\ ~stopped /\ gap = None
                    /\ \A i \in DOMAIN voice' : voice'[i].word # 0
                    /\ \A e \in reports : ~Live(e.of)
  BY <1>1 DEF Inv, InVoice, Reported
<1>4. TypeOK'
  <2>1. words' \in 0 .. turns' /\ turns' \in 0 .. MaxTurns
    BY TurnsAreNatural DEF Inv, TypeOK
  <2> QED
    BY <1>1, <1>2, <2>1 DEF Inv, TypeOK
<1>5. InVoice'
  BY <1>1, <1>3 DEF Inv, InVoice
<1>6. ASSUME NEW e \in reports', e.of.word = 0
      PROVE  e.of.gen <= gen'
  BY <1>1, <1>2, <1>3, <1>6 DEF Inv, TypeOK, Reported
<1>7. ASSUME NEW e \in reports', Live(e.of)'
      PROVE  /\ e.of.pos = pos' /\ ~stopped' /\ gap' = None
             /\ \A i \in DOMAIN voice' : voice'[i].word # 0
             /\ e.as = "end" => pos' \in heard'
             /\ e.as = "cut" => cutIn'
             /\ \A f \in reports' : Live(f.of)' => f = e
  <2>1. e.of.word = 0 /\ e.of.gen = gen /\ Live(e.of)
    BY <1>7 DEF Live
  <2>2. CASE e = n
    BY <1>2, <1>3, <2>1, <2>2
  <2>3. CASE e \in reports
    <3>1. /\ e.of.pos = pos /\ ~stopped /\ gap = None
          /\ \A i \in DOMAIN voice : voice[i].word # 0
          /\ e.as = "end" => pos \in heard
          /\ e.as = "cut" => cutIn
          /\ \A f \in reports : Live(f.of) => f = e
      BY <2>1, <2>3 DEF Inv, Reported
    <3>2. u.word # 0
      BY <1>1, <3>1
    <3> QED
      BY <1>1, <1>2, <2>3, <3>1, <3>2 DEF Live
  <2> QED
    BY <1>2, <2>2, <2>3
<1>8. Reported'
  BY <1>6, <1>7 DEF Reported, Live
<1>9. Waiting' /\ Paired' /\ Reading' /\ Control'
  BY DEF Inv, Waiting, Paired, Reading, Control
<1>10. NoWords'
  BY <1>1, <1>2 DEF Inv, NoWords
<1> QED
  BY <1>4, <1>5, <1>8, <1>9, <1>10 DEF Inv

\* Everything the synthesizer has is cut for an utterance of a word, or none.
LEMMA CutKeeps ==
    ASSUME Inv, cutIn' = TRUE, voice' \in Seq(Utterance),
           \A i \in DOMAIN voice' : voice'[i].word # 0,
           NEW r \in SUBSET reports, reports' = r \cup Cut(voice),
           UNCHANGED <<reader, control, heard, hollow>>, held' \in BOOLEAN,
           turns' \in 0 .. MaxTurns, words' \in 0 .. turns'
    PROVE  Inv'
<1>1. /\ voice \in Seq(Utterance) /\ reports \in SUBSET Report
      /\ Cut(voice) \in SUBSET Report /\ reports' \in SUBSET Report
      /\ \A e \in Cut(voice) : e.as = "cut" /\ \E i \in DOMAIN voice : e.of = voice[i]
  BY CutType DEF Inv, TypeOK
<1>2. TypeOK'
  BY <1>1 DEF Inv, TypeOK
<1>3. ASSUME NEW e \in reports', e.of.word = 0
      PROVE  e.of.gen <= gen'
  <2>1. CASE e \in reports
    BY <1>3, <2>1 DEF Inv, Reported
  <2>2. CASE e \in Cut(voice)
    BY <1>1, <1>3, <2>2 DEF Inv, TypeOK, InVoice
  <2> QED
    BY <2>1, <2>2
<1>4. ASSUME NEW e \in reports', Live(e.of)'
      PROVE  /\ e.of.pos = pos' /\ ~stopped' /\ gap' = None
             /\ e.as = "end" => pos' \in heard'
             /\ \A f \in reports' : Live(f.of)' => f = e
  <2>1. e.of.word = 0 /\ Live(e.of)
    BY <1>4 DEF Live
  <2>2. CASE e \in Cut(voice)
    <3>1. PICK i \in DOMAIN voice : e.of = voice[i]
      BY <1>1, <2>2
    <3>2. /\ voice[i].pos = pos /\ ~stopped /\ gap = None
          /\ \A j \in DOMAIN voice : voice[j].word = 0 => i = j
      BY <2>1, <3>1 DEF Inv, InVoice
    <3>3. \A f \in reports : ~Live(f.of)
      BY <2>1, <3>1 DEF Inv, Reported
    <3>4. \A f \in Cut(voice) : Live(f.of) => f = e
      BY <2>2, <3>1, <3>2 DEF Cut, Live
    <3> QED
      BY <1>1, <2>2, <3>1, <3>2, <3>3, <3>4 DEF Live
  <2>3. CASE e \in reports
    <3>1. /\ e.of.pos = pos /\ ~stopped /\ gap = None
          /\ \A i \in DOMAIN voice : voice[i].word # 0
          /\ e.as = "end" => pos \in heard
          /\ \A f \in reports : Live(f.of) => f = e
      BY <2>1, <2>3 DEF Inv, Reported
    <3>2. \A f \in Cut(voice) : ~Live(f.of)
      BY <1>1, <3>1 DEF Live
    <3> QED
      BY <3>1, <3>2 DEF Live
  <2> QED
    BY <2>2, <2>3
<1>5. Reported'
  BY <1>3, <1>4 DEF Reported, Live
<1>6. Waiting' /\ Paired' /\ Reading' /\ Control' /\ InVoice' /\ NoWords'
  BY DEF Inv, Waiting, Paired, Reading, Control, InVoice, NoWords
<1> QED
  BY <1>2, <1>5, <1>6 DEF Inv

LEMMA NoneLeft ==
    ASSUME NEW v \in Seq(Utterance), \A i \in DOMAIN v : v[i].word # 0,
           \A i \in DOMAIN v : v[i].word = 0
    PROVE  v = <<>>
  OBVIOUS

LEMMA UtteranceEndsKeeps == ASSUME Inv, UtteranceEnds PROVE Inv'
<1>1. /\ voice # <<>> /\ voice' = Tail(voice)
      /\ reports' = reports \cup {[of |-> Head(voice), as |-> "end"]}
      /\ heard' = IF Head(voice).word = 0 THEN heard \cup {Head(voice).pos} ELSE heard
      /\ UNCHANGED <<reader, control, held, cutIn, hollow, bounds>>
  BY DEF UtteranceEnds
<1>2. /\ Head(voice) = voice[1] /\ 1 \in DOMAIN voice
      /\ heard \in SUBSET Entry /\ queue \in SUBSET Entry
      /\ turns' \in 0 .. MaxTurns /\ turns <= turns'
  BY <1>1, TailOf, TurnsAreNatural DEF Inv, TypeOK
<1>3. Head(voice).word = 0 => Head(voice).pos = pos /\ pos \in Entry
  BY <1>2 DEF Inv, InVoice, Reading
<1>4. /\ heard' \in SUBSET Entry /\ heard \subseteq heard'
      /\ Head(voice).word = 0 => pos \in heard'
  BY <1>1, <1>2, <1>3
<1> QED
  BY <1>1, <1>2, <1>4, HeadReported

LEMMA UtteranceFailsKeeps == ASSUME Inv, UtteranceFails PROVE Inv'
<1>1. /\ voice # <<>> /\ voice' = Tail(voice)
      /\ reports' = reports \cup {[of |-> Head(voice), as |-> "error"]}
      /\ UNCHANGED <<reader, control, held, heard, cutIn, hollow, words>>
  BY DEF UtteranceFails
<1>2. heard' \in SUBSET Entry /\ turns' \in 0 .. MaxTurns /\ turns <= turns'
  BY <1>1, TurnsAreNatural DEF Inv, TypeOK, UtteranceFails, Turn
<1> QED
  BY <1>1, <1>2, HeadReported

LEMMA GapEndsKeeps == ASSUME Inv, GapEnds PROVE Inv'
<1>1. /\ gap # None /\ gap = gen /\ SpeakEntry(pos, gen, voice, reports)
      /\ UNCHANGED <<gen, stopped, queue, pos, gapped, sleep, state, held, heard,
                     cutIn, hollow, turns, words>>
  BY DEF GapEnds
<1>2. TypeOK /\ voice \in Seq(Utterance) /\ reports \in SUBSET Report /\ gen \in Nat
  BY DEF Inv, TypeOK
<1>3. ~stopped /\ pos \in queue /\ pos \in Entry
  BY <1>1 DEF Inv, TypeOK, Waiting, Reading
<1>4. \A i \in DOMAIN voice : voice[i].word # 0
  BY <1>1 DEF Inv, InVoice
<1>5. \A e \in reports : e.of \in Utterance /\ (e.of.word = 0 => e.of.gen < gen)
  BY <1>1, <1>2 DEF Inv, Reported, Live, Report, Utterance
<1>6. ~cutIn => voice = <<>> /\ \A e \in reports : e.of.word = 0
  BY <1>2, <1>4, NoneLeft DEF Inv, NoWords
<1>7. ~cutIn => \A i \in queue : i < pos => i \in heard
  BY <1>3 DEF Inv, Reading
<1>8. state \in {"speaking", "paused"} /\ stopped = FALSE /\ Paired'
  BY <1>1, <1>2, <1>3 DEF Inv, TypeOK, Control, Paired
<1>9. /\ gen' = gen /\ stopped' = FALSE /\ pos' = pos /\ pos \in queue'
      /\ queue' \in SUBSET Entry /\ sleep' \in {"off", "set", "passed"}
      /\ state' \in {"speaking", "paused"} /\ held' \in BOOLEAN
      /\ gapped' \in BOOLEAN /\ hollow' \in BOOLEAN /\ cutIn' \in BOOLEAN
      /\ heard' \in SUBSET Entry
      /\ turns' \in 0 .. MaxTurns /\ words' \in 0 .. turns'
      /\ ~cutIn' => \A i \in queue' : i < pos => i \in heard'
      /\ ~cutIn' => voice = <<>> /\ \A e \in reports : e.of.word = 0
  BY <1>1, <1>2, <1>3, <1>6, <1>7, <1>8 DEF TypeOK
<1>10. gen <= gen
  BY <1>2
<1> QED
  BY <1>1, <1>2, <1>3, <1>4, <1>5, <1>8, <1>9, <1>10, EntryKeeps

LEMMA EntryEndsKeeps == ASSUME Inv, NEW e \in reports, EntryEnds(e) PROVE Inv'
<1> DEFINE r == reports \ {e}
           left == {i \in queue : i > pos}
<1>1. /\ Live(e.of) /\ ~stopped /\ e.as \in {"end", "cut"}
      /\ SpeakNext(left, gen, voice, r) /\ UNCHANGED <<gapped, history, bounds>>
      /\ held' \in BOOLEAN
  BY DEF EntryEnds, Inv, TypeOK, Cancelled
<1>2. /\ voice \in Seq(Utterance) /\ reports \in SUBSET Report /\ gen \in Nat
      /\ turns' \in 0 .. MaxTurns /\ words' \in 0 .. turns' /\ queue \in SUBSET Entry
  BY <1>1 DEF Inv, TypeOK
<1>3. /\ \A i \in DOMAIN voice : voice[i].word # 0
      /\ \A f \in r : ~Live(f.of) /\ (f.of.word = 0 => f.of.gen <= gen)
      /\ e.as = "end" => pos \in heard
      /\ e.as = "cut" => cutIn
  BY <1>1 DEF Inv, Reported
<1>4. \A f \in r : f.of.word = 0 => f.of.gen < gen
  BY <1>2, <1>3 DEF Live, Report, Utterance
<1>5. ~cutIn => voice = <<>> /\ \A f \in r : f.of.word = 0
  BY <1>2, <1>3, NoneLeft DEF Inv, NoWords
<1>6. Clear(voice, r, gen)
  BY <1>2, <1>3, <1>4, <1>5 DEF Clear
<1>7. ~cutIn => \A i \in queue \ left : i \in heard
  <2>1. pos \in queue /\ (~cutIn => \A i \in queue : i < pos => i \in heard)
    BY <1>1 DEF Inv, Reading
  <2> QED
    BY <1>1, <1>2, <1>3, <2>1 DEF Entry
<1> HIDE DEF r
<1> QED
  BY <1>1, <1>2, <1>6, <1>7, SpeakNextKeeps

LEMMA StopsKeep ==
    ASSUME Inv, NEW r \in SUBSET reports, StopEngine(voice, r), Cancelled,
           UNCHANGED <<gapped, history, bounds>>
    PROVE  Inv'
<1>1. /\ voice \in Seq(Utterance) /\ r \in SUBSET Report /\ held' \in BOOLEAN
      /\ turns' \in 0 .. MaxTurns /\ words' \in 0 .. turns'
  BY DEF Inv, TypeOK, Cancelled
<1>2. \A i \in DOMAIN voice : voice[i].word = 0 => voice[i].gen <= gen
  BY DEF Inv, TypeOK, InVoice
<1>3. \A e \in r : e.of.word = 0 => e.of.gen <= gen
  BY DEF Inv, Reported
<1>4. ~cutIn => /\ \A i \in DOMAIN voice : voice[i].word = 0
                /\ \A e \in r : e.of.word = 0
  BY DEF Inv, NoWords
<1> QED
  BY <1>1, <1>2, <1>3, <1>4, StopKeeps

LEMMA FiresKeeps == ASSUME Inv, NEW e \in reports, Fires(e) PROVE Inv'
<1>1. CASE EntryEnds(e)
  BY <1>1, EntryEndsKeeps
<1>2. CASE EntryFails(e)
  <2>1. reports \ {e} \in SUBSET reports
    OBVIOUS
  <2> QED
    BY <1>2, <2>1, StopsKeep DEF EntryFails
<1>3. CASE NothingToDo(e)
  <2>1. TypeOK'
    BY <1>3 DEF NothingToDo, Inv, TypeOK
  <2>2. reports' \subseteq reports /\ gen' = gen
    BY <1>3 DEF NothingToDo
  <2>3. \A f : Live(f.of)' <=> Live(f.of)
    BY <2>2 DEF Live
  <2>4. Reported'
    BY <1>3, <2>2, <2>3 DEF NothingToDo, Inv, Reported
  <2>5. InVoice' /\ Waiting' /\ Paired' /\ Reading' /\ Control' /\ NoWords'
    BY <1>3, <2>2
       DEF NothingToDo, Inv, InVoice, Waiting, Paired, Reading, Control, NoWords
  <2> QED
    BY <2>1, <2>4, <2>5 DEF Inv
<1>4. CASE WordFails(e)
  <2>1. cutIn = TRUE /\ held' \in BOOLEAN /\ turns' \in 0 .. MaxTurns
        /\ words' \in 0 .. turns'
    BY <1>4 DEF WordFails, Inv, NoWords, TypeOK, Cancelled
  <2>2. /\ voice' = <<>> /\ reports' = (reports \ {e}) \cup Cut(voice)
        /\ UNCHANGED <<reader, control, history, bounds>>
    BY <1>4 DEF WordFails
  <2>3. voice' \in Seq(Utterance) /\ \A i \in DOMAIN voice' : voice'[i].word # 0
    BY <2>2
  <2>4. reports \ {e} \in SUBSET reports /\ cutIn' = TRUE
    BY <2>1, <2>2
  <2> QED
    BY <2>1, <2>2, <2>3, <2>4, CutKeeps
<1> QED
  BY <1>1, <1>2, <1>3, <1>4 DEF Fires

LEMMA QueueIsPaired ==
    ASSUME NEW b \in Nat, NEW bilingual \in BOOLEAN, NEW i \in QueueFrom(b, bilingual)
    PROVE  /\ i \in Entry
           /\ IsTranslation(i) => i - 1 \in QueueFrom(b, bilingual)
<1>1. /\ i \in Entry /\ BlockOf(i) >= b /\ BlockOf(i) \notin Blank
      /\ IsTranslation(i) => bilingual /\ BlockOf(i) \in Translated
  BY DEF QueueFrom
<1>2. ASSUME IsTranslation(i)
      PROVE  i - 1 \in QueueFrom(b, bilingual)
  <2>1. i - 1 \in Entry /\ ~IsTranslation(i - 1) /\ BlockOf(i - 1) = BlockOf(i)
    BY <1>1, <1>2, TranslationFollows
  <2> QED
    BY <1>1, <2>1 DEF QueueFrom
<1> QED
  BY <1>1, <1>2

LEMMA PlayKeeps == ASSUME Inv, Play PROVE Inv'
<1>1. PICK b \in 1 .. Blocks + 1, bilingual \in BOOLEAN, deadline \in {"off", "set"} :
        StartSpeaking(b, bilingual, deadline)
  BY DEF Play
<1> DEFINE q == QueueFrom(b, bilingual)
           r == reports \cup Cut(voice)
<1>2. /\ gen' = gen + 1 /\ queue' = q /\ stopped' = (q = {})
      /\ sleep' = deadline /\ gapped' \in {FALSE, bilingual} /\ Cancelled
      /\ \/ /\ q = {} /\ pos' = 0
            /\ gap' = None /\ voice' = <<>> /\ reports' = r /\ shown' = None
            /\ UNCHANGED state
         \/ /\ q # {} /\ pos' = First(q) /\ SpeakEntry(pos', gen', <<>>, r)
            /\ state' = "speaking"
      /\ heard' = {} /\ cutIn' = (\E e \in r : e.of.word # 0)
      /\ hollow' = (q = {}) /\ words' = words /\ turns' = turns + 1 /\ turns < MaxTurns
  BY <1>1 DEF StartSpeaking, Turn
<1>3. q \in SUBSET Entry /\ \A i \in q : IsTranslation(i) => i - 1 \in q
  BY ArticleHasBlocks, QueueIsPaired
<1>4. /\ voice \in Seq(Utterance) /\ reports \in SUBSET Report /\ gen \in Nat
      /\ Cut(voice) \in SUBSET Report /\ r \in SUBSET Report
      /\ \A e \in Cut(voice) : \E i \in DOMAIN voice : e.of = voice[i]
  BY CutType DEF Inv, TypeOK
<1>5. \A e \in r : e.of.word = 0 => e.of.gen < gen + 1
  <2>1. \A e \in reports : e.of.word = 0 => e.of.gen <= gen
    BY DEF Inv, Reported
  <2>2. \A e \in Cut(voice) : e.of.word = 0 => e.of.gen <= gen
    BY <1>4 DEF Inv, InVoice
  <2> QED
    BY <1>4, <2>1, <2>2 DEF Report, Utterance
<1> HIDE DEF q, r
<1>6. /\ gen' \in Nat /\ gen <= gen' /\ held' \in BOOLEAN /\ cutIn' \in BOOLEAN
      /\ gapped' \in BOOLEAN /\ heard' \in SUBSET Entry /\ hollow' \in BOOLEAN
      /\ turns' \in 0 .. MaxTurns /\ words' \in 0 .. turns' /\ Paired'
      /\ sleep' \in {"off", "set", "passed"}
  <2>1. turns \in 0 .. MaxTurns /\ words \in 0 .. turns /\ held \in BOOLEAN
    BY DEF Inv, TypeOK
  <2>2. turns' \in 0 .. MaxTurns /\ words' \in 0 .. turns'
    BY <1>2, <2>1, TurnsAreNatural
  <2>3. Paired'
    BY <1>2, <1>3 DEF Paired
  <2>4. held' \in BOOLEAN /\ gapped' \in BOOLEAN
    BY <1>2, <2>1 DEF Cancelled
  <2>5. hollow' \in BOOLEAN /\ cutIn' \in BOOLEAN
    BY <1>2
  <2> QED
    BY <1>2, <1>4, <2>2, <2>3, <2>4, <2>5
<1>7. CASE q = {}
  <2>1. /\ pos' = 0 /\ gap' = None /\ voice' = <<>> /\ reports' = r /\ shown' = None
        /\ UNCHANGED state /\ stopped' = TRUE /\ queue' = {} /\ hollow' = TRUE
    BY <1>2, <1>7
  <2>2. TypeOK'
    BY <1>4, <1>6, <2>1, ArticleHasBlocks DEF Inv, TypeOK
  <2>3. \A e \in reports' : (e.of.word = 0 => e.of.gen <= gen') /\ ~(Live(e.of)')
    BY <1>2, <1>4, <1>5, <2>1 DEF Live, Report, Utterance
  <2>4. Reported'
    BY <2>3 DEF Reported, Live
  <2>5. NoWords'
    BY <1>2, <2>1 DEF NoWords
  <2> QED
    BY <1>6, <2>1, <2>2, <2>4, <2>5 DEF Inv, InVoice, Waiting, Reading, Control
<1>8. CASE q # {}
  <2>1. First(q) \in q /\ First(q) \in Entry /\ \A j \in q : First(q) <= j
    BY <1>3, <1>8, FirstIsLeast
  <2>2. /\ pos' = First(q) /\ SpeakEntry(First(q), gen', <<>>, r)
        /\ state' = "speaking" /\ stopped' = FALSE
    BY <1>2, <1>8
  <2>3. ~cutIn' => \A i \in queue' : i < First(q) => i \in heard'
    BY <1>2, <1>3, <2>1 DEF Entry
  <2>4. ~cutIn' => \A e \in r : e.of.word = 0
    BY <1>2
  <2>5. <<>> \in Seq(Utterance) /\ \A i \in DOMAIN <<>> : (<<>>)[i].word # 0
    OBVIOUS
  <2>6. \A e \in r : e.of.word = 0 => e.of.gen < gen'
    BY <1>2, <1>5
  <2>7. First(q) \in queue' /\ queue' \in SUBSET Entry
    BY <1>2, <1>3, <2>1
  <2> HIDE DEF First
  <2> QED
    BY <1>4, <1>6, <2>1, <2>2, <2>3, <2>4, <2>5, <2>6, <2>7, EntryKeeps
<1> QED
  BY <1>7, <1>8

LEMMA ChangeConfigKeeps == ASSUME Inv, ChangeConfig PROVE Inv'
<1> DEFINE r == reports \cup Cut(voice)
           left == {i \in queue : i >= pos}
<1>1. /\ ~stopped /\ SpeakNext(left, gen + 1, <<>>, r) /\ UNCHANGED <<gapped, history>>
      /\ words' = words /\ turns' = turns + 1 /\ turns < MaxTurns /\ held' \in BOOLEAN
  BY DEF ChangeConfig, Turn, Cancelled, Inv, TypeOK
<1>2. /\ voice \in Seq(Utterance) /\ reports \in SUBSET Report /\ gen \in Nat
      /\ turns \in 0 .. MaxTurns /\ words \in 0 .. turns /\ queue \in SUBSET Entry
      /\ pos \in Nat
      /\ Cut(voice) \in SUBSET Report
      /\ \A e \in Cut(voice) : \E i \in DOMAIN voice : e.of = voice[i]
  BY CutType, ArticleHasBlocks DEF Inv, TypeOK
<1>3. turns' \in 0 .. MaxTurns /\ words' \in 0 .. turns'
  BY <1>1, <1>2, TurnsAreNatural
<1>4. \A e \in r : e.of.word = 0 => e.of.gen < gen + 1
  <2>1. \A e \in reports : e.of.word = 0 => e.of.gen <= gen
    BY DEF Inv, Reported
  <2>2. \A e \in Cut(voice) : e.of.word = 0 => e.of.gen <= gen
    BY <1>2 DEF Inv, InVoice
  <2> QED
    BY <1>2, <2>1, <2>2 DEF Report, Utterance
<1>5. ~cutIn => \A e \in r : e.of.word = 0
  BY <1>2 DEF Inv, NoWords
<1>6. Clear(<<>>, r, gen + 1)
  BY <1>2, <1>4, <1>5 DEF Clear
<1>7. ~cutIn => \A i \in queue \ left : i \in heard
  BY <1>1, <1>2 DEF Inv, Reading, Entry
<1> HIDE DEF r
<1> QED
  BY <1>1, <1>3, <1>6, <1>7, SpeakNextKeeps

LEMMA SpeakWordKeeps == ASSUME Inv, SpeakWord PROVE Inv'
<1> DEFINE u == [word |-> words', gen |-> 0, pos |-> 0]
<1>1. /\ turns' = turns + 1 /\ turns < MaxTurns /\ words' = words + 1 /\ cutIn' = TRUE
      /\ voice' = <<u>> /\ reports' = reports \cup Cut(voice) /\ held' \in BOOLEAN
      /\ UNCHANGED <<reader, control, heard, hollow>>
  BY DEF SpeakWord, Turn, Cancelled, Inv, TypeOK
<1>2. turns \in 0 .. MaxTurns /\ words \in 0 .. turns
  BY DEF Inv, TypeOK
<1>3. /\ turns' \in 0 .. MaxTurns /\ words' \in 0 .. turns'
      /\ words' \in 0 .. MaxTurns /\ words' # 0
  BY <1>1, <1>2, TurnsAreNatural
<1>4. u \in Utterance /\ u.word # 0
  BY <1>3, ArticleHasBlocks DEF Utterance
<1> HIDE DEF u
<1>5. voice' \in Seq(Utterance) /\ \A i \in DOMAIN voice' : voice'[i].word # 0
  BY <1>1, <1>4
<1> QED
  BY <1>1, <1>3, <1>5, CutKeeps

\* The reader is paused, resumed or told of another deadline.
LEMMA ControlsKeep ==
    ASSUME Inv, held' \in BOOLEAN, sleep' \in {"off", "set", "passed"},
           state' \in {"idle", "speaking", "paused"}, (state' = "idle") = (state = "idle"),
           UNCHANGED <<gen, stopped, queue, pos, gap, gapped, shown, voice, reports,
                       history, bounds>>
    PROVE  Inv'
<1>1. TypeOK'
  BY DEF Inv, TypeOK
<1>2. Reported'
  BY DEF Inv, Reported, Live
<1>3. InVoice' /\ Waiting' /\ Paired' /\ Reading' /\ NoWords'
  BY DEF Inv, InVoice, Waiting, Paired, Reading, NoWords
<1>4. Control'
  BY DEF Inv, Control
<1> QED
  BY <1>1, <1>2, <1>3, <1>4 DEF Inv

LEMMA NextKeeps == ASSUME Inv, [Next]_vars PROVE Inv'
<1> USE DEF Inv, TypeOK
<1>1. CASE UtteranceEnds \/ GapEnds \/ \E e \in reports : Fires(e)
  BY <1>1, UtteranceEndsKeeps, GapEndsKeeps, FiresKeeps
<1>2. CASE Play \/ ChangeConfig \/ SpeakWord \/ UtteranceFails
  BY <1>2, PlayKeeps, ChangeConfigKeeps, SpeakWordKeeps, UtteranceFailsKeeps
<1>3. CASE Pause
  BY <1>3, ControlsKeep DEF Pause
<1>4. CASE Resume
  BY <1>4, ControlsKeep DEF Resume
<1>5. CASE Stop
  <2>1. reports \in SUBSET reports
    OBVIOUS
  <2> QED
    BY <1>5, <2>1, StopsKeep DEF Stop
<1>6. CASE ChangeSleep
  BY <1>6, ControlsKeep DEF ChangeSleep
<1>7. CASE DeadlinePasses
  BY <1>7, ControlsKeep DEF DeadlinePasses
<1>8. CASE UNCHANGED vars
  BY <1>8, ControlsKeep DEF vars
<1> QED
  BY <1>1, <1>2, <1>3, <1>4, <1>5, <1>6, <1>7, <1>8 DEF Next, Browser, User

LEMMA InitInv == ASSUME Init PROVE Inv
<1>1. TypeOK
  <2>1. 0 \in 0 .. 2 * Blocks /\ 0 \in 0 .. MaxTurns /\ 0 \in 0 .. 0
    BY ArticleHasBlocks, TurnsAreNatural
  <2>2. <<>> \in Seq(Utterance) /\ {} \in SUBSET Report /\ {} \in SUBSET Entry
    OBVIOUS
  <2> QED
    BY <2>1, <2>2 DEF Init, TypeOK
<1>2. InVoice /\ Reported /\ NoWords
  <2>1. DOMAIN voice = {} /\ reports = {}
    BY DEF Init
  <2> QED
    BY <2>1 DEF InVoice, Reported, NoWords
<1>3. Waiting /\ Paired /\ Reading /\ Control
  BY DEF Init, Waiting, Paired, Reading, Control
<1> QED
  BY <1>1, <1>2, <1>3 DEF Inv

LEMMA Invariance == Spec => []Inv
<1>1. Init => Inv
  BY InitInv
<1>2. Inv /\ [Next]_vars => Inv'
  BY NextKeeps
<1> QED
  BY <1>1, <1>2, PTL DEF Spec

-----------------------------------------------------------------------------
(* What a reader of an article may rely on. *)

\* Every variable keeps its type: the entry the engine is at is one of the
\* article, and so is the block that is marked.
THEOREM SpeechTypeCorrect == Spec => []TypeOK
<1>1. Inv => TypeOK
  BY DEF Inv
<1> QED
  BY <1>1, Invariance, PTL

\* However long the article, whatever is changed and replaced while reports
\* are late, the engine never comes to an entry before the earlier ones were
\* heard.
THEOREM NothingSkipped == Spec => []NothingIsSkipped
<1>1. Inv => NothingIsSkipped
  BY DEF Inv, Reading, NothingIsSkipped
<1> QED
  BY <1>1, Invariance, PTL

\* The block that is marked is the one the engine is at.
THEOREM MarkIsRight == Spec => []MarkFollowsVoice
<1>1. Inv => MarkFollowsVoice
  BY DEF Inv, Reading, MarkFollowsVoice
<1> QED
  BY <1>1, Invariance, PTL

\* Behind an idle control nothing is read, and what is shown as being read is.
THEOREM ControlIsRight == Spec => []ControlMatchesEngine
<1>1. Inv => ControlMatchesEngine
  <2> SUFFICES ASSUME Inv PROVE ControlMatchesEngine
    OBVIOUS
  <2>1. state = "idle" => stopped
    BY DEF Inv, Control
  <2>2. state = "idle" => gap = None /\ \A i \in DOMAIN voice : voice[i].word # 0
    BY <2>1 DEF Inv, Waiting, InVoice
  <2> QED
    BY <2>1, <2>2 DEF Inv, Control, ControlMatchesEngine
<1> QED
  BY <1>1, Invariance, PTL

\* A deadline that has passed lets no new block begin, whatever the user does.
THEOREM SleepHolds == Spec => SleepIsHonoured
<1> DEFINE Spoke == \A i \in DOMAIN voice' :
                      voice'[i].word = 0 =>
                        \/ \E j \in DOMAIN voice : voice[j] = voice'[i]
                        \/ gap # None /\ IsTranslation(pos)
<1>1. ASSUME Inv, [Next]_vars, sleep = "passed", sleep' = "passed"
      PROVE  Spoke
  <2>1. CASE UtteranceEnds \/ UtteranceFails
    <3>1. voice \in Seq(Utterance) /\ voice # <<>> /\ voice' = Tail(voice)
      BY <1>1, <2>1 DEF Inv, TypeOK, UtteranceEnds, UtteranceFails
    <3> QED
      BY <3>1, TailOf
  <2>2. CASE GapEnds
    BY <1>1, <2>2 DEF GapEnds, Inv, Waiting
  <2>3. ASSUME NEW e \in reports, Fires(e)
        PROVE  Spoke
    <3>1. UNCHANGED voice \/ voice' = <<>>
      BY <1>1, <2>3
         DEF Fires, EntryEnds, EntryFails, NothingToDo, WordFails, SpeakNext, Due,
             StopEngine
    <3> QED
      BY <3>1
  <2>4. ASSUME Play
        PROVE  FALSE
    BY <1>1, <2>4 DEF Play, StartSpeaking
  <2>5. ASSUME ChangeConfig
        PROVE  FALSE
    BY <1>1, <2>5 DEF ChangeConfig, SpeakNext, Due, StopEngine
  <2>6. CASE SpeakWord
    <3>1. words' # 0 /\ voice' = <<[word |-> words', gen |-> 0, pos |-> 0]>>
      BY <1>1, <2>6 DEF SpeakWord, Inv, TypeOK, Turn
    <3> QED
      BY <3>1
  <2>7. CASE Pause \/ Resume \/ ChangeSleep \/ DeadlinePasses \/ UNCHANGED vars
    BY <2>7 DEF Pause, Resume, ChangeSleep, DeadlinePasses, vars
  <2>8. ASSUME Stop
        PROVE  FALSE
    BY <1>1, <2>8 DEF Stop, StopEngine
  <2> QED
    BY <1>1, <2>1, <2>2, <2>3, <2>4, <2>5, <2>6, <2>7, <2>8 DEF Next, Browser, User
<1>2. Inv /\ [Next]_vars => [sleep = "passed" /\ sleep' = "passed" => Spoke]_vars
  BY <1>1
<1> QED
  BY <1>2, Invariance, PTL DEF Spec, SleepIsHonoured

=============================================================================
