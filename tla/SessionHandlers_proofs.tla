----------------------- MODULE SessionHandlers_proofs -----------------------
(***************************************************************************)
(* Proofs about SessionHandlers for every value of its constants.  The     *)
(* inductive invariant has three parts: what is remembered of each session *)
(* is what happened in it (Inv); the cache is the keys of the newest       *)
(* notifications, and two of one key are far apart (Queueing); and every   *)
(* decision in the log is what it should have been (Logging).  The first   *)
(* is independent of the other two: a decision changes no memory.          *)
(***************************************************************************)
EXTENDS SessionHandlers, Ordinals, SequenceTheorems, FiniteSetTheorems, TLAPS

-----------------------------------------------------------------------------
\* The types of the state.

TurnMaps == UNION {[D -> TurnState] : D \in SUBSET Turns}
Memory == [turns : TurnMaps, pending : MaybePrompt, stale : BOOLEAN, attributed : SUBSET Turns]
Life == [live : BOOLEAN, open : {Idle} \cup Turns, last : {Idle} \cup Turns]
Facts == [started : BOOLEAN, visible : MaybeText, toolErrors : Nat, prompt : MaybePrompt,
          prompts : SUBSET Prompts, again : SUBSET Prompts,
          next : MaybePrompt, nexts : SUBSET Prompts, nextAgain : SUBSET Prompts]

Types ==
  /\ config \in Configs
  /\ mem \in [Sessions -> Memory]
  /\ host \in [Sessions -> Life]
  /\ truth \in [Sessions -> Facts]
  /\ redeliveries \in 0 .. MaxRedeliveries

-----------------------------------------------------------------------------
\* One session: its memory m, its life h, the facts t of its open turn, and the
\* number r of redeliveries.

\* Of a session's turns only those DSH has begun are known; between turns and in
\* one at most r ended turns are resident, and of a session that has left nothing.
Tidy(m, h, r) ==
  /\ h.open # Idle => h.live /\ h.open = h.last
  /\ DOMAIN m.turns \subseteq 1 .. h.last /\ m.attributed \subseteq 1 .. h.last
  /\ Cardinality(DOMAIN m.turns \ {h.open}) <= r
  /\ ~h.live => m.turns = <<>> /\ m.pending = NoPrompt

\* What the plugin holds of the open turn is what happened in it.
Truthful(m, h, t) ==
  h.open # Idle =>
    LET st == StateOf(m, h.open)
    IN  /\ st.visible = t.visible
        /\ st.toolErrors = t.toolErrors
        /\ st.sawTurnStart = t.started

\* A held prompt, and the one an open turn has taken, are that turn's, or were seen
\* again in its time.
OwnWords(m, h, t) ==
  IF h.open = Idle THEN m.pending \in {NoPrompt} \cup t.nexts \cup t.nextAgain
  ELSE /\ m.pending \in {NoPrompt} \cup t.prompts \cup t.again
       /\ StateOf(m, h.open).userText \in {NoPrompt} \cup t.prompts \cup t.again

\* As long as nothing was seen twice they are the newest.  A turn seen from its
\* start has taken its prompt, and one met in its middle may still be to take it.
Held(m) == m.pending # NoPrompt /\ ~m.stale

NewestWords(m, h, t) ==
  IF h.open = Idle THEN t.next = IF Held(m) THEN m.pending ELSE NoPrompt
  ELSE LET text == StateOf(m, h.open).userText
       IN  /\ text \in {NoPrompt, t.prompt}
           /\ Held(m) => h.open \in m.attributed \/ (~t.started /\ m.pending = t.prompt)
           /\ t.started => text = t.prompt /\ h.open \in DOMAIN m.turns

Remembered(m, h, t, r) ==
  /\ Tidy(m, h, r) /\ Truthful(m, h, t) /\ OwnWords(m, h, t)
  /\ r = 0 => NewestWords(m, h, t)

SessionsRemembered ==
  \A s \in Sessions :
    IF Excluded(s) THEN mem[s] = EmptyMemory /\ Tidy(mem[s], host[s], redeliveries)
    ELSE Remembered(mem[s], host[s], truth[s], redeliveries)

-----------------------------------------------------------------------------
\* What the operations on one session's memory do.

\* The maps from turn numbers to turn states, without the union.
LEMMA TurnMapsAre ==
  \A f : f \in TurnMaps <=> /\ f = [n \in DOMAIN f |-> f[n]]
                            /\ DOMAIN f \subseteq Turns
                            /\ \A n \in DOMAIN f : f[n] \in TurnState
BY DEF TurnMaps

\* A fresh entry is one, and whatever is asked for is one.
LEMMA StateOfType ==
  ASSUME NEW m \in Memory, NEW n
  PROVE  StateOf(m, n) \in TurnState
<1>1. FreshTurn \in TurnState
  BY DEF FreshTurn, TurnState, MaybeText, MaybePrompt
<1>2. m.turns \in TurnMaps
  BY DEF Memory
<1> QED BY <1>1, <1>2, TurnMapsAre DEF StateOf

\* Registering an entry changes that entry and nothing else.
LEMMA RegisterIs ==
  ASSUME NEW m \in Memory, NEW n \in Turns, NEW st \in TurnState
  PROVE  LET r == Register(m, n, st)
         IN  /\ r \in Memory
             /\ DOMAIN r.turns = DOMAIN m.turns \cup {n}
             /\ StateOf(r, n) = st /\ r.turns[n] = st
             /\ \A k : k # n => StateOf(r, k) = StateOf(m, k)
             /\ r.pending = m.pending /\ r.stale = m.stale /\ r.attributed = m.attributed
<1> DEFINE r == Register(m, n, st)
           f == [k \in DOMAIN m.turns \cup {n} |-> IF k = n THEN st ELSE m.turns[k]]
<1>1. /\ r.turns = f
      /\ r.pending = m.pending /\ r.stale = m.stale /\ r.attributed = m.attributed
      /\ r = [turns |-> f, pending |-> m.pending, stale |-> m.stale, attributed |-> m.attributed]
  BY DEF Register, Memory
<1>2. m.turns \in TurnMaps
  BY DEF Memory
<1>3. f \in TurnMaps
  BY <1>2, TurnMapsAre
<1>4. r \in Memory
  BY <1>1, <1>3 DEF Memory
<1>5. DOMAIN f = DOMAIN m.turns \cup {n} /\ f[n] = st
  OBVIOUS
<1>6. \A k : k # n => StateOf(r, k) = StateOf(m, k)
  BY <1>1, <1>5 DEF StateOf
<1> HIDE DEF f
<1>7. StateOf(r, n) = st /\ r.turns[n] = st
  BY <1>1, <1>5 DEF StateOf
<1> QED BY <1>1, <1>4, <1>5, <1>6, <1>7

\* An event of turn n: its entry exists afterwards and has taken the held prompt, if
\* that is still good and the turn has none; an expired prompt is forgotten.
LEMMA TouchIs ==
  ASSUME NEW m \in Memory, NEW n \in Turns
  PROVE  LET r == Touch(m, n)
             takes == Held(m) /\ n \notin m.attributed
         IN  /\ r \in Memory
             /\ DOMAIN r.turns = DOMAIN m.turns \cup {n}
             /\ r.turns[n] = StateOf(r, n)
             /\ \A k : k # n => StateOf(r, k) = StateOf(m, k)
             /\ StateOf(r, n).sawTurnStart = StateOf(m, n).sawTurnStart
             /\ StateOf(r, n).visible = StateOf(m, n).visible
             /\ StateOf(r, n).toolErrors = StateOf(m, n).toolErrors
             /\ StateOf(r, n).userText = IF takes THEN m.pending ELSE StateOf(m, n).userText
             /\ r.attributed = IF takes THEN m.attributed \cup {n} ELSE m.attributed
             /\ r.pending = IF m.pending # NoPrompt /\ m.stale THEN NoPrompt ELSE m.pending
             /\ Held(r) <=> Held(m)
<1> DEFINE q == Register(m, n, StateOf(m, n))
<1>1. StateOf(m, n) \in TurnState
  BY StateOfType
<1>2. /\ q \in Memory
      /\ DOMAIN q.turns = DOMAIN m.turns \cup {n}
      /\ StateOf(q, n) = StateOf(m, n) /\ q.turns[n] = StateOf(m, n)
      /\ \A k : k # n => StateOf(q, k) = StateOf(m, k)
      /\ q.pending = m.pending /\ q.stale = m.stale /\ q.attributed = m.attributed
  BY <1>1, RegisterIs
<1>3. Touch(m, n) = Seed(q, n)
  BY DEF Touch
<1> HIDE DEF q
<1>4. CASE q.pending = NoPrompt
  BY <1>2, <1>3, <1>4 DEF Seed, Held
<1>5. CASE q.pending # NoPrompt /\ q.stale
  <2> DEFINE r == [q EXCEPT !.pending = NoPrompt, !.stale = FALSE]
  <2>1. Touch(m, n) = r
    BY <1>3, <1>5 DEF Seed
  <2>2. /\ r \in Memory /\ r.turns = q.turns /\ r.attributed = q.attributed
        /\ r.pending = NoPrompt /\ r.stale = FALSE
    BY <1>2 DEF Memory, MaybePrompt
  <2>3. \A k : StateOf(r, k) = StateOf(q, k)
    BY <2>2 DEF StateOf
  <2> HIDE DEF r
  <2> QED BY <1>2, <1>5, <2>1, <2>2, <2>3 DEF Held
<1>6. CASE Held(q) /\ n \in q.attributed
  BY <1>2, <1>3, <1>6 DEF Seed, Held
<1>7. CASE Held(q) /\ n \notin q.attributed
  <2> DEFINE p == [q EXCEPT !.attributed = @ \cup {n}]
             st == [StateOf(q, n) EXCEPT !.userText = q.pending]
  <2>1. /\ p \in Memory /\ p.turns = q.turns /\ p.attributed = q.attributed \cup {n}
        /\ p.pending = q.pending /\ p.stale = q.stale
    BY <1>2 DEF Memory
  <2>2. \A k : StateOf(p, k) = StateOf(q, k)
    BY <2>1 DEF StateOf
  <2>3. /\ st \in TurnState /\ st.userText = q.pending
        /\ st.sawTurnStart = StateOf(q, n).sawTurnStart
        /\ st.visible = StateOf(q, n).visible
        /\ st.toolErrors = StateOf(q, n).toolErrors
    <3>1. q.pending \in MaybePrompt
      BY <1>2 DEF Memory
    <3> QED BY <1>1, <1>2, <3>1 DEF TurnState
  <2>4. Touch(m, n) = Register(p, n, [StateOf(p, n) EXCEPT !.userText = q.pending])
    BY <1>3, <1>7, <2>1, <2>2 DEF Seed, Held
  <2>5. Touch(m, n) = Register(p, n, st)
    BY <2>2, <2>4
  <2> HIDE DEF p, st
  <2> QED BY <1>2, <1>7, <2>1, <2>2, <2>3, <2>5, RegisterIs DEF Held
<1> QED BY <1>4, <1>5, <1>6, <1>7 DEF Held

\* A human's words: between turns they are held, in a turn the turn takes them.
LEMMA OfferUserTextIs ==
  ASSUME NEW m \in Memory, NEW n \in {Idle} \cup Turns, NEW text \in Prompts, text # NoPrompt
  PROVE  LET r == OfferUserText(m, n, text)
         IN  /\ r \in Memory
             /\ n = Idle => /\ r.turns = m.turns /\ r.attributed = m.attributed
                            /\ r.pending = text /\ Held(r)
                            /\ \A k : StateOf(r, k) = StateOf(m, k)
             /\ n # Idle => /\ DOMAIN r.turns = DOMAIN m.turns \cup {n}
                            /\ \A k : k # n => StateOf(r, k) = StateOf(m, k)
                            /\ StateOf(r, n).sawTurnStart = StateOf(m, n).sawTurnStart
                            /\ StateOf(r, n).visible = StateOf(m, n).visible
                            /\ StateOf(r, n).toolErrors = StateOf(m, n).toolErrors
                            /\ StateOf(r, n).userText = text
                            /\ r.attributed = m.attributed \cup {n}
                            /\ r.pending = m.pending
                            /\ Held(r) <=> Held(m)
<1>1. CASE n = Idle
  <2> DEFINE r == [m EXCEPT !.pending = text, !.stale = FALSE]
  <2>1. /\ r \in Memory /\ r.turns = m.turns /\ r.attributed = m.attributed
        /\ r.pending = text /\ r.stale = FALSE
    BY DEF Memory, MaybePrompt
  <2>2. OfferUserText(m, n, text) = r
    BY <1>1 DEF OfferUserText
  <2>3. \A k : StateOf(r, k) = StateOf(m, k)
    BY <2>1 DEF StateOf
  <2> HIDE DEF r
  <2> QED BY <1>1, <2>1, <2>2, <2>3 DEF Held
<1>2. CASE n # Idle
  <2> DEFINE q == [m EXCEPT !.attributed = @ \cup {n}]
             st == [StateOf(m, n) EXCEPT !.userText = text]
  <2>1. n \in Turns
    BY <1>2
  <2>2. /\ q \in Memory /\ q.turns = m.turns /\ q.attributed = m.attributed \cup {n}
        /\ q.pending = m.pending /\ q.stale = m.stale
    BY <2>1 DEF Memory
  <2>3. \A k : StateOf(q, k) = StateOf(m, k)
    BY <2>2 DEF StateOf
  <2>4. /\ st \in TurnState /\ st.userText = text
        /\ st.sawTurnStart = StateOf(m, n).sawTurnStart
        /\ st.visible = StateOf(m, n).visible
        /\ st.toolErrors = StateOf(m, n).toolErrors
    BY StateOfType DEF TurnState, MaybePrompt
  <2>5. OfferUserText(m, n, text) = Register(q, n, st)
    BY <1>2, <2>3 DEF OfferUserText
  <2> HIDE DEF q, st
  <2> QED BY <1>2, <2>1, <2>2, <2>3, <2>4, <2>5, RegisterIs DEF Held
<1> QED BY <1>1, <1>2

\* A settled turn leaves nothing behind, and no prompt is held any more.
LEMMA ReleaseIs ==
  ASSUME NEW m \in Memory, NEW n \in Turns
  PROVE  LET r == Release(m, n)
         IN  /\ r \in Memory
             /\ DOMAIN r.turns = DOMAIN m.turns \ {n}
             /\ \A k : k # n => StateOf(r, k) = StateOf(m, k)
             /\ r.attributed = m.attributed \ {n}
             /\ r.pending = NoPrompt /\ ~Held(r)
<1> DEFINE r == Release(m, n)
           f == [k \in DOMAIN m.turns \ {n} |-> m.turns[k]]
           a == m.attributed \ {n}
<1>1. /\ r.turns = f /\ r.attributed = m.attributed \ {n}
      /\ r.pending = NoPrompt /\ r.stale = FALSE
      /\ r = [turns |-> f, pending |-> NoPrompt, stale |-> FALSE, attributed |-> a]
  <2>1. r = [m EXCEPT !.turns = f, !.attributed = a, !.pending = NoPrompt, !.stale = FALSE]
    BY DEF Release
  <2> HIDE DEF f, r
  <2> QED BY <2>1 DEF Memory
<1>2. m.turns \in TurnMaps
  BY DEF Memory
<1>3. f \in TurnMaps
  BY <1>2, TurnMapsAre
<1>4. r \in Memory
  BY <1>1, <1>3 DEF Memory, MaybePrompt
<1>5. DOMAIN f = DOMAIN m.turns \ {n}
  OBVIOUS
<1>6. \A k : k # n => StateOf(r, k) = StateOf(m, k)
  BY <1>1, <1>5 DEF StateOf
<1> QED BY <1>1, <1>4, <1>5, <1>6 DEF Held

\* An empty memory has no turn.
LEMMA EmptyMemoryIs ==
  /\ EmptyMemory \in Memory
  /\ DOMAIN EmptyMemory.turns = {}
  /\ EmptyMemory.pending = NoPrompt /\ EmptyMemory.attributed = {}
  /\ \A n : StateOf(EmptyMemory, n) = FreshTurn
<1>1. DOMAIN <<>> = {} /\ <<>> = [n \in DOMAIN <<>> |-> <<>>[n]]
  OBVIOUS
<1>2. <<>> \in TurnMaps
  BY <1>1, TurnMapsAre
<1> QED BY <1>1, <1>2 DEF EmptyMemory, Memory, MaybePrompt, StateOf

\* A session that leaves takes everything of it along but the attributions.
LEMMA ReleaseSessionIs ==
  ASSUME NEW m \in Memory
  PROVE  LET r == ReleaseSession(m)
         IN  /\ r \in Memory /\ r.turns = <<>> /\ DOMAIN r.turns = {}
             /\ r.attributed = m.attributed /\ r.pending = NoPrompt /\ ~Held(r)
<1>1. <<>> \in TurnMaps /\ DOMAIN <<>> = {}
  BY EmptyMemoryIs DEF EmptyMemory, Memory
<1> QED BY <1>1 DEF ReleaseSession, Memory, MaybePrompt, Held

\* currentTurn answers with a turn that is known, if one is.
LEMMA CurrentTurnIs ==
  ASSUME NEW m \in Memory
  PROVE  /\ DOMAIN m.turns = {} => CurrentTurn(m) = Idle
         /\ DOMAIN m.turns # {} => CurrentTurn(m) \in DOMAIN m.turns /\ CurrentTurn(m) \in Turns
<1>1. DOMAIN m.turns \subseteq Turns
  BY TurnMapsAre DEF Memory
<1>2. CASE DOMAIN m.turns # {}
  <2>1. \E n \in DOMAIN m.turns : \A k \in DOMAIN m.turns : k <= n
    <3>1. /\ DOMAIN m.turns \in SUBSET Nat /\ MaxTurns \in Nat
          /\ \A n \in DOMAIN m.turns : n <= MaxTurns
      BY <1>1, HandlersAssumption DEF Turns
    <3> QED BY <3>1, <1>2, GreatestElement
  <2>2. CurrentTurn(m) = CHOOSE n \in DOMAIN m.turns : \A k \in DOMAIN m.turns : k <= n
    BY <1>2 DEF CurrentTurn
  <2>3. CurrentTurn(m) \in DOMAIN m.turns
    BY <2>1, <2>2
  <2> QED BY <1>1, <1>2, <2>3
<1> QED BY <1>2 DEF CurrentTurn

\* Fewer turns linger when the set of those that do shrinks, and one more at most
\* when one is added.
LEMMA Lingering ==
  ASSUME NEW D \in SUBSET Turns, NEW E \in SUBSET Turns
  PROVE  /\ Cardinality(D) \in Nat
         /\ E \subseteq D => Cardinality(E) <= Cardinality(D)
         /\ \A n \in Turns : E \subseteq D \cup {n} => Cardinality(E) <= Cardinality(D) + 1
<1>1. IsFiniteSet(Turns)
  BY FS_Interval, HandlersAssumption DEF Turns
<1>2. IsFiniteSet(D) /\ IsFiniteSet(E)
  BY <1>1, FS_Subset
<1>3. Cardinality(D) \in Nat /\ Cardinality(E) \in Nat
  BY <1>2, FS_CardinalityType
<1>4. E \subseteq D => Cardinality(E) <= Cardinality(D)
  BY <1>2, FS_Subset
<1>5. ASSUME NEW n \in Turns, E \subseteq D \cup {n}
      PROVE  Cardinality(E) <= Cardinality(D) + 1
  <2>1. /\ IsFiniteSet(D \cup {n})
        /\ Cardinality(D \cup {n}) = IF n \in D THEN Cardinality(D) ELSE Cardinality(D) + 1
    BY <1>2, FS_AddElement
  <2>2. Cardinality(E) <= Cardinality(D \cup {n})
    BY <1>5, <2>1, FS_Subset
  <2> QED BY <1>3, <2>1, <2>2
<1> QED BY <1>3, <1>4, <1>5

\* As long as nothing was seen twice, no turn but the open one is resident.
LEMMA NoneLinger ==
  ASSUME NEW m \in Memory, NEW h, Tidy(m, h, 0)
  PROVE  DOMAIN m.turns \subseteq {h.open}
<1> DEFINE D == DOMAIN m.turns \ {h.open}
<1>1. DOMAIN m.turns \subseteq Turns
  BY TurnMapsAre DEF Memory
<1>2. IsFiniteSet(Turns)
  BY FS_Interval, HandlersAssumption DEF Turns
<1>3. Cardinality(D) \in Nat /\ IsFiniteSet(D)
  BY <1>1, <1>2, FS_Subset, FS_CardinalityType
<1>4. Cardinality(D) <= 0
  BY DEF Tidy
<1>5. D = {}
  BY <1>3, <1>4, FS_EmptySet
<1> QED BY <1>5

-----------------------------------------------------------------------------
\* What each event does to what is remembered of its session.

\* A turn never heard of has a fresh entry.
LEMMA Unheard ==
  ASSUME NEW m \in Memory, NEW n, n \notin DOMAIN m.turns
  PROVE  StateOf(m, n) = FreshTurn
BY DEF StateOf

\* A turn begins: it is the newest, so nothing of it can be known, and it takes the
\* prompt that waits.
LEMMA StartRemembers ==
  ASSUME NEW m \in Memory, NEW h \in Life, NEW t \in Facts, NEW r \in Nat,
         Remembered(m, h, t, r), h.live, h.open = Idle, h.last + 1 \in Turns
  PROVE  LET n == h.last + 1
             q == Touch(m, n)
             p == Register(q, n, [q.turns[n] EXCEPT !.sawTurnStart = TRUE])
         IN  /\ p \in Memory
             /\ Remembered(p, [h EXCEPT !.open = n, !.last = n],
                           [NoFacts EXCEPT !.started = TRUE, !.prompt = t.next, !.prompts = t.nexts,
                                           !.again = t.nextAgain], r)
<1> DEFINE n == h.last + 1
           q == Touch(m, n)
           p == Register(q, n, [q.turns[n] EXCEPT !.sawTurnStart = TRUE])
           g == [h EXCEPT !.open = n, !.last = n]
           u == [NoFacts EXCEPT !.started = TRUE, !.prompt = t.next, !.prompts = t.nexts,
                                !.again = t.nextAgain]
<1>1. /\ h.last \in Nat /\ n \in Turns /\ n # Idle /\ n = h.last + 1
      /\ g.open = n /\ g.last = n /\ g.live
  BY HandlersAssumption DEF Life, Turns, Idle
<1>2. /\ DOMAIN m.turns \subseteq 1 .. h.last /\ m.attributed \subseteq 1 .. h.last
      /\ Cardinality(DOMAIN m.turns \ {Idle}) <= r
  BY DEF Remembered, Tidy
<1>3. n \notin DOMAIN m.turns /\ n \notin m.attributed /\ StateOf(m, n) = FreshTurn
  BY <1>1, <1>2, Unheard
<1>4. /\ u.started = TRUE /\ u.visible = NoText /\ u.toolErrors = 0
      /\ u.prompt = t.next /\ u.prompts = t.nexts /\ u.again = t.nextAgain
  BY DEF NoFacts
<1>5. /\ q \in Memory
      /\ DOMAIN q.turns = DOMAIN m.turns \cup {n}
      /\ q.turns[n] = StateOf(q, n)
      /\ StateOf(q, n).visible = NoText
      /\ StateOf(q, n).toolErrors = 0
      /\ StateOf(q, n).userText = IF Held(m) THEN m.pending ELSE NoPrompt
      /\ q.attributed = IF Held(m) THEN m.attributed \cup {n} ELSE m.attributed
      /\ q.pending \in {NoPrompt, m.pending}
      /\ Held(q) <=> Held(m)
  BY <1>1, <1>3, TouchIs DEF FreshTurn
<1> DEFINE st == [StateOf(q, n) EXCEPT !.sawTurnStart = TRUE]
<1>6. /\ st \in TurnState /\ st.sawTurnStart = TRUE /\ st.visible = NoText /\ st.toolErrors = 0
      /\ st.userText = IF Held(m) THEN m.pending ELSE NoPrompt
  BY <1>5, StateOfType DEF TurnState
<1>7. p = Register(q, n, st)
  BY <1>5
<1> HIDE DEF q, g, u, st, n, p
<1>8. /\ p \in Memory /\ DOMAIN p.turns = DOMAIN m.turns \cup {n}
      /\ StateOf(p, n) = st
      /\ p.pending = q.pending /\ p.stale = q.stale /\ p.attributed = q.attributed
  BY <1>1, <1>5, <1>6, <1>7, RegisterIs
<1>9. Tidy(p, g, r)
  <2>1. DOMAIN m.turns \in SUBSET Turns
    BY TurnMapsAre DEF Memory
  <2>2. DOMAIN p.turns \ {g.open} = DOMAIN m.turns \ {Idle}
    BY <1>1, <1>2, <1>3, <1>8 DEF Idle
  <2>3. DOMAIN p.turns \subseteq 1 .. n /\ p.attributed \subseteq 1 .. n
    BY <1>1, <1>2, <1>5, <1>8 DEF Idle
  <2> QED BY <1>1, <1>2, <2>2, <2>3 DEF Tidy
<1>10. Truthful(p, g, u)
  BY <1>1, <1>4, <1>6, <1>8 DEF Truthful
<1>11. OwnWords(p, g, u)
  <2>1. m.pending \in {NoPrompt} \cup t.nexts \cup t.nextAgain
    BY DEF Remembered, OwnWords
  <2> QED BY <1>1, <1>4, <1>5, <1>6, <1>8, <2>1 DEF OwnWords
<1>12. r = 0 => NewestWords(p, g, u)
  <2>1. r = 0 => t.next = IF Held(m) THEN m.pending ELSE NoPrompt
    BY DEF Remembered, NewestWords
  <2>2. Held(p) <=> Held(m)
    BY <1>5, <1>8 DEF Held
  <2> QED BY <1>1, <1>4, <1>5, <1>6, <1>8, <2>1, <2>2 DEF NewestWords
<1>13. Remembered(p, g, u, r)
  BY <1>9, <1>10, <1>11, <1>12 DEF Remembered
<1> QED BY <1>8, <1>13 DEF p, g, u, q, n

\* An event of the open turn that says nothing yet: the entry is there, and it has
\* taken a prompt that was held.
LEMMA TouchRemembers ==
  ASSUME NEW m \in Memory, NEW h \in Life, NEW t \in Facts, NEW r \in Nat,
         Remembered(m, h, t, r), h.open # Idle
  PROVE  /\ Touch(m, h.open) \in Memory
         /\ h.open \in DOMAIN Touch(m, h.open).turns
         /\ Touch(m, h.open).turns[h.open] = StateOf(Touch(m, h.open), h.open)
         /\ Remembered(Touch(m, h.open), h, t, r)
<1> DEFINE n == h.open
           q == Touch(m, n)
           takes == Held(m) /\ n \notin m.attributed
<1>1. n \in Turns /\ h.live /\ n = h.last /\ n \in 1 .. h.last
  BY HandlersAssumption DEF Remembered, Tidy, Life, Turns, Idle
<1>2. /\ q \in Memory
      /\ DOMAIN q.turns = DOMAIN m.turns \cup {n}
      /\ q.turns[n] = StateOf(q, n)
      /\ StateOf(q, n).sawTurnStart = StateOf(m, n).sawTurnStart
      /\ StateOf(q, n).visible = StateOf(m, n).visible
      /\ StateOf(q, n).toolErrors = StateOf(m, n).toolErrors
      /\ StateOf(q, n).userText = IF takes THEN m.pending ELSE StateOf(m, n).userText
      /\ q.attributed = IF takes THEN m.attributed \cup {n} ELSE m.attributed
      /\ q.pending \in {NoPrompt, m.pending} /\ (Held(m) => q.pending = m.pending)
      /\ Held(q) <=> Held(m)
  <2>1. q.pending = IF m.pending # NoPrompt /\ m.stale THEN NoPrompt ELSE m.pending
    BY <1>1, TouchIs
  <2>2. q.pending \in {NoPrompt, m.pending} /\ (Held(m) => q.pending = m.pending)
    BY <2>1 DEF Held
  <2> QED BY <1>1, <2>2, TouchIs
<1> HIDE DEF q, takes
<1>3. Tidy(q, h, r)
  <2>1. DOMAIN q.turns \ {h.open} = DOMAIN m.turns \ {h.open}
    BY <1>2
  <2> QED BY <1>1, <1>2, <2>1 DEF Remembered, Tidy
<1>4. Truthful(q, h, t)
  BY <1>1, <1>2 DEF Remembered, Truthful
<1>5. OwnWords(q, h, t)
  BY <1>1, <1>2 DEF Remembered, OwnWords
<1>6. r = 0 => NewestWords(q, h, t)
  BY <1>1, <1>2 DEF Remembered, NewestWords, takes
<1> QED BY <1>2, <1>3, <1>4, <1>5, <1>6 DEF Remembered, q, n

\* The entry of the open turn follows what happens in the turn.
LEMMA EntryRemembers ==
  ASSUME NEW m \in Memory, NEW h \in Life, NEW t \in Facts, NEW u \in Facts, NEW r \in Nat,
         NEW st \in TurnState,
         Remembered(m, h, t, r), h.open # Idle,
         st.sawTurnStart = u.started, st.visible = u.visible, st.toolErrors = u.toolErrors,
         st.userText = StateOf(m, h.open).userText,
         u.started = t.started, u.prompt = t.prompt, u.prompts = t.prompts, u.again = t.again
  PROVE  /\ Register(m, h.open, st) \in Memory
         /\ Remembered(Register(m, h.open, st), h, u, r)
<1> DEFINE n == h.open
           q == Register(m, n, st)
<1>1. n \in Turns /\ h.live /\ n = h.last /\ n \in 1 .. h.last
  BY HandlersAssumption DEF Remembered, Tidy, Life, Turns, Idle
<1>2. /\ q \in Memory
      /\ DOMAIN q.turns = DOMAIN m.turns \cup {n}
      /\ StateOf(q, n) = st
      /\ q.pending = m.pending /\ q.stale = m.stale /\ q.attributed = m.attributed
  BY <1>1, RegisterIs
<1> HIDE DEF q
<1>3. Tidy(q, h, r)
  <2>1. DOMAIN q.turns \ {h.open} = DOMAIN m.turns \ {h.open}
    BY <1>2
  <2> QED BY <1>1, <1>2, <2>1 DEF Remembered, Tidy
<1>4. Truthful(q, h, u)
  BY <1>1, <1>2 DEF Truthful
<1>5. OwnWords(q, h, u)
  BY <1>1, <1>2 DEF Remembered, OwnWords
<1>6. r = 0 => NewestWords(q, h, u)
  BY <1>1, <1>2 DEF Remembered, NewestWords, Held
<1> QED BY <1>2, <1>3, <1>4, <1>5, <1>6 DEF Remembered, q, n

\* A human's words in a turn are the turn's, whether the event carries its number
\* or the plugin looks for the highest turn it knows.
LEMMA WordsInTurnRemembered ==
  ASSUME NEW m \in Memory, NEW h \in Life, NEW t \in Facts, NEW u \in Facts, NEW r \in Nat,
         NEW text \in Prompts, text # NoPrompt, NEW n \in {h.open, CurrentTurn(m)},
         Remembered(m, h, t, r), h.open # Idle,
         u.started = t.started, u.visible = t.visible, u.toolErrors = t.toolErrors,
         u.prompt = text, u.prompts = t.prompts \cup {text}, u.again = t.again
  PROVE  /\ OfferUserText(m, n, text) \in Memory
         /\ Remembered(OfferUserText(m, n, text), h, u, r)
<1> DEFINE q == OfferUserText(m, n, text)
           open == h.open
<1>1. /\ open \in Turns /\ h.live /\ open = h.last /\ open \in 1 .. h.last
      /\ DOMAIN m.turns \subseteq 1 .. h.last /\ m.attributed \subseteq 1 .. h.last
  BY HandlersAssumption DEF Remembered, Tidy, Life, Turns, Idle
<1>2. /\ n = Idle => DOMAIN m.turns = {}
      /\ n # Idle => n \in Turns /\ n \in DOMAIN m.turns \cup {open}
  BY <1>1, CurrentTurnIs DEF Idle
<1>3. n \in {Idle} \cup Turns
  BY <1>2
<1>4. CASE n = Idle
  <2>1. /\ q \in Memory /\ q.turns = m.turns /\ q.attributed = m.attributed
        /\ q.pending = text /\ Held(q) /\ StateOf(q, open) = StateOf(m, open)
    BY <1>3, <1>4, OfferUserTextIs
  <2>2. StateOf(m, open) = FreshTurn
    BY <1>2, <1>4, Unheard
  <2> HIDE DEF q
  <2>3. Tidy(q, h, r)
    BY <1>1, <2>1 DEF Remembered, Tidy
  <2>4. Truthful(q, h, u) /\ OwnWords(q, h, u)
    BY <2>1 DEF Remembered, Truthful, OwnWords
  <2>5. r = 0 => NewestWords(q, h, u)
    <3>1. StateOf(q, open).userText = NoPrompt
      BY <2>1, <2>2 DEF FreshTurn
    <3>2. r = 0 => ~t.started
      BY <1>2, <1>4 DEF Remembered, NewestWords
    <3> QED BY <2>1, <3>1, <3>2 DEF NewestWords
  <2> QED BY <2>1, <2>3, <2>4, <2>5 DEF Remembered, q
<1>5. CASE n # Idle
  <2>1. /\ q \in Memory /\ DOMAIN q.turns = DOMAIN m.turns \cup {n}
        /\ q.attributed = m.attributed \cup {n}
        /\ q.pending = m.pending /\ (Held(q) <=> Held(m))
        /\ StateOf(q, n).userText = text
        /\ n # open => StateOf(q, open) = StateOf(m, open)
        /\ StateOf(q, open).sawTurnStart = StateOf(m, open).sawTurnStart
        /\ StateOf(q, open).visible = StateOf(m, open).visible
        /\ StateOf(q, open).toolErrors = StateOf(m, open).toolErrors
    BY <1>3, <1>5, OfferUserTextIs
  <2> HIDE DEF q
  <2>2. Tidy(q, h, r)
    <3>1. DOMAIN q.turns \ {open} = DOMAIN m.turns \ {open}
      BY <1>2, <1>5, <2>1
    <3>2. DOMAIN q.turns \subseteq 1 .. h.last /\ q.attributed \subseteq 1 .. h.last
      BY <1>1, <1>2, <1>5, <2>1
    <3> QED BY <1>1, <3>1, <3>2 DEF Remembered, Tidy
  <2>3. Truthful(q, h, u)
    BY <2>1 DEF Remembered, Truthful
  <2>4. OwnWords(q, h, u)
    BY <2>1 DEF Remembered, OwnWords
  <2>5. r = 0 => NewestWords(q, h, u)
    <3> SUFFICES ASSUME r = 0 PROVE NewestWords(q, h, u)
      OBVIOUS
    <3>1. DOMAIN m.turns \subseteq {open}
      <4>1. Tidy(m, h, 0)
        BY DEF Remembered
      <4> QED BY <4>1, NoneLinger
    <3>2. n = open
      BY <1>2, <1>5, <3>1
    <3> QED BY <2>1, <3>2 DEF NewestWords
  <2> QED BY <2>1, <2>2, <2>3, <2>4, <2>5 DEF Remembered, q
<1> QED BY <1>4, <1>5

\* Between turns they wait for the next one, and are lost if a turn that has ended
\* lingers and takes them.
LEMMA WordsBetweenTurnsRemembered ==
  ASSUME NEW m \in Memory, NEW h \in Life, NEW t \in Facts, NEW u \in Facts, NEW r \in Nat,
         NEW text \in Prompts, text # NoPrompt,
         Remembered(m, h, t, r), h.open = Idle, h.live,
         u.next = text, u.nexts = t.nexts \cup {text}, u.nextAgain = t.nextAgain,
         NEW n, n = CurrentTurn(m)
  PROVE  /\ OfferUserText(m, n, text) \in Memory
         /\ Remembered(OfferUserText(m, n, text), h, u, r)
<1> DEFINE q == OfferUserText(m, n, text)
<1>1. /\ DOMAIN m.turns \subseteq 1 .. h.last /\ m.attributed \subseteq 1 .. h.last
      /\ Cardinality(DOMAIN m.turns \ {Idle}) <= r
  BY DEF Remembered, Tidy
<1>2. /\ n = Idle => DOMAIN m.turns = {}
      /\ n # Idle => n \in Turns /\ n \in DOMAIN m.turns
  BY <1>1, CurrentTurnIs DEF Idle
<1>3. n \in {Idle} \cup Turns
  BY <1>2
<1>4. Truthful(q, h, u)
  BY DEF Truthful
<1>5. CASE n = Idle
  <2>1. /\ q \in Memory /\ q.turns = m.turns /\ q.attributed = m.attributed
        /\ q.pending = text /\ Held(q)
    BY ONLY m \in Memory, text \in Prompts, text # NoPrompt, <1>3, <1>5, OfferUserTextIs
  <2> HIDE DEF q
  <2>2. Tidy(q, h, r) /\ OwnWords(q, h, u) /\ NewestWords(q, h, u)
    BY <2>1 DEF Remembered, Tidy, OwnWords, NewestWords
  <2> QED BY <1>4, <2>1, <2>2 DEF Remembered, q
<1>6. CASE n # Idle
  <2>1. /\ q \in Memory /\ DOMAIN q.turns = DOMAIN m.turns \cup {n}
        /\ q.attributed = m.attributed \cup {n}
        /\ q.pending = m.pending
    BY ONLY m \in Memory, text \in Prompts, text # NoPrompt, <1>3, <1>6, OfferUserTextIs
  <2> DOMAIN q.turns = DOMAIN m.turns
    BY <1>2, <1>6, <2>1
  <2>2. Tidy(q, h, r)
    <3>1. q.attributed \subseteq 1 .. h.last
      BY <1>1, <1>2, <1>6, <2>1
    <3> HIDE DEF q
    <3> QED BY <2>1, <3>1 DEF Remembered, Tidy
  <2>3. OwnWords(q, h, u)
    BY <2>1 DEF Remembered, OwnWords
  <2>4. r # 0
    <3>1. Tidy(m, h, r)
      BY DEF Remembered
    <3> QED BY <1>2, <1>6, <3>1, NoneLinger
  <2> QED BY <1>4, <2>1, <2>2, <2>3, <2>4 DEF Remembered, q
<1> QED BY <1>5, <1>6

\* The held prompt outlives its 120 s.
LEMMA ExpiryRemembered ==
  ASSUME NEW m \in Memory, NEW h \in Life, NEW t \in Facts, NEW r \in Nat,
         Remembered(m, h, t, r)
  PROVE  /\ [m EXCEPT !.stale = TRUE] \in Memory
         /\ Remembered([m EXCEPT !.stale = TRUE], h, [t EXCEPT !.next = NoPrompt], r)
<1> DEFINE q == [m EXCEPT !.stale = TRUE]
           u == [t EXCEPT !.next = NoPrompt]
<1>1. /\ q \in Memory /\ q.turns = m.turns /\ q.pending = m.pending
      /\ q.attributed = m.attributed /\ ~Held(q)
  BY DEF Memory, Held
<1>2. /\ u.started = t.started /\ u.visible = t.visible /\ u.toolErrors = t.toolErrors
      /\ u.prompt = t.prompt /\ u.prompts = t.prompts /\ u.again = t.again
      /\ u.next = NoPrompt /\ u.nexts = t.nexts /\ u.nextAgain = t.nextAgain
  BY DEF Facts
<1>3. StateOf(q, h.open) = StateOf(m, h.open)
  BY <1>1 DEF StateOf
<1> HIDE DEF q, u
<1>4. Tidy(q, h, r)
  BY <1>1 DEF Remembered, Tidy
<1>5. Truthful(q, h, u) /\ OwnWords(q, h, u)
  BY <1>1, <1>2, <1>3 DEF Remembered, Truthful, OwnWords
<1>6. r = 0 => NewestWords(q, h, u)
  BY <1>1, <1>2, <1>3 DEF Remembered, NewestWords
<1> QED BY <1>1, <1>4, <1>5, <1>6 DEF Remembered, q, u

\* The turn ends: nothing of it is resident, and nothing is held for the next one.
LEMMA EndRemembers ==
  ASSUME NEW m \in Memory, NEW h \in Life, NEW t \in Facts, NEW r \in Nat,
         Remembered(m, h, t, r), h.open # Idle
  PROVE  /\ Release(m, h.open) \in Memory
         /\ Remembered(Release(m, h.open), [h EXCEPT !.open = Idle], NoFacts, r)
<1> DEFINE q == Release(m, h.open)
           g == [h EXCEPT !.open = Idle]
<1>1. /\ h.open \in Turns /\ h.live /\ Idle \notin Turns
      /\ g.open = Idle /\ g.live = h.live /\ g.last = h.last
  BY HandlersAssumption DEF Remembered, Tidy, Life, Turns, Idle
<1>2. /\ q \in Memory /\ DOMAIN q.turns = DOMAIN m.turns \ {h.open}
      /\ q.attributed = m.attributed \ {h.open}
      /\ q.pending = NoPrompt /\ ~Held(q)
  BY <1>1, ReleaseIs
<1>3. DOMAIN m.turns \subseteq Turns
  BY TurnMapsAre DEF Memory
<1> HIDE DEF q, g
<1>4. Tidy(q, g, r)
  <2>1. DOMAIN q.turns \ {Idle} = DOMAIN m.turns \ {h.open}
    BY <1>1, <1>2, <1>3
  <2> QED BY <1>1, <1>2, <2>1 DEF Remembered, Tidy
<1>5. Truthful(q, g, NoFacts) /\ OwnWords(q, g, NoFacts) /\ NewestWords(q, g, NoFacts)
  BY <1>1, <1>2 DEF Truthful, OwnWords, NewestWords, NoFacts
<1> QED BY <1>2, <1>4, <1>5 DEF Remembered, q, g

\* The session leaves.
LEMMA DisposalRemembered ==
  ASSUME NEW m \in Memory, NEW h \in Life, NEW t \in Facts, NEW r \in Nat,
         Remembered(m, h, t, r)
  PROVE  /\ ReleaseSession(m) \in Memory
         /\ Remembered(ReleaseSession(m), [h EXCEPT !.live = FALSE, !.open = Idle], NoFacts, r)
<1> DEFINE q == ReleaseSession(m)
           g == [h EXCEPT !.live = FALSE, !.open = Idle]
<1>1. g.open = Idle /\ g.live = FALSE /\ g.last = h.last
  BY DEF Life
<1>2. /\ q \in Memory /\ q.turns = <<>> /\ DOMAIN q.turns = {}
      /\ q.attributed = m.attributed /\ q.pending = NoPrompt /\ ~Held(q)
  BY ReleaseSessionIs
<1> HIDE DEF q, g
<1>3. Cardinality(DOMAIN q.turns \ {Idle}) = 0
  BY <1>2, FS_EmptySet
<1>4. Tidy(q, g, r)
  BY <1>1, <1>2, <1>3 DEF Remembered, Tidy
<1>5. Truthful(q, g, NoFacts) /\ OwnWords(q, g, NoFacts) /\ NewestWords(q, g, NoFacts)
  BY <1>1, <1>2 DEF Truthful, OwnWords, NewestWords, NoFacts
<1> QED BY <1>2, <1>4, <1>5 DEF Remembered, q, g

\* It is opened again.
LEMMA ReopeningRemembered ==
  ASSUME NEW m \in Memory, NEW h \in Life, NEW t \in Facts, NEW r \in Nat,
         Remembered(m, h, t, r), ~h.live
  PROVE  Remembered(m, [h EXCEPT !.live = TRUE], t, r)
<1> DEFINE g == [h EXCEPT !.live = TRUE]
<1>1. g.open = h.open /\ g.last = h.last /\ g.live
  BY DEF Life
<1> HIDE DEF g
<1>2. Tidy(m, g, r) /\ Truthful(m, g, t) /\ OwnWords(m, g, t)
  BY <1>1 DEF Remembered, Tidy, Truthful, OwnWords
<1>3. r = 0 => NewestWords(m, g, t)
  BY <1>1 DEF Remembered, NewestWords
<1> QED BY <1>2, <1>3 DEF Remembered, g

\* Nothing that is true of a session depends on what was seen twice elsewhere.
LEMMA RedeliveryElsewhere ==
  ASSUME NEW m \in Memory, NEW h, NEW t, NEW r \in Nat
  PROVE  /\ Tidy(m, h, r) => Tidy(m, h, r + 1)
         /\ Remembered(m, h, t, r) => Remembered(m, h, t, r + 1)
<1>1. Cardinality(DOMAIN m.turns \ {h.open}) \in Nat
  <2>1. DOMAIN m.turns \subseteq Turns
    BY TurnMapsAre DEF Memory
  <2> QED BY <2>1, Lingering
<1>2. Tidy(m, h, r) => Tidy(m, h, r + 1)
  BY <1>1 DEF Tidy
<1> QED BY <1>2 DEF Remembered

\* The entry of a turn that has ended is back, if it was gone: one more lingers at most.
LEMMA OneMoreLingers ==
  ASSUME NEW m \in Memory, NEW q \in Memory, NEW h \in Life, NEW r \in Nat, NEW n,
         n \in {Idle} \cup 1 .. h.last, h.live, Tidy(m, h, r),
         DOMAIN q.turns = IF n = Idle THEN DOMAIN m.turns ELSE DOMAIN m.turns \cup {n},
         q.attributed \subseteq IF n = Idle THEN m.attributed ELSE m.attributed \cup {n}
  PROVE  Tidy(q, h, r + 1)
<1> DEFINE D == DOMAIN m.turns \ {h.open}
           E == DOMAIN q.turns \ {h.open}
<1>1. D \in SUBSET Turns /\ E \in SUBSET Turns
  BY TurnMapsAre DEF Memory
<1>2. n # Idle => n \in Turns
  BY HandlersAssumption DEF Life, Turns, Idle
<1>3. E \subseteq D \/ (n \in Turns /\ E \subseteq D \cup {n})
  BY <1>2
<1>4. /\ DOMAIN q.turns \subseteq 1 .. h.last /\ q.attributed \subseteq 1 .. h.last
      /\ Cardinality(D) <= r /\ (h.open # Idle => h.open = h.last)
  BY DEF Tidy
<1> HIDE DEF D, E
<1>5. Cardinality(D) \in Nat /\ Cardinality(E) \in Nat /\ Cardinality(E) <= Cardinality(D) + 1
  BY <1>1, <1>3, Lingering
<1>6. Cardinality(E) <= r + 1
  BY <1>4, <1>5
<1> QED BY <1>4, <1>6 DEF Tidy, E

\* An event of a turn that has ended: its entry is back, holds what the event says,
\* and may have taken what was held for another turn, but no open turn is told
\* anything that is not its own.
LEMMA EntryAgainRemembered ==
  ASSUME NEW m \in Memory, NEW h \in Life, NEW t \in Facts, NEW r \in Nat,
         NEW n \in Turns, n \in 1 .. h.last, n # h.open, h.live,
         NEW st \in TurnState,
         Remembered(m, h, t, r)
  PROVE  /\ Touch(m, n) \in Memory /\ Touch(m, n).turns[n] \in TurnState
         /\ Register(Touch(m, n), n, st) \in Memory
         /\ Remembered(Register(Touch(m, n), n, st), h, t, r + 1)
         /\ Remembered(Touch(m, n), h, t, r + 1)
<1> DEFINE q == Touch(m, n)
           p == Register(q, n, st)
<1>1. /\ q \in Memory /\ DOMAIN q.turns = DOMAIN m.turns \cup {n}
      /\ q.turns[n] = StateOf(q, n)
      /\ \A k : k # n => StateOf(q, k) = StateOf(m, k)
      /\ q.attributed \subseteq m.attributed \cup {n}
      /\ q.pending \in {NoPrompt, m.pending}
  BY TouchIs
<1>2. q.turns[n] \in TurnState
  BY <1>1, StateOfType
<1> HIDE DEF q
<1>3. /\ p \in Memory /\ DOMAIN p.turns = DOMAIN m.turns \cup {n}
      /\ \A k : k # n => StateOf(p, k) = StateOf(m, k)
      /\ p.attributed \subseteq m.attributed \cup {n}
      /\ p.pending \in {NoPrompt, m.pending}
  BY <1>1, RegisterIs
<1> HIDE DEF p
<1>4. n \in {Idle} \cup 1 .. h.last /\ n # Idle /\ Tidy(m, h, r)
  BY HandlersAssumption DEF Turns, Idle, Remembered
<1>5. Tidy(q, h, r + 1) /\ Tidy(p, h, r + 1)
  BY <1>1, <1>3, <1>4, OneMoreLingers
<1>6. /\ Truthful(q, h, t) /\ OwnWords(q, h, t)
      /\ Truthful(p, h, t) /\ OwnWords(p, h, t)
  BY <1>1, <1>3 DEF Remembered, Truthful, OwnWords
<1> QED BY <1>1, <1>2, <1>3, <1>5, <1>6 DEF Remembered, p, q

\* A human's words of a turn that has ended: they reach the open turn, or the next
\* one, only as words that were seen again in its time.
LEMMA WordsAgainRemembered ==
  ASSUME NEW m \in Memory, NEW h \in Life, NEW t \in Facts, NEW u \in Facts, NEW r \in Nat,
         NEW text \in Prompts, text # NoPrompt, h.live,
         NEW n, n \in {Idle} \cup 1 .. h.last,
         Remembered(m, h, t, r),
         u.started = t.started, u.visible = t.visible, u.toolErrors = t.toolErrors,
         u.prompts = t.prompts, u.nexts = t.nexts,
         t.again \subseteq u.again, t.nextAgain \subseteq u.nextAgain,
         n \in {Idle, h.open} => text \in IF h.open = Idle THEN u.nextAgain ELSE u.again
  PROVE  /\ OfferUserText(m, n, text) \in Memory
         /\ Remembered(OfferUserText(m, n, text), h, u, r + 1)
<1> DEFINE q == OfferUserText(m, n, text)
           open == h.open
<1>1. n \in {Idle} \cup Turns
  BY HandlersAssumption DEF Life, Turns, Idle
<1>2. /\ q \in Memory
      /\ DOMAIN q.turns = IF n = Idle THEN DOMAIN m.turns ELSE DOMAIN m.turns \cup {n}
      /\ q.attributed \subseteq IF n = Idle THEN m.attributed ELSE m.attributed \cup {n}
      /\ q.pending = IF n = Idle THEN text ELSE m.pending
      /\ StateOf(q, open).sawTurnStart = StateOf(m, open).sawTurnStart
      /\ StateOf(q, open).visible = StateOf(m, open).visible
      /\ StateOf(q, open).toolErrors = StateOf(m, open).toolErrors
      /\ StateOf(q, open).userText = IF n = open /\ n # Idle THEN text ELSE StateOf(m, open).userText
  <2>1. CASE n = Idle
    <3>1. /\ q \in Memory /\ q.turns = m.turns /\ q.attributed = m.attributed
          /\ q.pending = text /\ StateOf(q, open) = StateOf(m, open)
      BY <1>1, <2>1, OfferUserTextIs
    <3> HIDE DEF q
    <3> QED BY <2>1, <3>1
  <2>2. CASE n # Idle
    <3>1. /\ q \in Memory /\ DOMAIN q.turns = DOMAIN m.turns \cup {n}
          /\ q.attributed = m.attributed \cup {n}
          /\ q.pending = m.pending
          /\ StateOf(q, n).userText = text
          /\ n # open => StateOf(q, open) = StateOf(m, open)
          /\ StateOf(q, open).sawTurnStart = StateOf(m, open).sawTurnStart
          /\ StateOf(q, open).visible = StateOf(m, open).visible
          /\ StateOf(q, open).toolErrors = StateOf(m, open).toolErrors
      BY <1>1, <2>2, OfferUserTextIs
    <3> HIDE DEF q
    <3> QED BY <2>2, <3>1
  <2> QED BY <2>1, <2>2
<1> HIDE DEF q
<1>3. Tidy(q, h, r + 1)
  <2>1. Tidy(m, h, r)
    BY DEF Remembered
  <2> QED BY <1>2, <2>1, OneMoreLingers
<1>4. Truthful(q, h, u)
  BY <1>2 DEF Remembered, Truthful
<1>5. OwnWords(q, h, u)
  <2>1. OwnWords(m, h, t)
    BY DEF Remembered
  <2> QED BY <1>2, <2>1 DEF OwnWords
<1> QED BY <1>2, <1>3, <1>4, <1>5 DEF Remembered, q

\* The end of a turn that has ended.
LEMMA EndAgainRemembered ==
  ASSUME NEW m \in Memory, NEW h \in Life, NEW t \in Facts, NEW r \in Nat,
         NEW n \in Turns, n # h.open, h.live,
         Remembered(m, h, t, r)
  PROVE  /\ Release(m, n) \in Memory
         /\ Remembered(Release(m, n), h, t, r + 1)
<1> DEFINE q == Release(m, n)
<1>1. /\ q \in Memory /\ DOMAIN q.turns = DOMAIN m.turns \ {n}
      /\ \A k : k # n => StateOf(q, k) = StateOf(m, k)
      /\ q.attributed = m.attributed \ {n}
      /\ q.pending = NoPrompt
  BY ReleaseIs
<1>2. StateOf(q, h.open) = StateOf(m, h.open)
  BY <1>1
<1> HIDE DEF q
<1>3. Tidy(q, h, r + 1)
  <2> DEFINE D == DOMAIN m.turns \ {h.open}
             E == DOMAIN q.turns \ {h.open}
  <2>1. D \in SUBSET Turns /\ E \in SUBSET Turns /\ E \subseteq D
    BY <1>1, TurnMapsAre DEF Memory
  <2> HIDE DEF D, E
  <2>2. Cardinality(D) \in Nat /\ Cardinality(E) \in Nat /\ Cardinality(E) <= Cardinality(D)
    BY <2>1, Lingering
  <2>3. Cardinality(D) <= r
    BY DEF Remembered, Tidy, D
  <2>4. Cardinality(E) <= r + 1
    BY <2>2, <2>3
  <2> QED BY <1>1, <2>4 DEF Remembered, Tidy, E
<1>4. Truthful(q, h, t) /\ OwnWords(q, h, t)
  BY <1>1, <1>2 DEF Remembered, Truthful, OwnWords
<1> QED BY <1>1, <1>3, <1>4 DEF Remembered, q

\* Of a session that is none of the plugin's business nothing is ever held.
LEMMA EmptyIsTidy ==
  ASSUME NEW h \in Life, NEW r \in Nat, h.open # Idle => h.live /\ h.open = h.last
  PROVE  Tidy(EmptyMemory, h, r)
<1>1. Cardinality(DOMAIN EmptyMemory.turns \ {h.open}) = 0
  BY EmptyMemoryIs, FS_EmptySet
<1> QED BY <1>1, EmptyMemoryIs DEF Tidy, EmptyMemory

-----------------------------------------------------------------------------
\* Every step keeps the types, and what is remembered of every session.

Inv == Types /\ SessionsRemembered

\* One session's part of the state is replaced; of the others at most the number of
\* redeliveries changes.
LEMMA OneSession ==
  ASSUME Inv, NEW s \in Sessions, NEW m \in Memory, NEW h \in Life, NEW t \in Facts,
         config' = config,
         redeliveries' \in {redeliveries, redeliveries + 1}, redeliveries' <= MaxRedeliveries,
         mem' = [mem EXCEPT ![s] = m],
         host' = [host EXCEPT ![s] = h],
         truth' = [truth EXCEPT ![s] = t],
         h.open # Idle => h.live /\ h.open = h.last,
         IF Excluded(s) THEN m = EmptyMemory ELSE Remembered(m, h, t, redeliveries')
  PROVE  Inv'
<1>1. redeliveries \in Nat /\ redeliveries' \in Nat /\ redeliveries' \in 0 .. MaxRedeliveries
  BY HandlersAssumption DEF Inv, Types
<1>2. Types'
  BY <1>1 DEF Inv, Types
<1>3. ASSUME NEW z \in Sessions
      PROVE  IF Excluded(z) THEN mem'[z] = EmptyMemory /\ Tidy(mem'[z], host'[z], redeliveries')
             ELSE Remembered(mem'[z], host'[z], truth'[z], redeliveries')
  <2>1. CASE z = s
    <3>1. mem'[z] = m /\ host'[z] = h /\ truth'[z] = t
      BY <2>1 DEF Inv, Types
    <3>2. Excluded(s) => Tidy(EmptyMemory, h, redeliveries')
      BY <1>1, EmptyIsTidy
    <3> QED BY <2>1, <3>1, <3>2
  <2>2. CASE z # s
    <3>1. mem'[z] = mem[z] /\ host'[z] = host[z] /\ truth'[z] = truth[z] /\ mem[z] \in Memory
      BY <2>2 DEF Inv, Types
    <3>2. IF Excluded(z) THEN mem[z] = EmptyMemory /\ Tidy(mem[z], host[z], redeliveries)
          ELSE Remembered(mem[z], host[z], truth[z], redeliveries)
      BY DEF Inv, SessionsRemembered
    <3>3. CASE redeliveries' = redeliveries
      BY <3>1, <3>2, <3>3
    <3>4. CASE redeliveries' = redeliveries + 1
      BY <1>1, <3>1, <3>2, <3>4, RedeliveryElsewhere
    <3> QED BY <3>3, <3>4
  <2> QED BY <2>1, <2>2
<1>4. SessionsRemembered'
  <2>1. \A z \in Sessions : Excluded(z)' <=> Excluded(z)
    BY DEF Excluded
  <2> QED BY <1>3, <2>1 DEF SessionsRemembered
<1> QED BY <1>2, <1>4 DEF Inv

\* What the invariant says of the session an action is about.
LEMMA ThisSession ==
  ASSUME Inv, NEW s \in Sessions
  PROVE  /\ mem[s] \in Memory /\ host[s] \in Life /\ truth[s] \in Facts /\ redeliveries \in Nat
         /\ redeliveries <= MaxRedeliveries
         /\ mem = [mem EXCEPT ![s] = mem[s]]
         /\ host = [host EXCEPT ![s] = host[s]]
         /\ truth = [truth EXCEPT ![s] = truth[s]]
         /\ host[s].open # Idle => host[s].live /\ host[s].open = host[s].last
         /\ InTurn(s) <=> host[s].open # Idle
         /\ IF Excluded(s) THEN mem[s] = EmptyMemory
            ELSE Remembered(mem[s], host[s], truth[s], redeliveries)
         /\ \A m : Remember(s, m) => mem' = [mem EXCEPT ![s] = IF Excluded(s) THEN EmptyMemory ELSE m]
<1>1. /\ mem[s] \in Memory /\ host[s] \in Life /\ truth[s] \in Facts /\ redeliveries \in Nat
      /\ redeliveries <= MaxRedeliveries
      /\ mem = [mem EXCEPT ![s] = mem[s]]
      /\ host = [host EXCEPT ![s] = host[s]]
      /\ truth = [truth EXCEPT ![s] = truth[s]]
  BY HandlersAssumption DEF Inv, Types
<1>2. IF Excluded(s) THEN mem[s] = EmptyMemory /\ Tidy(mem[s], host[s], redeliveries)
      ELSE Remembered(mem[s], host[s], truth[s], redeliveries)
  BY DEF Inv, SessionsRemembered
<1>3. host[s].open # Idle => host[s].live /\ host[s].open = host[s].last
  BY <1>2 DEF Remembered, Tidy
<1>4. \A m : Remember(s, m) => mem' = [mem EXCEPT ![s] = IF Excluded(s) THEN EmptyMemory ELSE m]
  BY <1>1, <1>2 DEF Remember
<1> QED BY <1>1, <1>2, <1>3, <1>4 DEF InTurn

\* A step that touches nothing but one session's memory and the redeliveries.
LEMMA MemoryOnly ==
  ASSUME Inv, NEW s \in Sessions, NEW m \in Memory,
         UNCHANGED <<config, host, truth>>,
         redeliveries' \in {redeliveries, redeliveries + 1}, redeliveries' <= MaxRedeliveries,
         mem' = [mem EXCEPT ![s] = m],
         IF Excluded(s) THEN m = EmptyMemory
         ELSE Remembered(m, host[s], truth[s], redeliveries')
  PROVE  Inv'
<1> DEFINE h == host[s]
           t == truth[s]
<1>1. /\ h \in Life /\ t \in Facts /\ (h.open # Idle => h.live /\ h.open = h.last)
      /\ host' = [host EXCEPT ![s] = h] /\ truth' = [truth EXCEPT ![s] = t]
      /\ config' = config
      /\ IF Excluded(s) THEN m = EmptyMemory ELSE Remembered(m, h, t, redeliveries')
  BY ThisSession
<1> HIDE DEF h, t
<1> QED BY <1>1, OneSession

\* The facts of a turn before anything happened in it.
LEMMA NoFactsAre == NoFacts \in Facts
BY DEF NoFacts, Facts, MaybeText, MaybePrompt

\* One lemma per action: it keeps Inv.  Those that settle or ask are stated of what they
\* do to the memory alone, since the log is treated further down.
\*
\* turn/start.
LEMMA TurnStartStep ==
  ASSUME Inv, NEW s \in Sessions, TurnStart(s)
  PROVE  Inv'
<1> DEFINE n == host[s].last + 1
           q == Touch(mem[s], n)
           p == Register(q, n, [q.turns[n] EXCEPT !.sawTurnStart = TRUE])
           m == IF Excluded(s) THEN EmptyMemory ELSE p
           h == [host[s] EXCEPT !.open = n, !.last = n]
           t == [NoFacts EXCEPT !.started = TRUE, !.prompt = truth[s].next,
                                !.prompts = truth[s].nexts, !.again = truth[s].nextAgain]
<1>1. /\ host[s].live /\ host[s].open = Idle /\ n \in Turns
      /\ host' = [host EXCEPT ![s] = h] /\ truth' = [truth EXCEPT ![s] = t]
      /\ Remember(s, p) /\ config' = config /\ redeliveries' = redeliveries
  BY DEF TurnStart
<1>2. ~Excluded(s) => p \in Memory /\ Remembered(p, h, t, redeliveries)
  BY <1>1, ThisSession, StartRemembers
<1>3. h \in Life /\ t \in Facts /\ (h.open # Idle => h.live /\ h.open = h.last)
  <2>1. host[s] \in Life /\ truth[s] \in Facts
    BY ThisSession
  <2>2. t \in Facts
    BY <2>1, NoFactsAre DEF Facts
  <2> QED BY <1>1, <2>1, <2>2 DEF Life
<1>4. mem' = [mem EXCEPT ![s] = m]
  BY <1>1, ThisSession
<1> HIDE DEF p, h, t
<1>5. m \in Memory /\ IF Excluded(s) THEN m = EmptyMemory ELSE Remembered(m, h, t, redeliveries')
  BY <1>1, <1>2, EmptyMemoryIs
<1> HIDE DEF m
<1> QED BY <1>1, <1>3, <1>4, <1>5, ThisSession, OneSession

\* step/start and the other events that only fetch the entry; a question does the same.
LEMMA ActivityStep ==
  ASSUME Inv, NEW s \in Sessions, InTurn(s), Remember(s, Touch(mem[s], host[s].open)),
         UNCHANGED <<config, host, truth, redeliveries>>
  PROVE  Inv'
<1> DEFINE p == Touch(mem[s], host[s].open)
           m == IF Excluded(s) THEN EmptyMemory ELSE p
<1>1. ~Excluded(s) => p \in Memory /\ Remembered(p, host[s], truth[s], redeliveries)
  BY ThisSession, TouchRemembers
<1>2. mem' = [mem EXCEPT ![s] = m]
  BY ThisSession
<1> HIDE DEF p
<1>3. m \in Memory /\ IF Excluded(s) THEN m = EmptyMemory ELSE Remembered(m, host[s], truth[s], redeliveries')
  BY <1>1, EmptyMemoryIs
<1> HIDE DEF m
<1> QED BY <1>2, <1>3, ThisSession, MemoryOnly

\* assistant/message.
LEMMA AssistantMessageStep ==
  ASSUME Inv, NEW s \in Sessions, NEW text \in MaybeText, AssistantMessage(s, text)
  PROVE  Inv'
<1> DEFINE n == host[s].open
           q == Touch(mem[s], n)
           st == [q.turns[n] EXCEPT !.visible = IF text = NoText THEN @ ELSE text]
           p == Register(q, n, st)
           m == IF Excluded(s) THEN EmptyMemory ELSE p
           h == host[s]
           t == [truth[s] EXCEPT !.visible = IF text = NoText THEN @ ELSE text]
<1>1. /\ n # Idle /\ host' = [host EXCEPT ![s] = h] /\ truth' = [truth EXCEPT ![s] = t]
      /\ Remember(s, p) /\ config' = config /\ redeliveries' = redeliveries
  BY ThisSession DEF AssistantMessage, InTurn
<1>2. /\ h \in Life /\ truth[s] \in Facts /\ mem[s] \in Memory /\ redeliveries \in Nat
      /\ h.open # Idle => h.live /\ h.open = h.last
  BY ThisSession
<1>3. /\ t \in Facts /\ t.visible = (IF text = NoText THEN truth[s].visible ELSE text)
      /\ t.started = truth[s].started /\ t.toolErrors = truth[s].toolErrors
      /\ t.prompt = truth[s].prompt /\ t.prompts = truth[s].prompts /\ t.again = truth[s].again
  BY <1>2 DEF Facts
<1>4. ASSUME ~Excluded(s)
      PROVE  p \in Memory /\ Remembered(p, h, t, redeliveries)
  <2>1. Remembered(mem[s], h, truth[s], redeliveries)
    BY <1>4, ThisSession
  <2>2. /\ q \in Memory /\ q.turns[n] = StateOf(q, n)
        /\ Remembered(q, h, truth[s], redeliveries)
    BY <1>1, <1>2, <2>1, TouchRemembers
  <2>3. StateOf(q, n) \in TurnState
    BY <2>2, StateOfType
  <2>4. /\ StateOf(q, n).visible = truth[s].visible
        /\ StateOf(q, n).toolErrors = truth[s].toolErrors
        /\ StateOf(q, n).sawTurnStart = truth[s].started
    BY <1>1, <2>2 DEF Remembered, Truthful
  <2>5. /\ st \in TurnState /\ st.visible = t.visible /\ st.toolErrors = t.toolErrors
        /\ st.sawTurnStart = t.started /\ st.userText = StateOf(q, n).userText
    BY <1>3, <2>2, <2>3, <2>4 DEF TurnState
  <2> HIDE DEF q, st, t
  <2> QED BY <1>1, <1>2, <1>3, <2>2, <2>5, EntryRemembers
<1>5. mem' = [mem EXCEPT ![s] = m]
  BY <1>1, ThisSession
<1> HIDE DEF p, t, h
<1>6. m \in Memory /\ IF Excluded(s) THEN m = EmptyMemory ELSE Remembered(m, h, t, redeliveries')
  BY <1>1, <1>4, EmptyMemoryIs
<1> HIDE DEF m
<1> QED BY <1>1, <1>2, <1>3, <1>5, <1>6, ThisSession, OneSession

\* A tool result with an explicit error.
LEMMA ToolErrorStep ==
  ASSUME Inv, NEW s \in Sessions, ToolError(s)
  PROVE  Inv'
<1> DEFINE n == host[s].open
           q == Touch(mem[s], n)
           st == [q.turns[n] EXCEPT !.toolErrors = @ + 1]
           p == Register(q, n, st)
           m == IF Excluded(s) THEN EmptyMemory ELSE p
           h == host[s]
           t == [truth[s] EXCEPT !.toolErrors = @ + 1]
<1>1. /\ n # Idle /\ host' = [host EXCEPT ![s] = h] /\ truth' = [truth EXCEPT ![s] = t]
      /\ Remember(s, p) /\ config' = config /\ redeliveries' = redeliveries
  BY ThisSession DEF ToolError, InTurn
<1>2. /\ h \in Life /\ truth[s] \in Facts /\ mem[s] \in Memory /\ redeliveries \in Nat
      /\ h.open # Idle => h.live /\ h.open = h.last
  BY ThisSession
<1>3. /\ t \in Facts /\ t.visible = truth[s].visible
      /\ t.started = truth[s].started /\ t.toolErrors = truth[s].toolErrors + 1
      /\ t.prompt = truth[s].prompt /\ t.prompts = truth[s].prompts /\ t.again = truth[s].again
  BY <1>2 DEF Facts
<1>4. ASSUME ~Excluded(s)
      PROVE  p \in Memory /\ Remembered(p, h, t, redeliveries)
  <2>1. Remembered(mem[s], h, truth[s], redeliveries)
    BY <1>4, ThisSession
  <2>2. /\ q \in Memory /\ q.turns[n] = StateOf(q, n)
        /\ Remembered(q, h, truth[s], redeliveries)
    BY <1>1, <1>2, <2>1, TouchRemembers
  <2>3. StateOf(q, n) \in TurnState
    BY <2>2, StateOfType
  <2>4. /\ StateOf(q, n).visible = truth[s].visible
        /\ StateOf(q, n).toolErrors = truth[s].toolErrors
        /\ StateOf(q, n).sawTurnStart = truth[s].started
    BY <1>1, <2>2 DEF Remembered, Truthful
  <2>5. /\ st \in TurnState /\ st.visible = t.visible /\ st.toolErrors = t.toolErrors
        /\ st.sawTurnStart = t.started /\ st.userText = StateOf(q, n).userText
    BY <1>3, <2>2, <2>3, <2>4 DEF TurnState
  <2> HIDE DEF q, st, t
  <2> QED BY <1>1, <1>2, <1>3, <2>2, <2>5, EntryRemembers
<1>5. mem' = [mem EXCEPT ![s] = m]
  BY <1>1, ThisSession
<1> HIDE DEF p, t, h
<1>6. m \in Memory /\ IF Excluded(s) THEN m = EmptyMemory ELSE Remembered(m, h, t, redeliveries')
  BY <1>1, <1>4, EmptyMemoryIs
<1> HIDE DEF m
<1> QED BY <1>1, <1>2, <1>3, <1>5, <1>6, ThisSession, OneSession

\* The 120 s of a held prompt pass.
LEMMA PendingExpiresStep ==
  ASSUME Inv, NEW s \in Sessions, PendingExpires(s)
  PROVE  Inv'
<1> DEFINE m == [mem[s] EXCEPT !.stale = TRUE]
           h == host[s]
           t == [truth[s] EXCEPT !.next = NoPrompt]
<1>1. /\ mem[s].pending # NoPrompt
      /\ mem' = [mem EXCEPT ![s] = m] /\ truth' = [truth EXCEPT ![s] = t]
      /\ host' = [host EXCEPT ![s] = h] /\ config' = config /\ redeliveries' = redeliveries
  BY ThisSession DEF PendingExpires
<1>2. /\ h \in Life /\ truth[s] \in Facts /\ mem[s] \in Memory /\ redeliveries \in Nat
      /\ h.open # Idle => h.live /\ h.open = h.last
  BY ThisSession
<1>3. ~Excluded(s)
  BY <1>1, ThisSession, EmptyMemoryIs
<1>4. Remembered(mem[s], h, truth[s], redeliveries)
  BY <1>3, ThisSession
<1>5. m \in Memory /\ Remembered(m, h, t, redeliveries)
  BY <1>2, <1>4, ExpiryRemembered
<1>6. t \in Facts
  BY <1>2 DEF Facts, MaybePrompt
<1> HIDE DEF m, h, t
<1> QED BY <1>1, <1>2, <1>3, <1>5, <1>6, ThisSession, OneSession

\* onSessionDisposed.
LEMMA SessionDisposedStep ==
  ASSUME Inv, NEW s \in Sessions, SessionDisposed(s)
  PROVE  Inv'
<1> DEFINE m == ReleaseSession(mem[s])
           h == [host[s] EXCEPT !.live = FALSE, !.open = Idle]
           t == NoFacts
<1>1. /\ mem' = [mem EXCEPT ![s] = m] /\ truth' = [truth EXCEPT ![s] = t]
      /\ host' = [host EXCEPT ![s] = h] /\ config' = config /\ redeliveries' = redeliveries
  BY DEF SessionDisposed
<1>2. host[s] \in Life /\ truth[s] \in Facts /\ mem[s] \in Memory /\ redeliveries \in Nat
  BY ThisSession
<1>3. h \in Life /\ h.open = Idle
  BY <1>2 DEF Life
<1>4. CASE Excluded(s)
  <2>1. m = EmptyMemory
    <3>1. mem[s] = EmptyMemory
      BY <1>4, ThisSession
    <3> DEFINE e == <<>>
    <3>2. EmptyMemory = [turns |-> e, pending |-> NoPrompt, stale |-> FALSE, attributed |-> {}]
      BY DEF EmptyMemory
    <3>3. ReleaseSession(EmptyMemory) = [EmptyMemory EXCEPT !.turns = e, !.pending = NoPrompt, !.stale = FALSE]
      BY DEF ReleaseSession
    <3> HIDE DEF e, m
    <3>4. ReleaseSession(EmptyMemory) = EmptyMemory
      BY <3>2, <3>3
    <3> QED BY <3>1, <3>4 DEF m
  <2> HIDE DEF m, h, t
  <2> QED BY <1>1, <1>2, <1>3, <1>4, <2>1, ThisSession, OneSession, NoFactsAre, EmptyMemoryIs DEF t
<1>5. CASE ~Excluded(s)
  <2>1. m \in Memory /\ Remembered(m, h, t, redeliveries)
    BY <1>2, <1>5, ThisSession, DisposalRemembered
  <2> HIDE DEF m, h
  <2> QED BY <1>1, <1>2, <1>3, <1>5, <2>1, ThisSession, OneSession, NoFactsAre
<1> QED BY <1>4, <1>5

\* The session is opened again.
LEMMA ReopenStep ==
  ASSUME Inv, NEW s \in Sessions, Reopen(s)
  PROVE  Inv'
<1> DEFINE m == mem[s]
           h == [host[s] EXCEPT !.live = TRUE]
           t == truth[s]
<1>1. /\ ~host[s].live
      /\ mem' = [mem EXCEPT ![s] = m] /\ truth' = [truth EXCEPT ![s] = t]
      /\ host' = [host EXCEPT ![s] = h] /\ config' = config /\ redeliveries' = redeliveries
  BY ThisSession DEF Reopen
<1>2. host[s] \in Life /\ t \in Facts /\ m \in Memory /\ redeliveries \in Nat
  BY ThisSession
<1>3. h \in Life /\ h.open = Idle
  BY <1>1, <1>2, ThisSession DEF Life
<1>4. IF Excluded(s) THEN m = EmptyMemory ELSE Remembered(m, h, t, redeliveries)
  BY <1>1, <1>2, ThisSession, ReopeningRemembered
<1> HIDE DEF m, h, t
<1> QED BY <1>1, <1>2, <1>3, <1>4, ThisSession, OneSession

\* A user-role message: refused, taken by the open turn, or held for the next one.
LEMMA UserMessageStep ==
  ASSUME Inv, NEW s \in Sessions, NEW direct \in BOOLEAN, NEW text \in MaybePrompt,
         NEW numbered \in BOOLEAN, UserMessage(s, direct, text, numbered)
  PROVE  Inv'
<1> DEFINE taken == direct /\ text # NoPrompt
           n == IF numbered THEN host[s].open ELSE CurrentTurn(mem[s])
           h == host[s]
<1>1. /\ host[s].live /\ (numbered => host[s].open # Idle)
      /\ Remember(s, IF taken THEN OfferUserText(mem[s], n, text) ELSE mem[s])
      /\ host' = host /\ host' = [host EXCEPT ![s] = h]
      /\ config' = config /\ redeliveries' = redeliveries
  BY ThisSession DEF UserMessage, InTurn
<1>2. /\ h \in Life /\ truth[s] \in Facts /\ mem[s] \in Memory /\ redeliveries \in Nat
      /\ h.open # Idle => h.live /\ h.open = h.last
  BY ThisSession
<1>3. CASE ~taken
  <2>1. truth' = truth
    BY <1>3 DEF UserMessage
  <2> DEFINE m == IF Excluded(s) THEN EmptyMemory ELSE mem[s]
  <2>2. /\ mem' = [mem EXCEPT ![s] = m]
        /\ m \in Memory
        /\ IF Excluded(s) THEN m = EmptyMemory
           ELSE Remembered(m, host[s], truth[s], redeliveries)
    BY <1>1, <1>3, ThisSession, EmptyMemoryIs
  <2> HIDE DEF m
  <2> QED BY <1>1, <2>1, <2>2, ThisSession, MemoryOnly
<1>4. CASE taken /\ host[s].open # Idle
  <2> DEFINE t == [truth[s] EXCEPT !.prompt = text, !.prompts = @ \cup {text}]
             p == OfferUserText(mem[s], n, text)
             m == IF Excluded(s) THEN EmptyMemory ELSE p
  <2>1. truth' = [truth EXCEPT ![s].prompt = text, ![s].prompts = @ \cup {text}]
    BY <1>4, ThisSession DEF UserMessage
  <2>2. truth' = [truth EXCEPT ![s] = t]
    BY <1>2, <2>1, ThisSession
  <2>3. text \in Prompts /\ text # NoPrompt
    BY <1>4 DEF MaybePrompt
  <2>4. /\ t \in Facts /\ t.started = truth[s].started /\ t.visible = truth[s].visible
        /\ t.toolErrors = truth[s].toolErrors /\ t.prompt = text
        /\ t.prompts = truth[s].prompts \cup {text} /\ t.again = truth[s].again
    BY <1>2, <2>3 DEF Facts, MaybePrompt
  <2> HIDE DEF t
  <2>5. n \in {h.open, CurrentTurn(mem[s])}
    OBVIOUS
  <2> HIDE DEF n
  <2>6. ~Excluded(s) => p \in Memory /\ Remembered(p, h, t, redeliveries)
    <3>1. ~Excluded(s) => Remembered(mem[s], h, truth[s], redeliveries)
      BY ThisSession
    <3> HIDE DEF h
    <3> QED BY <1>2, <1>4, <2>3, <2>4, <2>5, <3>1, WordsInTurnRemembered DEF h
  <2>7. mem' = [mem EXCEPT ![s] = m]
    BY <1>1, <1>4, ThisSession
  <2> HIDE DEF p, h
  <2>8. m \in Memory /\ IF Excluded(s) THEN m = EmptyMemory ELSE Remembered(m, h, t, redeliveries')
    BY <1>1, <2>6, EmptyMemoryIs
  <2> HIDE DEF m
  <2> QED BY <1>1, <1>2, <2>2, <2>4, <2>7, <2>8, ThisSession, OneSession
<1>5. CASE taken /\ host[s].open = Idle
  <2> DEFINE t == [truth[s] EXCEPT !.next = text, !.nexts = @ \cup {text}]
             p == OfferUserText(mem[s], n, text)
             m == IF Excluded(s) THEN EmptyMemory ELSE p
  <2>1. truth' = [truth EXCEPT ![s].next = text, ![s].nexts = @ \cup {text}]
    BY <1>5, ThisSession DEF UserMessage
  <2>2. truth' = [truth EXCEPT ![s] = t]
    BY <1>2, <2>1, ThisSession
  <2>3. text \in Prompts /\ text # NoPrompt
    BY <1>5 DEF MaybePrompt
  <2>4. /\ t \in Facts /\ t.next = text /\ t.nexts = truth[s].nexts \cup {text}
        /\ t.nextAgain = truth[s].nextAgain
    BY <1>2, <2>3 DEF Facts, MaybePrompt
  <2> HIDE DEF t
  <2>5. n = CurrentTurn(mem[s])
    BY <1>1, <1>5
  <2> HIDE DEF n
  <2>6. ~Excluded(s) => p \in Memory /\ Remembered(p, h, t, redeliveries)
    <3>1. ~Excluded(s) => Remembered(mem[s], h, truth[s], redeliveries)
      BY ThisSession
    <3>2. h.open = Idle /\ h.live
      BY <1>1, <1>5
    <3> HIDE DEF h
    <3> QED BY <1>2, <2>3, <2>4, <2>5, <3>1, <3>2, WordsBetweenTurnsRemembered
  <2>7. mem' = [mem EXCEPT ![s] = m]
    BY <1>1, <1>5, ThisSession
  <2> HIDE DEF p, h
  <2>8. m \in Memory /\ IF Excluded(s) THEN m = EmptyMemory ELSE Remembered(m, h, t, redeliveries')
    BY <1>1, <2>6, EmptyMemoryIs
  <2> HIDE DEF m
  <2> QED BY <1>1, <1>2, <2>2, <2>4, <2>7, <2>8, ThisSession, OneSession
<1> QED BY <1>3, <1>4, <1>5

\* What turn/end leaves of the turn.
LEMMA TurnEndStep ==
  ASSUME Inv, NEW s \in Sessions, InTurn(s), Remember(s, Release(mem[s], host[s].open)),
         host' = [host EXCEPT ![s].open = Idle],
         truth' = [truth EXCEPT ![s] = NoFacts],
         UNCHANGED <<config, redeliveries>>
  PROVE  Inv'
<1> DEFINE p == Release(mem[s], host[s].open)
           m == IF Excluded(s) THEN EmptyMemory ELSE p
           h == [host[s] EXCEPT !.open = Idle]
           t == NoFacts
<1>1. /\ host' = [host EXCEPT ![s] = h] /\ host[s].open # Idle
      /\ truth' = [truth EXCEPT ![s] = t] /\ t \in Facts
      /\ config' = config /\ redeliveries' = redeliveries
  BY ThisSession, NoFactsAre
<1>2. ~Excluded(s) => p \in Memory /\ Remembered(p, h, t, redeliveries)
  BY <1>1, ThisSession, EndRemembers
<1>3. h \in Life /\ h.open = Idle
  BY ThisSession DEF Life
<1>4. mem' = [mem EXCEPT ![s] = m]
  BY ThisSession
<1> HIDE DEF p, h, t
<1>5. m \in Memory /\ IF Excluded(s) THEN m = EmptyMemory ELSE Remembered(m, h, t, redeliveries')
  BY <1>1, <1>2, EmptyMemoryIs
<1> HIDE DEF m
<1>6. redeliveries \in Nat /\ redeliveries <= MaxRedeliveries
  BY ThisSession
<1> QED BY ONLY Inv, s \in Sessions, <1>1, <1>3, <1>4, <1>5, <1>6, OneSession

\* An event of a turn that has ended, be it its end or another.
LEMMA RedeliveryStep ==
  ASSUME Inv, NEW s \in Sessions, NEW n \in Turns, Redelivered(s, n), truth' = truth,
         \/ Remember(s, Touch(mem[s], n))
         \/ \E st \in TurnState : Remember(s, Register(Touch(mem[s], n), n, st))
         \/ Remember(s, Release(mem[s], n))
  PROVE  Inv'
<1>1. /\ host[s].live /\ n \in 1 .. host[s].last /\ n # host[s].open
      /\ redeliveries' = redeliveries + 1 /\ redeliveries' <= MaxRedeliveries
      /\ UNCHANGED <<config, host, truth>>
  BY HandlersAssumption, ThisSession DEF Redelivered
<1>2. PICK p : /\ Remember(s, p)
               /\ ~Excluded(s) => p \in Memory /\ Remembered(p, host[s], truth[s], redeliveries + 1)
  <2>1. CASE Remember(s, Touch(mem[s], n))
    BY <1>1, <2>1, ThisSession, EntryAgainRemembered, EmptyMemoryIs, StateOfType
  <2>2. CASE \E st \in TurnState : Remember(s, Register(Touch(mem[s], n), n, st))
    BY <1>1, <2>2, ThisSession, EntryAgainRemembered
  <2>3. CASE Remember(s, Release(mem[s], n))
    BY <1>1, <2>3, ThisSession, EndAgainRemembered
  <2> QED BY <2>1, <2>2, <2>3
<1> DEFINE m == IF Excluded(s) THEN EmptyMemory ELSE p
<1>3. mem' = [mem EXCEPT ![s] = m]
  BY <1>2, ThisSession
<1>4. m \in Memory /\ IF Excluded(s) THEN m = EmptyMemory ELSE Remembered(m, host[s], truth[s], redeliveries')
  BY <1>1, <1>2, EmptyMemoryIs
<1> HIDE DEF m
<1> QED BY <1>1, <1>3, <1>4, MemoryOnly

\* Any other event of such a turn than its end, or words.
LEMMA ActivityRedeliveredStep ==
  ASSUME Inv, NEW s \in Sessions, NEW n \in Turns, ActivityRedelivered(s, n)
  PROVE  Inv'
<1> DEFINE old == Touch(mem[s], n).turns[n]
<1>1. old \in TurnState
  <2>1. mem[s] \in Memory
    BY ThisSession
  <2>2. Touch(mem[s], n) \in Memory /\ old = StateOf(Touch(mem[s], n), n)
    BY <2>1, TouchIs
  <2> HIDE DEF old
  <2> QED BY <2>2, StateOfType
<1>2. PICK st : /\ Remember(s, Register(Touch(mem[s], n), n, st))
                /\ \/ st \in {old, [old EXCEPT !.sawTurnStart = TRUE],
                             [old EXCEPT !.toolErrors = @ + 1]}
                   \/ \E text \in Texts : st = [old EXCEPT !.visible = text]
  BY DEF ActivityRedelivered
<1> HIDE DEF old
<1>3. st \in TurnState
  <2>1. \A text \in Texts : [old EXCEPT !.visible = text] \in TurnState
    BY <1>1 DEF TurnState, MaybeText
  <2>2. [old EXCEPT !.sawTurnStart = TRUE] \in TurnState
    BY <1>1 DEF TurnState
  <2>3. [old EXCEPT !.toolErrors = @ + 1] \in TurnState
    BY <1>1 DEF TurnState
  <2> QED BY <1>1, <1>2, <2>1, <2>2, <2>3
<1>4. Redelivered(s, n) /\ truth' = truth
  BY DEF ActivityRedelivered
<1> QED BY <1>2, <1>3, <1>4, RedeliveryStep

\* A human's words of such a turn.
LEMMA UserMessageRedeliveredStep ==
  ASSUME Inv, NEW s \in Sessions, NEW n \in Turns, NEW text \in Prompts, text # NoPrompt,
         NEW numbered \in BOOLEAN, UserMessageRedelivered(s, n, text, numbered)
  PROVE  Inv'
<1> DEFINE h == host[s]
           k == IF numbered THEN n ELSE CurrentTurn(mem[s])
           t == IF numbered THEN truth[s]
                ELSE IF h.open # Idle THEN [truth[s] EXCEPT !.again = @ \cup {text}]
                ELSE [truth[s] EXCEPT !.nextAgain = @ \cup {text}]
           p == OfferUserText(mem[s], k, text)
           m == IF Excluded(s) THEN EmptyMemory ELSE p
<1>1. /\ h.live /\ n \in 1 .. h.last /\ n # h.open
      /\ redeliveries' = redeliveries + 1 /\ redeliveries' <= MaxRedeliveries
      /\ config' = config /\ host' = [host EXCEPT ![s] = h]
  BY HandlersAssumption, ThisSession DEF UserMessageRedelivered, Redelivered
<1>2. /\ h \in Life /\ truth[s] \in Facts /\ mem[s] \in Memory /\ redeliveries \in Nat
      /\ h.open # Idle => h.live /\ h.open = h.last
      /\ InTurn(s) <=> h.open # Idle
  BY ThisSession
<1>3. truth' = [truth EXCEPT ![s] = t]
  BY <1>2, ThisSession DEF UserMessageRedelivered
<1>4. /\ t \in Facts /\ t.started = truth[s].started /\ t.visible = truth[s].visible
      /\ t.toolErrors = truth[s].toolErrors
      /\ t.prompts = truth[s].prompts /\ t.nexts = truth[s].nexts
      /\ truth[s].again \subseteq t.again /\ truth[s].nextAgain \subseteq t.nextAgain
      /\ ~numbered => text \in IF h.open = Idle THEN t.nextAgain ELSE t.again
  BY <1>2 DEF Facts
<1>5. n # Idle /\ n \in 1 .. h.last
  BY <1>1 DEF Idle
<1>6. ~Excluded(s) => p \in Memory /\ Remembered(p, h, t, redeliveries + 1)
  <2> SUFFICES ASSUME ~Excluded(s)
               PROVE  p \in Memory /\ Remembered(p, h, t, redeliveries + 1)
    OBVIOUS
  <2>1. Remembered(mem[s], h, truth[s], redeliveries)
    BY ThisSession
  <2> HIDE DEF h
  <2>2. k \in {Idle} \cup 1 .. h.last
    <3>1. DOMAIN mem[s].turns \subseteq 1 .. h.last
      BY <2>1 DEF Remembered, Tidy
    <3> QED BY <1>2, <1>5, <3>1, CurrentTurnIs
  <2>3. k \in {Idle, h.open} => ~numbered
    BY <1>1, <1>5
  <2> HIDE DEF t, k
  <2> QED BY <1>1, <1>2, <1>4, <2>1, <2>2, <2>3, WordsAgainRemembered
<1>7. mem' = [mem EXCEPT ![s] = m]
  BY ThisSession DEF UserMessageRedelivered
<1> HIDE DEF p, h, t, k
<1>8. m \in Memory /\ IF Excluded(s) THEN m = EmptyMemory ELSE Remembered(m, h, t, redeliveries')
  BY <1>1, <1>6, EmptyMemoryIs
<1> HIDE DEF m
<1> QED BY <1>1, <1>2, <1>3, <1>4, <1>7, <1>8, OneSession

-----------------------------------------------------------------------------
\* Decisions: their keys are functions of the events they are about.

Events ==
  ({"turn"} \X Sessions \X Turns)
    \cup ({"question"} \X Sessions \X Asks \X Turns \X Steps)
    \cup ({"approval"} \X Sessions \X Asks \X Tools)

KeyOf(e) ==
  CASE e[1] = "turn"     -> <<"turn", e[2], e[3]>>
    [] e[1] = "question" -> QuestionKey(e[2], e[3], e[4], e[5])
    [] e[1] = "approval" -> ApprovalKey(e[2], e[3], e[4])

Verdicts == {"disabled", "session-muted", "workspace-muted", "disabled-by-policy", "no-visible-text",
             "below-min-duration", "duplicate", Notify, "enqueued", "rejected"}
Reports == [status : Statuses, visible : MaybeText, userText : MaybePrompt]
Decisions ==
  [key : {KeyOf(e) : e \in Events}, event : Events, genuine : BOOLEAN, verdict : Verdicts,
   told : Reports, kind : TurnEndKinds, real : Facts]

-----------------------------------------------------------------------------
\* The queue and the dedupe cache.

\* Every notification the queue took is in the log, and two of one key are further
\* apart than the cache is long.
Queueing ==
  /\ queued \in Seq(Decisions)
  /\ \A i \in 1 .. Len(queued) :
       \E j \in 1 .. Len(log) : log[j] = queued[i] /\ log[j].verdict = "enqueued"
  /\ MarkedIsEnqueued
  /\ \A i, j \in 1 .. Len(queued) :
       i < j /\ queued[i].key = queued[j].key => j - i > DedupeCapacity

\* The cache as a sequence: the keys of the newest notifications.
LEMMA CacheIs ==
  ASSUME queued \in Seq(Decisions), MarkedIsEnqueued
  PROVE  /\ dedupe \in Seq({KeyOf(e) : e \in Events})
         /\ Len(dedupe) = IF Len(queued) < DedupeCapacity THEN Len(queued) ELSE DedupeCapacity
         /\ \A i \in 1 .. Len(dedupe) :
              /\ Len(queued) - Len(dedupe) + i \in 1 .. Len(queued)
              /\ dedupe[i] = queued[Len(queued) - Len(dedupe) + i].key
<1> DEFINE n == Len(queued)
           size == IF n < DedupeCapacity THEN n ELSE DedupeCapacity
           Keys == {KeyOf(e) : e \in Events}
<1>1. n \in Nat /\ size \in Nat /\ size <= n
  BY HandlersAssumption, LenProperties
<1>2. dedupe = [i \in 1 .. size |-> queued[n - size + i].key]
  BY DEF MarkedIsEnqueued
<1>3. ASSUME NEW i \in 1 .. size
      PROVE  n - size + i \in 1 .. n /\ queued[n - size + i].key \in Keys
  <2>1. n - size + i \in 1 .. n
    BY <1>1
  <2> HIDE DEF size
  <2>2. queued[n - size + i] \in Decisions
    BY <2>1, ElementOfSeq
  <2> QED BY <2>1, <2>2 DEF Decisions
<1> HIDE DEF size, Keys
<1>4. dedupe \in [1 .. size -> Keys]
  BY <1>2, <1>3
<1>5. dedupe \in Seq(Keys) /\ Len(dedupe) = size
  BY <1>1, <1>4, IsASeq, LenProperties
<1> QED BY <1>2, <1>3, <1>5 DEF size, Keys

\* mark after an accepted job keeps the cache the keys of the newest.
LEMMA MarkKeepsNewest ==
  ASSUME queued \in Seq(Decisions), MarkedIsEnqueued,
         NEW d \in Decisions, ~Marked(dedupe, d.key),
         queued' = Append(queued, d),
         dedupe' = Mark(dedupe, d.key, DedupeCapacity)
  PROVE  MarkedIsEnqueued'
<1> DEFINE Keys == {KeyOf(e) : e \in Events}
           n == Len(queued)
           size == Len(dedupe)
<1>1. /\ dedupe \in Seq(Keys)
      /\ size = IF n < DedupeCapacity THEN n ELSE DedupeCapacity
      /\ \A i \in 1 .. size : n - size + i \in 1 .. n /\ dedupe[i] = queued[n - size + i].key
  BY CacheIs
<1>2. n \in Nat /\ size \in Nat /\ DedupeCapacity \in Nat \ {0}
  BY HandlersAssumption, LenProperties, CacheIs
<1>3. /\ Len(queued') = n + 1
      /\ \A i \in 1 .. n : queued'[i] = queued[i]
      /\ queued'[n + 1] = d
  BY AppendProperties
<1>4. d.key \in Keys
  BY DEF Decisions
<1> HIDE DEF Keys
<1>5. CASE size >= DedupeCapacity
  <2>1. dedupe # <<>> /\ size = DedupeCapacity /\ n >= DedupeCapacity
    BY <1>1, <1>2, <1>5, EmptySeq
  <2>2. /\ Tail(dedupe) \in Seq(Keys) /\ Len(Tail(dedupe)) = size - 1
        /\ \A i \in 1 .. size - 1 : Tail(dedupe)[i] = dedupe[i + 1]
    BY <1>1, <2>1, HeadTailProperties
  <2>3. dedupe' = Append(Tail(dedupe), d.key)
    BY <1>5 DEF Mark
  <2>4. /\ dedupe' \in Seq(Keys) /\ Len(dedupe') = size
        /\ \A i \in 1 .. size - 1 : dedupe'[i] = Tail(dedupe)[i]
        /\ dedupe'[size] = d.key
    BY <1>2, <1>4, <2>2, <2>3, AppendProperties
  <2>5. dedupe' = [i \in 1 .. size |-> dedupe'[i]]
    BY <2>4, LenProperties
  <2>6. ASSUME NEW i \in 1 .. size
        PROVE  dedupe'[i] = queued'[n + 1 - size + i].key
    <3>1. CASE i = size
      BY <1>2, <1>3, <2>4, <3>1
    <3>2. CASE i # size
      <4>1. i \in 1 .. size - 1 /\ i + 1 \in 1 .. size
        BY <1>2, <3>2
      <4>2. dedupe'[i] = queued[n - size + (i + 1)].key /\ n - size + (i + 1) \in 1 .. n
        BY <1>1, <2>2, <2>4, <4>1
      <4>3. n - size + (i + 1) = n + 1 - size + i
        BY <1>2
      <4> QED BY <1>3, <4>2, <4>3
    <3> QED BY <3>1, <3>2
  <2>7. dedupe' = [i \in 1 .. DedupeCapacity |-> queued'[Len(queued') - DedupeCapacity + i].key]
    <3>1. \A i \in 1 .. DedupeCapacity :
            dedupe'[i] = queued'[Len(queued') - DedupeCapacity + i].key
      BY <1>3, <2>1, <2>6
    <3>2. dedupe' = [i \in 1 .. DedupeCapacity |-> dedupe'[i]]
      BY <2>1, <2>5
    <3> QED BY ONLY <3>1, <3>2
  <2>8. ~ (Len(queued') < DedupeCapacity)
    BY <1>2, <1>3, <2>1
  <2> QED BY ONLY <2>7, <2>8 DEF MarkedIsEnqueued
<1>6. CASE size < DedupeCapacity
  <2>1. size = n
    BY <1>1, <1>2, <1>6
  <2>2. dedupe' = Append(dedupe, d.key)
    BY <1>2, <1>6 DEF Mark
  <2>3. /\ dedupe' \in Seq(Keys) /\ Len(dedupe') = n + 1
        /\ \A i \in 1 .. n : dedupe'[i] = dedupe[i]
        /\ dedupe'[n + 1] = d.key
    BY <1>1, <1>4, <2>1, <2>2, AppendProperties
  <2>4. dedupe' = [i \in 1 .. n + 1 |-> dedupe'[i]]
    BY <2>3, LenProperties
  <2>5. ASSUME NEW i \in 1 .. n + 1
        PROVE  dedupe'[i] = queued'[n + 1 - (n + 1) + i].key
    <3>1. n + 1 - (n + 1) + i = i
      BY <1>2
    <3>2. CASE i = n + 1
      BY <1>3, <2>3, <3>1, <3>2
    <3>3. CASE i # n + 1
      <4>1. i \in 1 .. n /\ n - size + i = i
        BY <1>2, <2>1, <3>3
      <4> QED BY <1>1, <1>3, <2>1, <2>3, <3>1, <4>1
    <3> QED BY <3>2, <3>3
  <2>6. n + 1 = IF n + 1 < DedupeCapacity THEN n + 1 ELSE DedupeCapacity
    BY <1>2, <1>6, <2>1
  <2> QED BY <1>3, <2>4, <2>5, <2>6 DEF MarkedIsEnqueued
<1> QED BY <1>2, <1>5, <1>6

\* A key that is not in the cache is not that of any of the newest notifications.
LEMMA UnmarkedIsFar ==
  ASSUME queued \in Seq(Decisions), MarkedIsEnqueued,
         NEW key, ~Marked(dedupe, key),
         NEW i \in 1 .. Len(queued), queued[i].key = key
  PROVE  Len(queued) + 1 - i > DedupeCapacity
<1> DEFINE n == Len(queued)
           size == Len(dedupe)
           p == i - (n - size)
<1>1. /\ size = IF n < DedupeCapacity THEN n ELSE DedupeCapacity
      /\ \A k \in 1 .. size : n - size + k \in 1 .. n /\ dedupe[k] = queued[n - size + k].key
  BY CacheIs
<1>2. n \in Nat /\ size \in Nat /\ DedupeCapacity \in Nat \ {0}
  BY HandlersAssumption, LenProperties, CacheIs
<1>3. SUFFICES ASSUME n + 1 - i <= DedupeCapacity
               PROVE  FALSE
  BY <1>2
<1>4. p \in 1 .. size /\ n - size + p = i
  <2>1. size = IF n < DedupeCapacity THEN n ELSE DedupeCapacity
    BY <1>1
  <2>2. i \in 1 .. n
    OBVIOUS
  <2> HIDE DEF n, size
  <2> QED BY ONLY <2>1, <2>2, <1>2, <1>3
<1>5. dedupe[p] = key
  BY <1>1, <1>4
<1> QED BY <1>4, <1>5 DEF Marked

\* What is decided keeps them right: only an accepted job is marked, and only one
\* whose key was not marked is offered.
LEMMA DecideKeepsQueueing ==
  ASSUME Queueing, log \in Seq(Decisions),
         NEW d \in Decisions, d.verdict = Notify => ~Marked(dedupe, d.key),
         Decide(d)
  PROVE  Queueing'
<1> DEFINE n == Len(queued)
<1>1. n \in Nat /\ Len(log) \in Nat /\ queued \in Seq(Decisions) /\ MarkedIsEnqueued
  BY LenProperties DEF Queueing
<1>2. ASSUME NEW e \in Decisions, log' = Append(log, e)
      PROVE  /\ \A i \in 1 .. n :
                  \E j \in 1 .. Len(log') : log'[j] = queued[i] /\ log'[j].verdict = "enqueued"
             /\ Len(log') = Len(log) + 1 /\ log'[Len(log')] = e
  <2>1. /\ Len(log') = Len(log) + 1
        /\ \A j \in 1 .. Len(log) : log'[j] = log[j]
        /\ log'[Len(log) + 1] = e
    BY <1>2, AppendProperties
  <2>2. ASSUME NEW i \in 1 .. n
        PROVE  \E j \in 1 .. Len(log') : log'[j] = queued[i] /\ log'[j].verdict = "enqueued"
    <3>1. PICK j \in 1 .. Len(log) : log[j] = queued[i] /\ log[j].verdict = "enqueued"
      BY DEF Queueing
    <3>2. j \in 1 .. Len(log') /\ log'[j] = log[j]
      BY <1>1, <2>1
    <3> QED BY <3>1, <3>2
  <2> QED BY <2>1, <2>2
<1>3. CASE d.verdict = Notify /\ Enqueue(d) /\ dedupe' = Mark(dedupe, d.key, DedupeCapacity)
  <2> DEFINE e == [d EXCEPT !.verdict = "enqueued"]
  <2>1. e \in Decisions /\ e.key = d.key /\ e.verdict = "enqueued"
    BY DEF Decisions, Verdicts
  <2>2. log' = Append(log, e) /\ queued' = Append(queued, e)
    BY <1>3 DEF Enqueue, Record
  <2> HIDE DEF e
  <2>3. ~Marked(dedupe, e.key) /\ dedupe' = Mark(dedupe, e.key, DedupeCapacity)
    BY <1>3, <2>1
  <2>4. MarkedIsEnqueued'
    BY <1>1, <2>1, <2>2, <2>3, MarkKeepsNewest
  <2>5. /\ queued' \in Seq(Decisions)
        /\ Len(queued') = n + 1
        /\ \A i \in 1 .. n : queued'[i] = queued[i]
        /\ queued'[n + 1] = e
    BY <1>1, <2>1, <2>2, AppendProperties
  <2>6. ASSUME NEW i \in 1 .. Len(queued')
        PROVE  \E j \in 1 .. Len(log') : log'[j] = queued'[i] /\ log'[j].verdict = "enqueued"
    <3>1. CASE i = n + 1
      <4>1. log'[Len(log')] = e /\ Len(log') \in 1 .. Len(log')
        BY <1>1, <1>2, <2>1, <2>2
      <4> QED BY <2>1, <2>5, <3>1, <4>1
    <3>2. CASE i # n + 1
      <4>1. i \in 1 .. n /\ queued'[i] = queued[i]
        BY <1>1, <2>5, <3>2
      <4> QED BY <1>2, <2>1, <2>2, <4>1
    <3> QED BY <3>1, <3>2
  <2>7. ASSUME NEW i \in 1 .. Len(queued'), NEW j \in 1 .. Len(queued'),
               i < j, queued'[i].key = queued'[j].key
        PROVE  j - i > DedupeCapacity
    <3>1. i \in 1 .. n /\ queued'[i] = queued[i]
      BY <1>1, <2>5, <2>7
    <3>2. CASE j = n + 1
      BY <1>1, <2>3, <2>5, <2>7, <3>1, <3>2, UnmarkedIsFar
    <3>3. CASE j # n + 1
      <4>1. j \in 1 .. n /\ queued'[j] = queued[j]
        BY <1>1, <2>5, <3>3
      <4> QED BY <2>7, <3>1, <4>1 DEF Queueing
    <3> QED BY <3>2, <3>3
  <2> QED BY <2>4, <2>5, <2>6, <2>7 DEF Queueing
<1>4. ASSUME NEW e \in Decisions, log' = Append(log, e), UNCHANGED <<dedupe, queued>>
      PROVE  Queueing'
  <2>1. MarkedIsEnqueued'
    BY <1>1, <1>4 DEF MarkedIsEnqueued
  <2> QED BY <1>2, <1>4, <2>1 DEF Queueing
<1>5. CASE d.verdict # Notify /\ Record(d) /\ UNCHANGED <<dedupe, queued>>
  BY <1>4, <1>5 DEF Record
<1>6. CASE Refuse(d) /\ UNCHANGED dedupe
  <2>1. [d EXCEPT !.verdict = "rejected"] \in Decisions
    BY DEF Decisions, Verdicts
  <2> QED BY <1>4, <1>6, <2>1 DEF Refuse, Record
<1> QED BY <1>3, <1>5, <1>6 DEF Decide

-----------------------------------------------------------------------------
\* The log.

\* What a mail of a turn says under the configuration c, given the number r of
\* redeliveries: of a turn that has settled, and of one that settles again.
ToldTruly(d, c, r) ==
  /\ d.event[1] = "turn" /\ d.genuine =>
       /\ d.told.status = ClassifyCompletion(d.kind, d.real.toolErrors)
       /\ d.told.visible = d.real.visible
       /\ d.told.userText \in {NoPrompt} \cup d.real.prompts \cup d.real.again
       /\ r = 0 => /\ d.told.userText \in {NoPrompt, d.real.prompt}
                   /\ c.includeUserPrompt /\ d.real.started => d.told.userText = d.real.prompt
  /\ d.event[1] = "turn" /\ ~d.genuine =>
       /\ r # 0
       /\ r <= 1 => d.told.userText = NoPrompt /\ d.told.visible = NoText

\* Why a decision suppresses, given the first n decisions of the log l.
Justified(d, l, n) ==
  /\ d.verdict = "duplicate" =>
       \E j \in 1 .. n :
         /\ l[j].verdict = "enqueued" /\ l[j].key = d.key
         /\ d.event[3] \notin Anonymous => l[j].event = d.event
  /\ d.verdict = "no-visible-text" /\ d.genuine => d.real.visible = NoText
  /\ d.verdict = "below-min-duration" /\ d.genuine => d.real.started

Logging ==
  /\ log \in Seq(Decisions)
  /\ \A i \in 1 .. Len(log) :
       /\ log[i].key = KeyOf(log[i].event)
       /\ Justified(log[i], log, i - 1)
       /\ ToldTruly(log[i], config, redeliveries)

\* The three invariants of the log, from what holds of each of its decisions.
LEMMA LoggingSays ==
  ASSUME Logging
  PROVE  SuppressionIsJustified /\ TurnsAreToldTruly /\ PromptIsTheTurns
<1>1. SuppressionIsJustified
  BY DEF Logging, Justified, SuppressionIsJustified
<1>2. ASSUME NEW d \in SettledTurns
      PROVE  d.event[1] = "turn" /\ d.genuine /\ ToldTruly(d, config, redeliveries)
  <2>1. PICK i \in 1 .. Len(log) : d = log[i]
    BY DEF SettledTurns, TurnsDecided
  <2>2. d.event[1] = "turn" /\ d.genuine
    BY DEF SettledTurns, TurnsDecided
  <2> QED BY <2>1, <2>2 DEF Logging
<1>3. TurnsAreToldTruly
  BY <1>2 DEF TurnsAreToldTruly, ToldTruly
<1>4. ASSUME NEW d \in ResettledTurns
      PROVE  d.event[1] = "turn" /\ ~d.genuine /\ ToldTruly(d, config, redeliveries)
  <2>1. PICK i \in 1 .. Len(log) : d = log[i]
    BY DEF ResettledTurns, TurnsDecided
  <2>2. d.event[1] = "turn" /\ ~d.genuine
    BY DEF ResettledTurns, SettledTurns, TurnsDecided
  <2> QED BY <2>1, <2>2 DEF Logging
<1>5. PromptIsTheTurns
  BY <1>2, <1>4 DEF PromptIsTheTurns, ToldTruly
<1> QED BY <1>1, <1>3, <1>5

\* What was told stays true when more is seen again.
LEMMA ToldStays ==
  ASSUME NEW d, NEW c, NEW r \in Nat, NEW q \in {r, r + 1}, ToldTruly(d, c, r)
  PROVE  ToldTruly(d, c, q)
<1>1. (q = 0 => r = 0) /\ (r # 0 => q # 0) /\ (q <= 1 => r <= 1)
  OBVIOUS
<1> QED BY <1>1 DEF ToldTruly

\* Nothing that was said becomes untrue when more is said or seen.
LEMMA LogGrows ==
  ASSUME Logging, config' = config, redeliveries \in Nat,
         redeliveries' \in {redeliveries, redeliveries + 1},
         NEW d \in Decisions, log' = Append(log, d),
         d.key = KeyOf(d.event), Justified(d, log, Len(log)),
         ToldTruly(d, config, redeliveries')
  PROVE  Logging'
<1>1. /\ log \in Seq(Decisions) /\ Len(log) \in Nat
      /\ log' \in Seq(Decisions)
      /\ Len(log') = Len(log) + 1
      /\ \A i \in 1 .. Len(log) : log'[i] = log[i]
      /\ log'[Len(log) + 1] = d
  BY AppendProperties, LenProperties DEF Logging
<1>2. ASSUME NEW e, NEW n \in 0 .. Len(log), Justified(e, log, n)
      PROVE  Justified(e, log', n)
  <2>1. \A j \in 1 .. n : log'[j] = log[j]
    BY <1>1
  <2> QED BY <1>2, <2>1 DEF Justified
<1>3. ASSUME NEW i \in 1 .. Len(log')
      PROVE  /\ log'[i].key = KeyOf(log'[i].event)
             /\ Justified(log'[i], log', i - 1)
             /\ ToldTruly(log'[i], config', redeliveries')
  <2>1. CASE i = Len(log) + 1
    <3>1. log'[i] = d /\ i - 1 = Len(log) /\ Len(log) \in 0 .. Len(log)
      BY <1>1, <2>1
    <3>2. Justified(d, log', Len(log))
      BY <1>2, <3>1
    <3> QED BY <3>1, <3>2
  <2>2. CASE i # Len(log) + 1
    <3>1. i \in 1 .. Len(log) /\ log'[i] = log[i] /\ i - 1 \in 0 .. Len(log)
      BY <1>1, <2>2
    <3>2. /\ log[i].key = KeyOf(log[i].event) /\ Justified(log[i], log, i - 1)
          /\ ToldTruly(log[i], config, redeliveries)
      BY <3>1 DEF Logging
    <3>3. Justified(log[i], log', i - 1)
      BY <1>2, <3>1, <3>2
    <3>4. ToldTruly(log[i], config', redeliveries')
      BY <3>2, ToldStays
    <3> QED BY <3>1, <3>2, <3>3, <3>4
  <2> QED BY <2>1, <2>2
<1> QED BY <1>1, <1>3 DEF Logging

\* An event of each family, and its key.
LEMMA EventsAre ==
  ASSUME NEW e \in Events
  PROVE  \/ \E s \in Sessions, n \in Turns : e = <<"turn", s, n>> /\ KeyOf(e) = <<"turn", s, n>>
         \/ \E s \in Sessions, a \in Asks, n \in Turns, step \in Steps :
              e = <<"question", s, a, n, step>> /\ KeyOf(e) = QuestionKey(s, a, n, step)
         \/ \E s \in Sessions, a \in Asks, tool \in Tools :
              e = <<"approval", s, a, tool>> /\ KeyOf(e) = ApprovalKey(s, a, tool)
<1>1. CASE e \in {"turn"} \X Sessions \X Turns
  <2>1. PICK s \in Sessions, n \in Turns : e = <<"turn", s, n>>
    BY <1>1
  <2>2. KeyOf(e) = <<"turn", s, n>>
    BY <2>1 DEF KeyOf
  <2> QED BY <2>1, <2>2
<1>2. CASE e \in {"question"} \X Sessions \X Asks \X Turns \X Steps
  <2>1. PICK s \in Sessions, a \in Asks, n \in Turns, step \in Steps : e = <<"question", s, a, n, step>>
    BY <1>2
  <2>2. e[1] = "question" /\ e[2] = s /\ e[3] = a /\ e[4] = n /\ e[5] = step
    BY <2>1
  <2>3. KeyOf(e) = QuestionKey(s, a, n, step)
    BY <2>2 DEF KeyOf
  <2> QED BY <2>1, <2>3
<1>3. CASE e \in {"approval"} \X Sessions \X Asks \X Tools
  <2>1. PICK s \in Sessions, a \in Asks, tool \in Tools : e = <<"approval", s, a, tool>>
    BY <1>3
  <2>2. e[1] = "approval" /\ e[2] = s /\ e[3] = a /\ e[4] = tool
    BY <2>1
  <2>3. KeyOf(e) = ApprovalKey(s, a, tool)
    BY <2>2 DEF KeyOf
  <2> QED BY <2>1, <2>3
<1> QED BY <1>1, <1>2, <1>3 DEF Events

\* The key of a turn is the turn, and that of an ask with an identity is that
\* identity, in its family.
LEMMA KeysTell ==
  ASSUME NEW e \in Events, NEW f \in Events, KeyOf(e) = KeyOf(f), e[3] \notin Anonymous
  PROVE  e[1] = f[1] /\ e[3] = f[3] /\ (e[1] = "turn" => e = f)
<1> DEFINE Turn(g) == \E s \in Sessions, n \in Turns :
                        g = <<"turn", s, n>> /\ KeyOf(g) = <<"turn", s, n>>
           Known(g) == \/ \E s \in Sessions : g[1] = "question" /\ KeyOf(g) = <<"question-call", s, g[3]>>
                       \/ \E s \in Sessions : g[1] = "approval" /\ KeyOf(g) = <<"approval-id", s, g[3]>>
           Unknown(g) == KeyOf(g)[1] \in {"question-step", "approval-tool"}
<1>1. ASSUME NEW g \in Events
      PROVE  Turn(g) \/ (Known(g) /\ g[3] \notin Anonymous) \/ (Unknown(g) /\ g[3] \in Anonymous)
  <2>1. CASE \E s \in Sessions, a \in Asks, n \in Turns, step \in Steps :
               g = <<"question", s, a, n, step>> /\ KeyOf(g) = QuestionKey(s, a, n, step)
    <3>1. PICK s \in Sessions, a \in Asks, n \in Turns, step \in Steps :
                 g = <<"question", s, a, n, step>> /\ KeyOf(g) = QuestionKey(s, a, n, step)
      BY <2>1
    <3>2. g[1] = "question" /\ g[3] = a
      BY <3>1
    <3> QED BY <3>1, <3>2 DEF QuestionKey
  <2>2. CASE \E s \in Sessions, a \in Asks, tool \in Tools :
               g = <<"approval", s, a, tool>> /\ KeyOf(g) = ApprovalKey(s, a, tool)
    <3>1. PICK s \in Sessions, a \in Asks, tool \in Tools :
                 g = <<"approval", s, a, tool>> /\ KeyOf(g) = ApprovalKey(s, a, tool)
      BY <2>2
    <3>2. g[1] = "approval" /\ g[3] = a
      BY <3>1
    <3> QED BY <3>1, <3>2 DEF ApprovalKey
  <2> QED BY <2>1, <2>2, EventsAre
<1>2. ASSUME NEW g \in Events, Turn(g)
      PROVE  g[1] = "turn" /\ KeyOf(g)[1] = "turn" /\ KeyOf(g) = g
  BY <1>2
<1>3. ASSUME NEW g \in Events, Known(g)
      PROVE  /\ KeyOf(g)[1] \in {"question-call", "approval-id"} /\ KeyOf(g)[3] = g[3]
             /\ g[1] = IF KeyOf(g)[1] = "question-call" THEN "question" ELSE "approval"
  BY <1>3
<1> HIDE DEF Turn, Known
<1>4. CASE Turn(e)
  <2>1. Turn(f)
    BY <1>1, <1>2, <1>3, <1>4
  <2> QED BY <1>2, <1>4, <2>1
<1>5. CASE Known(e)
  <2>1. Known(f)
    BY <1>1, <1>2, <1>3, <1>5
  <2>2. e[1] # "turn"
    BY <1>3, <1>5
  <2> QED BY <1>3, <1>5, <2>1, <2>2
<1> QED BY <1>1, <1>4, <1>5

\* A marked key is that of a notification the queue took, and where it has an identity
\* that notification was about the very same event.
LEMMA MarkedIsKnown ==
  ASSUME Logging, Queueing, NEW e \in Events, Marked(dedupe, KeyOf(e)),
         e[1] # "turn" => SameAsBefore(e)
  PROVE  \E j \in 1 .. Len(log) :
           /\ log[j].verdict = "enqueued" /\ log[j].key = KeyOf(e)
           /\ e[3] \notin Anonymous => log[j].event = e
<1>1. queued \in Seq(Decisions) /\ MarkedIsEnqueued
  BY DEF Queueing
<1>2. PICK i \in 1 .. Len(dedupe) : dedupe[i] = KeyOf(e)
  BY DEF Marked
<1>3. PICK k \in 1 .. Len(queued) : queued[k].key = KeyOf(e)
  BY <1>1, <1>2, CacheIs
<1>4. PICK j \in 1 .. Len(log) : log[j] = queued[k] /\ log[j].verdict = "enqueued"
  BY DEF Queueing
<1>5. log[j] \in Decisions /\ log[j].key = KeyOf(log[j].event)
  BY ElementOfSeq DEF Logging
<1>6. log[j].event \in Events
  BY <1>5 DEF Decisions
<1>7. ASSUME e[3] \notin Anonymous
      PROVE  log[j].event = e
  <2> DEFINE f == log[j].event
  <2>1. f \in Events /\ KeyOf(e) = KeyOf(f)
    BY <1>3, <1>4, <1>5, <1>6
  <2> HIDE DEF f
  <2>2. e[1] = f[1] /\ e[3] = f[3] /\ (e[1] = "turn" => e = f)
    BY <1>7, <2>1, KeysTell
  <2> QED BY <2>2 DEF SameAsBefore, f
<1> QED BY <1>3, <1>4, <1>7

\* Whatever is decided, if it is a fair decision.
LEMMA DecideKeepsLogging ==
  ASSUME Logging, Queueing, config' = config, redeliveries \in Nat,
         redeliveries' \in {redeliveries, redeliveries + 1},
         NEW d \in Decisions, d.key = KeyOf(d.event),
         d.verdict \notin {"enqueued", "rejected"},
         d.verdict \in {"duplicate", Notify} => (d.verdict = "duplicate" <=> Marked(dedupe, d.key)),
         Justified(d, log, Len(log)), ToldTruly(d, config, redeliveries'),
         Decide(d)
  PROVE  Logging' /\ Queueing'
<1>1. Queueing'
  <2>1. d.verdict = Notify => ~Marked(dedupe, d.key)
    BY DEF Notify
  <2> QED BY <2>1, DecideKeepsQueueing DEF Logging
<1>2. ASSUME NEW verdict \in {"enqueued", "rejected"}, Record([d EXCEPT !.verdict = verdict])
      PROVE  Logging'
  <2> DEFINE e == [d EXCEPT !.verdict = verdict]
  <2>1. /\ e \in Decisions /\ e.key = d.key /\ e.event = d.event /\ e.genuine = d.genuine
        /\ e.verdict = verdict /\ e.told = d.told /\ e.kind = d.kind /\ e.real = d.real
    BY DEF Decisions, Verdicts
  <2>2. log' = Append(log, e)
    BY <1>2 DEF Record
  <2> HIDE DEF e
  <2>3. Justified(e, log, Len(log))
    BY <2>1 DEF Justified
  <2>4. ToldTruly(e, config, redeliveries')
    BY <2>1 DEF ToldTruly
  <2> QED BY <2>1, <2>2, <2>3, <2>4, LogGrows
<1>3. ASSUME Record(d)
      PROVE  Logging'
  BY <1>3, LogGrows DEF Record
<1> QED BY <1>1, <1>2, <1>3 DEF Decide, Enqueue, Refuse

-----------------------------------------------------------------------------
\* The two kinds of decision are fair ones.

\* What decideAttentionNotification can answer, and that it answers "duplicate" only
\* for a marked key.
LEMMA AttentionVerdicts ==
  ASSUME NEW s, NEW cwd, NEW switch, NEW c, NEW dup \in BOOLEAN
  PROVE  LET v == DecideAttention(s, cwd, switch, c, dup)
         IN  /\ v \in {"disabled", "session-muted", "workspace-muted", "disabled-by-policy",
                       "duplicate", Notify}
             /\ v \in {"duplicate", Notify} => (v = "duplicate" <=> dup)
BY DEF DecideAttention, ScopeSuppression, Notify

\* What decideNotification can answer, and what its suppressions rest on.
LEMMA TurnVerdicts ==
  ASSUME NEW candidate, NEW c, NEW dup \in BOOLEAN
  PROVE  LET v == DecideNotification(candidate, c, dup)
         IN  /\ v \in Verdicts \ {"enqueued", "rejected"}
             /\ v \in {"duplicate", Notify} => (v = "duplicate" <=> dup)
             /\ v = "no-visible-text" => ~candidate.visible
             /\ v = "below-min-duration" => candidate.durationMs # UnknownDuration
BY DEF DecideNotification, ScopeSuppression, Notify, Verdicts

\* A question or an approval request that is decided on keeps the log and the cache.
LEMMA AskDecided ==
  ASSUME Logging, Queueing, config' = config, redeliveries \in Nat,
         redeliveries' \in {redeliveries, redeliveries + 1},
         NEW e \in Events, e[1] # "turn", SameAsBefore(e), NEW switch,
         Decide(AskDecision(KeyOf(e), e, switch))
  PROVE  Logging' /\ Queueing'
<1> DEFINE d == AskDecision(KeyOf(e), e, switch)
           dup == Marked(dedupe, KeyOf(e))
           v == DecideAttention(e[2], NoCwd, switch, config, dup)
<1>1. d = [key |-> KeyOf(e), event |-> e, genuine |-> TRUE, verdict |-> v,
           told |-> NothingTold, kind |-> "unknown", real |-> NoFacts]
  BY DEF AskDecision
<1>2. /\ v \in {"disabled", "session-muted", "workspace-muted", "disabled-by-policy",
                "duplicate", Notify}
      /\ v \in {"duplicate", Notify} => (v = "duplicate" <=> dup)
  <2>1. dup \in BOOLEAN
    BY DEF Marked
  <2> HIDE DEF dup
  <2> QED BY <2>1, AttentionVerdicts
<1> HIDE DEF v, dup
<1>3. NothingTold \in Reports
  BY DEF NothingTold, Reports, Statuses, TurnEndKinds, MaybeText, MaybePrompt
<1>4. /\ d \in Decisions /\ d.key = KeyOf(d.event) /\ d.event = e /\ d.genuine = TRUE
      /\ d.verdict = v
  BY <1>1, <1>2, <1>3, NoFactsAre DEF Decisions, Verdicts, TurnEndKinds
<1> HIDE DEF d
<1>5. Justified(d, log, Len(log))
  <2>1. d.verdict = "duplicate" => dup
    BY <1>2, <1>4
  <2>2. d.verdict = "duplicate" =>
          \E j \in 1 .. Len(log) :
             /\ log[j].verdict = "enqueued" /\ log[j].key = d.key
             /\ d.event[3] \notin Anonymous => log[j].event = d.event
    BY <1>4, <2>1, MarkedIsKnown DEF dup
  <2>3. d.verdict \notin {"no-visible-text", "below-min-duration"}
    BY <1>2, <1>4 DEF Notify
  <2> QED BY <2>2, <2>3 DEF Justified
<1>6. ToldTruly(d, config, redeliveries')
  BY <1>4 DEF ToldTruly
<1>7. /\ d.verdict \notin {"enqueued", "rejected"}
      /\ d.verdict \in {"duplicate", Notify} => (d.verdict = "duplicate" <=> Marked(dedupe, d.key))
  BY <1>2, <1>4 DEF Notify, dup
<1>8. Decide(d)
  BY DEF d
<1> QED BY <1>4, <1>5, <1>6, <1>7, <1>8, DecideKeepsLogging

\* A settled turn: what its decision says is what is remembered of it, and that is
\* what happened when the end is genuine.
LEMMA TurnDecided ==
  ASSUME Inv, Logging, Queueing, config' = config,
         redeliveries' \in {redeliveries, redeliveries + 1},
         NEW s \in Sessions, ~Excluded(s), NEW n \in Turns, NEW kind \in Kinds, NEW duration,
         NEW genuine \in BOOLEAN, NEW real \in Facts,
         genuine => n = host[s].open /\ n # Idle /\ real = truth[s] /\ redeliveries' = redeliveries,
         ~genuine => n # host[s].open /\ redeliveries' = redeliveries + 1,
         Decide(TurnDecision(s, n, kind, duration, genuine, real))
  PROVE  Logging' /\ Queueing'
<1> DEFINE d == TurnDecision(s, n, kind, duration, genuine, real)
           state == StateOf(mem[s], n)
           e == <<"turn", s, n>>
           dup == Marked(dedupe, e)
           status == ClassifyCompletion(kind, state.toolErrors)
           candidate == [sessionId |-> s, cwd |-> NoCwd, status |-> status,
                         visible |-> state.visible # NoText,
                         durationMs |-> IF state.sawTurnStart THEN duration ELSE UnknownDuration]
           v == DecideNotification(candidate, config, dup)
           text == IF config.includeUserPrompt THEN state.userText ELSE NoPrompt
<1>1. d = [key |-> e, event |-> e, genuine |-> genuine, verdict |-> v,
           told |-> [status |-> status, visible |-> state.visible, userText |-> text],
           kind |-> kind, real |-> real]
  BY DEF TurnDecision
<1>2. /\ v \in Verdicts \ {"enqueued", "rejected"}
      /\ v \in {"duplicate", Notify} => (v = "duplicate" <=> dup)
      /\ v = "no-visible-text" => state.visible = NoText
      /\ v = "below-min-duration" => state.sawTurnStart
  <2>1. dup \in BOOLEAN
    BY DEF Marked
  <2>2. ~candidate.visible => state.visible = NoText
    OBVIOUS
  <2>3. candidate.durationMs # UnknownDuration => state.sawTurnStart
    OBVIOUS
  <2> HIDE DEF dup, candidate
  <2> QED BY <2>1, <2>2, <2>3, TurnVerdicts
<1>3. state \in TurnState
  BY ThisSession, StateOfType
<1>4. status \in Statuses
  BY HandlersAssumption DEF ClassifyCompletion, Statuses, TurnEndKinds
<1>5. e \in Events /\ KeyOf(e) = e /\ e[1] = "turn"
  BY DEF Events, KeyOf
<1> HIDE DEF v, dup, candidate, status, state
<1>6. text \in MaybePrompt
  BY <1>3 DEF TurnState, MaybePrompt
<1> HIDE DEF text, e
<1>7. /\ d \in Decisions /\ d.key = KeyOf(d.event) /\ d.event = e /\ d.genuine = genuine
      /\ d.verdict = v /\ d.kind = kind /\ d.real = real
      /\ d.told.status = status /\ d.told.visible = state.visible /\ d.told.userText = text
  <2>1. kind \in TurnEndKinds /\ state.visible \in MaybeText
    BY <1>3, HandlersAssumption DEF TurnState
  <2>2. [status |-> status, visible |-> state.visible, userText |-> text] \in Reports
    BY <1>4, <1>6, <2>1 DEF Reports
  <2>3. e \in {KeyOf(g) : g \in Events}
    BY <1>5
  <2> QED BY <1>1, <1>2, <1>5, <2>1, <2>2, <2>3 DEF Decisions
<1> HIDE DEF d
<1>8. genuine => /\ state.visible = real.visible /\ state.toolErrors = real.toolErrors
                 /\ state.sawTurnStart = real.started
                 /\ state.userText \in {NoPrompt} \cup real.prompts \cup real.again
                 /\ redeliveries = 0 => /\ state.userText \in {NoPrompt, real.prompt}
                                        /\ real.started => state.userText = real.prompt
  <2>1. Remembered(mem[s], host[s], truth[s], redeliveries)
    BY ThisSession
  <2> QED BY <2>1 DEF Remembered, Truthful, OwnWords, NewestWords, state
<1>9. Justified(d, log, Len(log))
  <2>1. d.verdict = "duplicate" =>
          \E j \in 1 .. Len(log) :
             /\ log[j].verdict = "enqueued" /\ log[j].key = d.key
             /\ d.event[3] \notin Anonymous => log[j].event = d.event
    BY <1>2, <1>5, <1>7, MarkedIsKnown DEF dup
  <2>2. d.verdict = "no-visible-text" /\ d.genuine => d.real.visible = NoText
    BY <1>2, <1>7, <1>8
  <2>3. d.verdict = "below-min-duration" /\ d.genuine => d.real.started
    BY <1>2, <1>7, <1>8
  <2> QED BY <2>1, <2>2, <2>3 DEF Justified
<1>10. ToldTruly(d, config, redeliveries')
  <2>1. ~genuine /\ redeliveries = 0 => state.userText = NoPrompt /\ state.visible = NoText
    <3> SUFFICES ASSUME ~genuine, redeliveries = 0
                 PROVE  state.userText = NoPrompt /\ state.visible = NoText
      OBVIOUS
    <3>1. Tidy(mem[s], host[s], 0) /\ mem[s] \in Memory
      BY ThisSession DEF Remembered
    <3>2. n \notin DOMAIN mem[s].turns
      BY <3>1, NoneLinger
    <3> QED BY <3>1, <3>2, Unheard DEF state, FreshTurn
  <2>2. redeliveries \in Nat
    BY ThisSession
  <2>3. ~genuine => redeliveries' # 0 /\ (redeliveries' <= 1 => redeliveries = 0)
    BY <2>2
  <2>4. state.userText = NoPrompt => text = NoPrompt
    BY DEF text
  <2>5. d.event[1] = "turn" /\ ~d.genuine =>
          /\ redeliveries' # 0
          /\ redeliveries' <= 1 => d.told.userText = NoPrompt /\ d.told.visible = NoText
    BY <1>7, <2>1, <2>3, <2>4
  <2> QED BY <1>7, <1>8, <2>5 DEF ToldTruly, status, text
<1>11. /\ d.verdict \notin {"enqueued", "rejected"}
       /\ d.verdict \in {"duplicate", Notify} => (d.verdict = "duplicate" <=> Marked(dedupe, d.key))
  BY <1>2, <1>5, <1>7 DEF dup
<1>12. Decide(d) /\ redeliveries \in Nat
  BY ThisSession DEF d
<1> QED BY <1>7, <1>9, <1>10, <1>11, <1>12, DecideKeepsLogging

-----------------------------------------------------------------------------
\* The inductive invariant.

IInv == Inv /\ Logging /\ Queueing

\* It holds when the plugin is applied, in the middle of turns or not.
LEMMA InitIInv == Init => IInv
<1> SUFFICES ASSUME Init
             PROVE  IInv
  OBVIOUS
<1>1. /\ config \in Configs /\ mem = [s \in Sessions |-> EmptyMemory]
      /\ truth = [s \in Sessions |-> NoFacts] /\ redeliveries = 0
      /\ log = <<>> /\ queued = <<>> /\ dedupe = <<>>
      /\ host \in [Sessions -> {[live |-> TRUE, open |-> n, last |-> n] : n \in {Idle, 1}}]
  BY DEF Init
<1>2. ASSUME NEW s \in Sessions
      PROVE  host[s] \in Life /\ (host[s].open # Idle => host[s].live /\ host[s].open = host[s].last)
  <2>1. PICK n \in {Idle, 1} : host[s] = [live |-> TRUE, open |-> n, last |-> n]
    BY <1>1
  <2>2. n \in {Idle} \cup Turns
    BY HandlersAssumption DEF Turns
  <2> QED BY <2>1, <2>2 DEF Life
<1>3. Types
  <2>1. host \in [Sessions -> Life]
    BY <1>1, <1>2
  <2> QED BY <1>1, <2>1, NoFactsAre, EmptyMemoryIs, HandlersAssumption DEF Types
<1>4. ASSUME NEW s \in Sessions
      PROVE  /\ Tidy(EmptyMemory, host[s], 0) /\ Truthful(EmptyMemory, host[s], NoFacts)
             /\ OwnWords(EmptyMemory, host[s], NoFacts) /\ NewestWords(EmptyMemory, host[s], NoFacts)
  <2>1. Tidy(EmptyMemory, host[s], 0)
    BY <1>2, EmptyIsTidy
  <2>2. /\ NoFacts.started = FALSE /\ NoFacts.visible = NoText /\ NoFacts.toolErrors = 0
        /\ NoFacts.prompt = NoPrompt /\ NoFacts.next = NoPrompt
    BY DEF NoFacts
  <2>3. \A n : /\ StateOf(EmptyMemory, n).sawTurnStart = FALSE
              /\ StateOf(EmptyMemory, n).visible = NoText
              /\ StateOf(EmptyMemory, n).toolErrors = 0
              /\ StateOf(EmptyMemory, n).userText = NoPrompt
    BY EmptyMemoryIs DEF FreshTurn
  <2>4. EmptyMemory.pending = NoPrompt /\ ~Held(EmptyMemory)
    BY EmptyMemoryIs DEF Held
  <2>5. Truthful(EmptyMemory, host[s], NoFacts)
    BY <2>2, <2>3 DEF Truthful
  <2>6. OwnWords(EmptyMemory, host[s], NoFacts)
    BY <2>3, <2>4 DEF OwnWords
  <2>7. NewestWords(EmptyMemory, host[s], NoFacts)
    BY <2>2, <2>3, <2>4 DEF NewestWords
  <2> QED BY <2>1, <2>5, <2>6, <2>7
<1>5. SessionsRemembered
  BY <1>1, <1>4 DEF SessionsRemembered, Remembered
<1>6. log \in Seq(Decisions) /\ Len(log) = 0 /\ queued \in Seq(Decisions) /\ Len(queued) = 0
  BY <1>1, EmptySeq
<1>7. Logging
  BY <1>6 DEF Logging
<1>8. MarkedIsEnqueued
  <2>1. <<>> = [i \in 1 .. 0 |-> queued[Len(queued) - 0 + i].key]
    OBVIOUS
  <2> QED BY <1>1, <1>6, <2>1, HandlersAssumption DEF MarkedIsEnqueued
<1> QED BY <1>3, <1>5, <1>6, <1>7, <1>8 DEF IInv, Inv, Queueing

\* When nothing is decided the log and the cache stand.
LEMMA UndecidedKeeps ==
  ASSUME Logging, Queueing, Undecided, config' = config, redeliveries \in Nat,
         redeliveries' \in {redeliveries, redeliveries + 1}
  PROVE  Logging' /\ Queueing'
<1>1. dedupe' = dedupe /\ log' = log /\ queued' = queued
  BY DEF Undecided
<1>2. ASSUME NEW d, ToldTruly(d, config, redeliveries)
      PROVE  ToldTruly(d, config', redeliveries')
  BY <1>2, ToldStays
<1>3. Logging'
  BY <1>1, <1>2 DEF Logging
<1>4. MarkedIsEnqueued'
  BY <1>1 DEF Queueing, MarkedIsEnqueued
<1> QED BY <1>1, <1>3, <1>4 DEF Queueing

\* Every action keeps the three parts of the invariant.
LEMMA NextIInv ==
  ASSUME IInv, [Next]_vars
  PROVE  IInv'
<1>1. Inv /\ Logging /\ Queueing /\ redeliveries \in Nat
  BY HandlersAssumption DEF IInv, Inv, Types
<1>2. CASE UNCHANGED vars
  <2>1. /\ config' = config /\ mem' = mem /\ host' = host /\ truth' = truth
        /\ redeliveries' = redeliveries /\ Undecided
    BY <1>2 DEF vars, Undecided
  <2>2. Inv'
    BY <1>1, <2>1 DEF Inv, Types, SessionsRemembered, Excluded
  <2> QED BY <1>1, <2>1, <2>2, UndecidedKeeps DEF IInv
<1>3. ASSUME NEW s \in Sessions,
             \/ TurnStart(s)
             \/ Activity(s)
             \/ \E text \in MaybeText : AssistantMessage(s, text)
             \/ ToolError(s)
             \/ \E direct, numbered \in BOOLEAN, text \in MaybePrompt :
                  UserMessage(s, direct, text, numbered)
             \/ PendingExpires(s)
             \/ SessionDisposed(s)
             \/ Reopen(s)
             \/ \E n \in Turns : ActivityRedelivered(s, n)
             \/ \E n \in Turns, text \in Prompts, numbered \in BOOLEAN :
                  UserMessageRedelivered(s, n, text, numbered)
      PROVE  IInv'
  <2>1. Undecided /\ config' = config /\ redeliveries' \in {redeliveries, redeliveries + 1}
    BY <1>3 DEF TurnStart, Activity, AssistantMessage, ToolError, UserMessage, PendingExpires,
                SessionDisposed, Reopen, ActivityRedelivered, UserMessageRedelivered, Redelivered
  <2>2. Inv'
    <3>1. CASE TurnStart(s)
      BY <1>1, <3>1, TurnStartStep
    <3>2. CASE Activity(s)
      BY <1>1, <3>2, ActivityStep DEF Activity
    <3>3. CASE \E text \in MaybeText : AssistantMessage(s, text)
      BY <1>1, <3>3, AssistantMessageStep
    <3>4. CASE ToolError(s)
      BY <1>1, <3>4, ToolErrorStep
    <3>5. CASE \E direct, numbered \in BOOLEAN, text \in MaybePrompt :
                 UserMessage(s, direct, text, numbered)
      BY <1>1, <3>5, UserMessageStep
    <3>6. CASE PendingExpires(s)
      BY <1>1, <3>6, PendingExpiresStep
    <3>7. CASE SessionDisposed(s)
      BY <1>1, <3>7, SessionDisposedStep
    <3>8. CASE Reopen(s)
      BY <1>1, <3>8, ReopenStep
    <3>9. CASE \E n \in Turns : ActivityRedelivered(s, n)
      BY <1>1, <3>9, ActivityRedeliveredStep
    <3>10. CASE \E n \in Turns, text \in Prompts, numbered \in BOOLEAN :
                  UserMessageRedelivered(s, n, text, numbered)
      BY <1>1, <3>10, UserMessageRedeliveredStep, HandlersAssumption
    <3> QED BY <1>3, <3>1, <3>2, <3>3, <3>4, <3>5, <3>6, <3>7, <3>8, <3>9, <3>10
  <2> QED BY <1>1, <2>1, <2>2, UndecidedKeeps DEF IInv
<1>4. ASSUME NEW s \in Sessions, NEW n \in Turns, NEW a \in Asks, NEW step \in Steps,
             NEW parsable \in BOOLEAN, AskInTurn(s, n, a, step, parsable),
             config' = config, redeliveries' \in {redeliveries, redeliveries + 1}, Inv'
      PROVE  IInv'
  <2> DEFINE e == <<"question", s, a, n, step>>
  <2>1. SameAsBefore(e)
    BY <1>4 DEF AskInTurn
  <2>2. e \in Events /\ e[1] # "turn" /\ KeyOf(e) = QuestionKey(s, a, n, step)
    BY DEF Events, KeyOf
  <2>3. CASE parsable /\ ~Excluded(s)
    <3>1. Decide(AskDecision(KeyOf(e), e, config.notifyQuestions))
      BY <1>4, <2>2, <2>3 DEF AskInTurn
    <3> HIDE DEF e
    <3> QED BY <1>1, <1>4, <2>1, <2>2, <3>1, AskDecided DEF IInv
  <2>4. CASE ~ (parsable /\ ~Excluded(s))
    <3>1. Undecided
      BY <1>4, <2>4 DEF AskInTurn
    <3> QED BY <1>1, <1>4, <3>1, UndecidedKeeps DEF IInv
  <2> QED BY <2>3, <2>4
<1>8. ASSUME NEW s \in Sessions, NEW a \in Asks, NEW step \in Steps, NEW parsable \in BOOLEAN,
             Question(s, a, step, parsable)
      PROVE  IInv'
  <2>1. /\ InTurn(s) /\ Remember(s, Touch(mem[s], host[s].open))
        /\ AskInTurn(s, host[s].open, a, step, parsable)
        /\ UNCHANGED <<config, host, truth, redeliveries>>
    BY <1>8 DEF Question, AskInTurn
  <2>2. Inv'
    BY <1>1, <2>1, ActivityStep
  <2>3. host[s].open \in Turns
    BY <1>1, <2>1, ThisSession DEF Life
  <2> QED BY <1>4, <2>1, <2>2, <2>3
<1>9. ASSUME NEW s \in Sessions, NEW n \in Turns, NEW a \in Asks, NEW step \in Steps,
             NEW parsable \in BOOLEAN, QuestionRedelivered(s, n, a, step, parsable)
      PROVE  IInv'
  <2>1. /\ Redelivered(s, n) /\ Remember(s, Touch(mem[s], n)) /\ truth' = truth
        /\ AskInTurn(s, n, a, step, parsable)
        /\ config' = config /\ redeliveries' = redeliveries + 1
    BY <1>9 DEF QuestionRedelivered, AskInTurn, Redelivered
  <2>2. Inv'
    BY <1>1, <2>1, RedeliveryStep
  <2> QED BY <1>4, <2>1, <2>2
<1>5. ASSUME NEW s \in Sessions, NEW a \in Asks, NEW tool \in Tools, ApprovalAsked(s, a, tool)
      PROVE  IInv'
  <2> DEFINE e == <<"approval", s, a, tool>>
  <2>1. /\ SameAsBefore(e)
        /\ config' = config /\ mem' = mem /\ host' = host /\ truth' = truth
        /\ redeliveries' = redeliveries
    BY <1>5 DEF ApprovalAsked
  <2>2. Inv'
    BY <1>1, <2>1 DEF Inv, Types, SessionsRemembered, Excluded
  <2>3. e \in Events /\ e[1] # "turn" /\ KeyOf(e) = ApprovalKey(s, a, tool)
    BY DEF Events, KeyOf
  <2>4. Decide(AskDecision(KeyOf(e), e, config.notifyApprovals))
    BY <1>5, <2>3 DEF ApprovalAsked
  <2> HIDE DEF e
  <2> QED BY <1>1, <2>1, <2>2, <2>3, <2>4, AskDecided DEF IInv
<1>6. ASSUME NEW s \in Sessions, NEW kind \in Kinds, NEW duration \in Durations,
             TurnEnd(s, kind, duration)
      PROVE  IInv'
  <2> DEFINE n == host[s].open
  <2>1. /\ InTurn(s) /\ Remember(s, Release(mem[s], n))
        /\ host' = [host EXCEPT ![s].open = Idle]
        /\ truth' = [truth EXCEPT ![s] = NoFacts]
        /\ UNCHANGED <<config, redeliveries>>
        /\ config' = config /\ redeliveries' = redeliveries
    BY <1>6 DEF TurnEnd, Settle
  <2>2. Inv'
    BY <1>1, <2>1, TurnEndStep
  <2>3. n \in Turns /\ n # Idle /\ truth[s] \in Facts
    BY <1>1, <2>1, ThisSession DEF Life
  <2>4. CASE Excluded(s)
    BY <1>1, <1>6, <2>1, <2>2, <2>4, UndecidedKeeps DEF IInv, TurnEnd, Settle
  <2>5. CASE ~Excluded(s)
    <3>1. Decide(TurnDecision(s, n, kind, duration, TRUE, truth[s]))
      BY <1>6, <2>5 DEF TurnEnd, Settle
    <3> QED BY <1>1, <2>1, <2>2, <2>3, <2>5, <3>1, TurnDecided DEF IInv
  <2> QED BY <2>4, <2>5
<1>7. ASSUME NEW s \in Sessions, NEW n \in Turns, NEW kind \in Kinds, NEW duration \in Durations,
             TurnEndRedelivered(s, n, kind, duration)
      PROVE  IInv'
  <2>1. /\ Redelivered(s, n) /\ Remember(s, Release(mem[s], n)) /\ truth' = truth
        /\ config' = config /\ redeliveries' = redeliveries + 1 /\ n # host[s].open
    BY <1>7 DEF TurnEndRedelivered, Settle, Redelivered
  <2>2. Inv'
    BY <1>1, <2>1, RedeliveryStep
  <2>3. CASE Excluded(s)
    BY <1>1, <1>7, <2>1, <2>2, <2>3, UndecidedKeeps DEF IInv, TurnEndRedelivered, Settle
  <2>4. CASE ~Excluded(s)
    <3>1. Decide(TurnDecision(s, n, kind, duration, FALSE, NoFacts))
      BY <1>7, <2>4 DEF TurnEndRedelivered, Settle
    <3> QED BY <1>1, <2>1, <2>2, <2>4, <3>1, TurnDecided, NoFactsAre DEF IInv
  <2> QED BY <2>3, <2>4
<1> QED BY <1>2, <1>3, <1>5, <1>6, <1>7, <1>8, <1>9 DEF Next

\* The invariant the other theorems follow from: in every state reached by handling
\* events, what is remembered of each session, the log and the dedupe cache agree.
THEOREM InductiveInvariant == Spec => []IInv
<1>1. IInv /\ [Next]_vars => IInv'
  BY NextIInv
<1> QED BY <1>1, InitIInv, PTL DEF Spec

-----------------------------------------------------------------------------
\* What follows from it.

\* Every state is well formed, and the dedupe cache never exceeds maxDedupeEntries.
THEOREM HandlersTypeCorrect == Spec => []TypeOK
<1>1. IInv => TypeOK
  <2> SUFFICES ASSUME IInv
               PROVE  TypeOK
    OBVIOUS
  <2>1. config \in Configs /\ redeliveries \in 0 .. MaxRedeliveries
    BY DEF IInv, Inv, Types
  <2>2. ASSUME NEW s \in Sessions
        PROVE  /\ DOMAIN mem[s].turns \subseteq Turns
               /\ \A n \in DOMAIN mem[s].turns : mem[s].turns[n] \in TurnState
               /\ mem[s].pending \in MaybePrompt /\ mem[s].stale \in BOOLEAN
               /\ mem[s].attributed \subseteq Turns
               /\ host[s] \in [live : BOOLEAN, open : {Idle} \cup Turns, last : {Idle} \cup Turns]
    <3>1. mem[s] \in Memory /\ host[s] \in Life
      BY DEF IInv, Inv, Types
    <3> QED BY <3>1, TurnMapsAre DEF Memory, Life
  <2>3. Len(dedupe) <= DedupeCapacity
    <3>1. Len(dedupe) = IF Len(queued) < DedupeCapacity THEN Len(queued) ELSE DedupeCapacity
      BY CacheIs DEF IInv, Queueing
    <3>2. Len(queued) \in Nat
      BY LenProperties DEF IInv, Queueing
    <3> QED BY <3>1, <3>2, HandlersAssumption
  <2> QED BY <2>1, <2>2, <2>3 DEF TypeOK
<1> QED BY <1>1, InductiveInvariant, PTL

\* The mail of a turn has the turn's own status and last visible text, whatever turns,
\* redelivered events and sessions came before it (accumulate, createCandidate).
THEOREM TellsTheTruth == Spec => []TurnsAreToldTruly
<1>1. IInv => TurnsAreToldTruly
  BY LoggingSays DEF IInv
<1> QED BY <1>1, InductiveInvariant, PTL

\* The prompt in a turn's mail was typed for that turn, or typed before and seen again
\* while the turn was open or awaited; it is the newest as long as nothing was seen
\* again, and the mail of a turn whose end alone is seen again shows none
\* (offerUserText, seedUserText, release).
THEOREM ShowsOwnPrompt == Spec => []PromptIsTheTurns
<1>1. IInv => PromptIsTheTurns
  BY LoggingSays DEF IInv
<1> QED BY <1>1, InductiveInvariant, PTL

\* A notification is withheld only for a reason that is true of the turn or the ask
\* (settleTurn, decideAttentionNotification and the cache they consult).
THEOREM SuppressesJustly == Spec => []SuppressionIsJustified
<1>1. IInv => SuppressionIsJustified
  BY LoggingSays DEF IInv
<1> QED BY <1>1, InductiveInvariant, PTL

\* The cache is exactly the keys of the newest jobs the queue took (mark is called after
\* an accepted enqueue and at no other time).
THEOREM CacheHoldsNewest == Spec => []MarkedIsEnqueued
<1>1. IInv => MarkedIsEnqueued
  BY DEF IInv, Queueing
<1> QED BY <1>1, InductiveInvariant, PTL

\* A turn or an ask is announced twice only with more than maxDedupeEntries notifications
\* from the first to the second.
THEOREM AnnouncesOnce == Spec => []AnnouncedOnce
<1>1. IInv => AnnouncedOnce
  <2> SUFFICES ASSUME IInv, NEW i \in 1 .. Len(queued), NEW j \in 1 .. Len(queued),
                      i < j, queued[i].event = queued[j].event
               PROVE  j - i > DedupeCapacity
    BY DEF AnnouncedOnce
  <2>1. ASSUME NEW k \in 1 .. Len(queued)
        PROVE  queued[k].key = KeyOf(queued[k].event)
    <3>1. PICK l \in 1 .. Len(log) : log[l] = queued[k]
      BY DEF IInv, Queueing
    <3> QED BY <3>1 DEF IInv, Logging
  <2>2. queued[i].key = queued[j].key
    BY <2>1
  <2> QED BY <2>2 DEF IInv, Queueing
<1> QED BY <1>1, InductiveInvariant, PTL

\* No turn that has ended stays in memory but one per event of it that was seen again, and
\* a session that has left takes all of them along (the finally block, onSessionDisposed).
THEOREM LeavesNothing == Spec => []NothingLingers
<1>1. IInv => NothingLingers
  <2> SUFFICES ASSUME IInv, NEW s \in Sessions
               PROVE  /\ Cardinality(DOMAIN mem[s].turns \ {host[s].open}) <= redeliveries
                      /\ ~host[s].live => mem[s].turns = <<>> /\ mem[s].pending = NoPrompt
    BY DEF NothingLingers
  <2>1. Tidy(mem[s], host[s], redeliveries)
    BY DEF IInv, Inv, SessionsRemembered, Remembered
  <2> QED BY <2>1 DEF Tidy
<1> QED BY <1>1, InductiveInvariant, PTL
=============================================================================
