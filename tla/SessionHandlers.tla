-------------------------- MODULE SessionHandlers --------------------------
(***************************************************************************)
(* event-handler.ts with the TurnStateStore of turn-state.ts: what the     *)
(* plugin remembers of each session while DSH appends events to it, and    *)
(* what it decides when a turn ends or a human is asked something.  The    *)
(* listeners are synchronous, so an action is one delivered event, handled *)
(* to the end.                                                             *)
(*                                                                         *)
(* host, truth, log and queued are not the plugin's: the session's life at *)
(* DSH, the facts of its open turn as DSH knows them, and, in order, the   *)
(* decisions the plugin has taken and those whose job the queue accepted.  *)
(***************************************************************************)
EXTENDS NotifyPolicy, Dedupe, FiniteSets

CONSTANTS
  Sessions,
  Subagents,         \* sessions whose header names a subagent
  Configs,           \* the resolved configurations to consider
  Texts,             \* visible assistant texts
  Prompts,           \* texts a human types
  Asks,              \* questions and approval requests, each one of its own
  Anonymous,         \* asks whose event carries no call id or request id
  Steps,             \* step numbers
  Tools,             \* tools an approval can be asked for
  Kinds,             \* ways a turn can end
  Durations,         \* lengths of a turn, in ms
  DedupeCapacity,    \* maxDedupeEntries
  MaxTurns,          \* model bound: turns per session
  MaxToolErrors,     \* model bound: failed tool results per turn
  MaxDecisions,      \* model bound: decisions observed
  MaxRedeliveries    \* model bound: events of ended turns seen again

NoText == "no-text"      \* nothing visible: the empty string of the code
NoPrompt == "no-prompt"  \* no direct-human text
Idle == 0                \* no turn is open; turns count from one

ASSUME HandlersAssumption ==
  /\ Subagents \subseteq Sessions
  /\ Anonymous \subseteq Asks
  /\ Kinds \subseteq TurnEndKinds
  /\ NoPrompt \notin Prompts
  /\ DedupeCapacity \in Nat \ {0}
  /\ MaxTurns \in Nat \ {0} /\ MaxToolErrors \in Nat
  /\ MaxDecisions \in Nat /\ MaxRedeliveries \in Nat

VARIABLES
  config,        \* fixed for the life of a handler
  mem,           \* per session: what the plugin holds
  dedupe,        \* marked keys, oldest first
  host,          \* per session: [live, open, last]
  truth,         \* per session: facts of its open turn, and a prompt it awaits
  log,           \* decisions
  queued,        \* decisions whose job the queue took
  redeliveries

vars == <<config, mem, dedupe, host, truth, log, queued, redeliveries>>

Turns == 1 .. MaxTurns
MaybeText == Texts \cup {NoText}
MaybePrompt == Prompts \cup {NoPrompt}

-----------------------------------------------------------------------------
\* A session's memory: the live turn entries, the prompt held for the next turn
\* and whether it has outlived its 120 s, and the turns with an attribution.

FreshTurn == [sawTurnStart |-> FALSE, visible |-> NoText, toolErrors |-> 0, userText |-> NoPrompt]
TurnState == [sawTurnStart : BOOLEAN, visible : MaybeText, toolErrors : Nat, userText : MaybePrompt]

EmptyMemory == [turns |-> <<>>, pending |-> NoPrompt, stale |-> FALSE, attributed |-> {}]

\* stateOf: a turn never heard of has a fresh state, and fetching it registers it.
StateOf(m, n) == IF n \in DOMAIN m.turns THEN m.turns[n] ELSE FreshTurn
Register(m, n, state) ==
  [m EXCEPT !.turns = [k \in DOMAIN m.turns \cup {n} |-> IF k = n THEN state ELSE m.turns[k]]]

\* seedUserText: an expired prompt is forgotten, and a turn that has taken a
\* prompt keeps its own; the held text itself stays until the turn is released.
Seed(m, n) ==
  IF m.pending = NoPrompt THEN m
  ELSE IF m.stale THEN [m EXCEPT !.pending = NoPrompt, !.stale = FALSE]
  ELSE IF n \in m.attributed THEN m
  ELSE Register([m EXCEPT !.attributed = @ \cup {n}], n,
                [StateOf(m, n) EXCEPT !.userText = m.pending])

\* What every branch of accumulate begins with.
Touch(m, n) == Seed(Register(m, n, StateOf(m, n)), n)

\* currentTurn: the highest live turn number, or Idle.
CurrentTurn(m) ==
  IF DOMAIN m.turns = {} THEN Idle
  ELSE CHOOSE n \in DOMAIN m.turns : \A k \in DOMAIN m.turns : k <= n

\* offerUserText for a direct-human prompt that is not blank.
OfferUserText(m, n, text) ==
  IF n = Idle
  THEN [m EXCEPT !.pending = text, !.stale = FALSE]
  ELSE Register([m EXCEPT !.attributed = @ \cup {n}], n,
                [StateOf(m, n) EXCEPT !.userText = text])

\* Seeded defect: the held prompt outlives the turn that took it.
ReleaseKeepsPrompt(m, n) ==
  [m EXCEPT !.turns = [k \in DOMAIN m.turns \ {n} |-> m.turns[k]],
            !.attributed = @ \ {n}]

\* The finally block of a settlement: the entry, its attribution, and whatever
\* prompt was being held for the session.
Release(m, n) ==
  [m EXCEPT !.turns = [k \in DOMAIN m.turns \ {n} |-> m.turns[k]],
            !.attributed = @ \ {n},
            !.pending = NoPrompt, !.stale = FALSE]

\* Seeded defect: the turn entries of a session that leaves stay.
ReleaseSessionPromptOnly(m) == [m EXCEPT !.pending = NoPrompt, !.stale = FALSE]

\* onSessionDisposed: the turn entries and the held prompt.
ReleaseSession(m) == [m EXCEPT !.turns = <<>>, !.pending = NoPrompt, !.stale = FALSE]

-----------------------------------------------------------------------------
\* What DSH knows of the open turn (since the plugin attached, if that was
\* later): of prompts the newest, all, and those of earlier turns seen again; and
\* the same of the turn to come.
NoFacts == [started |-> FALSE, visible |-> NoText, toolErrors |-> 0,
            prompt |-> NoPrompt, prompts |-> {}, again |-> {},
            next |-> NoPrompt, nexts |-> {}, nextAgain |-> {}]

\* The plugin may be applied while a session is in the middle of a turn.
Init ==
  /\ config \in Configs
  /\ mem = [s \in Sessions |-> EmptyMemory]
  /\ dedupe = <<>>
  /\ host \in [Sessions -> {[live |-> TRUE, open |-> n, last |-> n] : n \in {Idle, 1}}]
  /\ truth = [s \in Sessions |-> NoFacts]
  /\ log = <<>> /\ queued = <<>>
  /\ redeliveries = 0

InTurn(s) == host[s].live /\ host[s].open # Idle

\* A subagent's events are dropped before any state exists.
Excluded(s) == s \in Subagents /\ ~config.includeSubagents

\* The plugin's memory of s becomes m, unless s is none of its business.
Remember(s, m) == mem' = IF Excluded(s) THEN mem ELSE [mem EXCEPT ![s] = m]

\* A decision is taken down; one that lets the notification through has the queue's
\* answer for its verdict.
Record(decision) == log' = Append(log, decision)
Enqueue(decision) ==
  LET taken == [decision EXCEPT !.verdict = "enqueued"]
  IN  Record(taken) /\ queued' = Append(queued, taken)
Refuse(decision) == Record([decision EXCEPT !.verdict = "rejected"]) /\ UNCHANGED queued

\* Seeded defect: the key is marked before the queue has taken the job.
DecideMarksFirst(decision) ==
  /\ Len(log) < MaxDecisions
  /\ IF decision.verdict # Notify
     THEN Record(decision) /\ UNCHANGED <<dedupe, queued>>
     ELSE /\ dedupe' = Mark(dedupe, decision.key, DedupeCapacity)
          /\ Enqueue(decision) \/ Refuse(decision)

\* The one path of the three notification families: a decision is logged, and its
\* key is marked only when the queue took the job.  The queue may be full.
Decide(decision) ==
  /\ Len(log) < MaxDecisions
  /\ IF decision.verdict # Notify
     THEN Record(decision) /\ UNCHANGED <<dedupe, queued>>
     ELSE \/ Enqueue(decision) /\ dedupe' = Mark(dedupe, decision.key, DedupeCapacity)
          \/ Refuse(decision) /\ UNCHANGED dedupe

Undecided == UNCHANGED <<dedupe, log, queued>>

-----------------------------------------------------------------------------
\* Events of the open turn.

TurnStart(s) ==
  LET n == host[s].last + 1
      m == Touch(mem[s], n)
  IN  /\ host[s].live /\ host[s].open = Idle /\ n \in Turns
      /\ host' = [host EXCEPT ![s].open = n, ![s].last = n]
      /\ truth' = [truth EXCEPT ![s] = [NoFacts EXCEPT !.started = TRUE, !.prompt = truth[s].next,
                                                          !.prompts = truth[s].nexts,
                                                          !.again = truth[s].nextAgain]]
      /\ Remember(s, Register(m, n, [m.turns[n] EXCEPT !.sawTurnStart = TRUE]))
      /\ Undecided /\ UNCHANGED <<config, redeliveries>>

\* step/start, assistant/attempt, llm/retry, a call of an ordinary tool, a tool
\* result without an explicit error: the entry is fetched and seeded.  Their
\* counters are not part of this model.
Activity(s) ==
  /\ InTurn(s)
  /\ Remember(s, Touch(mem[s], host[s].open))
  /\ Undecided /\ UNCHANGED <<config, host, truth, redeliveries>>

\* Seeded defect: a reasoning-only message erases the visible text.
AssistantMessageErases(s, text) ==
  LET n == host[s].open
      m == Touch(mem[s], n)
  IN  /\ InTurn(s)
      /\ Remember(s, Register(m, n, [m.turns[n] EXCEPT !.visible = text]))
      /\ truth' = [truth EXCEPT ![s].visible = IF text = NoText THEN @ ELSE text]
      /\ Undecided /\ UNCHANGED <<config, host, redeliveries>>

\* A message without visible text, reasoning only, leaves the last text alone.
AssistantMessage(s, text) ==
  LET n == host[s].open
      m == Touch(mem[s], n)
  IN  /\ InTurn(s)
      /\ Remember(s, Register(m, n, [m.turns[n] EXCEPT !.visible = IF text = NoText THEN @ ELSE text]))
      /\ truth' = [truth EXCEPT ![s].visible = IF text = NoText THEN @ ELSE text]
      /\ Undecided /\ UNCHANGED <<config, host, redeliveries>>

ToolError(s) ==
  LET n == host[s].open
      m == Touch(mem[s], n)
  IN  /\ InTurn(s)
      /\ truth[s].toolErrors < MaxToolErrors
      /\ Remember(s, Register(m, n, [m.turns[n] EXCEPT !.toolErrors = @ + 1]))
      /\ truth' = [truth EXCEPT ![s].toolErrors = @ + 1]
      /\ Undecided /\ UNCHANGED <<config, host, redeliveries>>

\* A user-role message, with or without a turn number.  Injected context and
\* blank text are refused whatever the state; a human's words belong to the turn
\* that is open, or else to the next one.
UserMessage(s, direct, text, numbered) ==
  LET taken == direct /\ text # NoPrompt
      n == IF numbered THEN host[s].open ELSE CurrentTurn(mem[s])
  IN  /\ host[s].live
      /\ numbered => InTurn(s)
      /\ Remember(s, IF taken THEN OfferUserText(mem[s], n, text) ELSE mem[s])
      /\ truth' = IF ~taken THEN truth
                  ELSE IF InTurn(s) THEN [truth EXCEPT ![s].prompt = text, ![s].prompts = @ \cup {text}]
                  ELSE [truth EXCEPT ![s].next = text, ![s].nexts = @ \cup {text}]
      /\ Undecided /\ UNCHANGED <<config, host, redeliveries>>

\* 120 s pass since the held prompt was typed.
PendingExpires(s) ==
  /\ mem[s].pending # NoPrompt /\ ~mem[s].stale
  /\ mem' = [mem EXCEPT ![s].stale = TRUE]
  /\ truth' = [truth EXCEPT ![s].next = NoPrompt]
  /\ Undecided /\ UNCHANGED <<config, host, redeliveries>>

-----------------------------------------------------------------------------
\* Asks.  Told and real are facts of turns and mean nothing for an ask.

NothingTold == [status |-> "unknown", visible |-> NoText, userText |-> NoPrompt]

AskDecision(key, event, switch) ==
  [key |-> key, event |-> event, genuine |-> TRUE,
   verdict |-> DecideAttention(event[2], NoCwd, switch, config, Marked(dedupe, key)),
   told |-> NothingTold, kind |-> "unknown", real |-> NoFacts]

\* Seeded defect: questions are told apart by their step only.
QuestionKeyByStep(s, a, n, step) == <<"question-step", s, n, step>>

QuestionKey(s, a, n, step) ==
  IF a \in Anonymous THEN <<"question-step", s, n, step>> ELSE <<"question-call", s, a>>
ApprovalKey(s, a, tool) ==
  IF a \in Anonymous THEN <<"approval-tool", s, tool>> ELSE <<"approval-id", s, a>>

\* A question or request seen a second time is the same one: same session, turn,
\* step and tool.
SameAsBefore(event) ==
  \A i \in 1 .. Len(log) :
    log[i].event[1] = event[1] /\ log[i].event[3] = event[3] => log[i].event = event

\* ask_user_question in turn n is accumulated like any tool call and then decided
\* on at once, if its arguments hold a question.
AskInTurn(s, n, a, step, parsable) ==
  LET event == <<"question", s, a, n, step>>
  IN  /\ SameAsBefore(event)
      /\ Remember(s, Touch(mem[s], n))
      /\ IF parsable /\ ~Excluded(s)
         THEN Decide(AskDecision(QuestionKey(s, a, n, step), event, config.notifyQuestions))
         ELSE Undecided

Question(s, a, step, parsable) ==
  /\ InTurn(s)
  /\ AskInTurn(s, host[s].open, a, step, parsable)
  /\ UNCHANGED <<config, host, truth, redeliveries>>

\* approval/asked has no turn and touches no memory.
ApprovalAsked(s, a, tool) ==
  /\ host[s].live /\ SameAsBefore(<<"approval", s, a, tool>>)
  /\ ~Excluded(s)
  /\ Decide(AskDecision(ApprovalKey(s, a, tool), <<"approval", s, a, tool>>,
                        config.notifyApprovals))
  /\ UNCHANGED <<config, mem, host, truth, redeliveries>>

-----------------------------------------------------------------------------
\* Settlement.

\* createCandidate, as far as a reader of the mail can tell, and settleTurn's
\* decision on it.
TurnDecision(s, n, kind, duration, genuine, real) ==
  LET state == StateOf(mem[s], n)
      key == <<"turn", s, n>>
      status == ClassifyCompletion(kind, state.toolErrors)
      candidate == [sessionId |-> s, cwd |-> NoCwd, status |-> status,
                    visible |-> state.visible # NoText,
                    durationMs |-> IF state.sawTurnStart THEN duration ELSE UnknownDuration]
  IN  [key |-> key, event |-> <<"turn", s, n>>, genuine |-> genuine,
       verdict |-> DecideNotification(candidate, config, Marked(dedupe, key)),
       told |-> [status |-> status, visible |-> state.visible,
                 userText |-> IF config.includeUserPrompt THEN state.userText ELSE NoPrompt],
       kind |-> kind, real |-> real]

\* turn/end as the plugin handles it: decide, and release whatever was decided.
Settle(s, n, kind, duration, genuine, real) ==
  /\ Remember(s, Release(mem[s], n))
  /\ IF Excluded(s) THEN Undecided
     ELSE Decide(TurnDecision(s, n, kind, duration, genuine, real))

TurnEnd(s, kind, duration) ==
  /\ InTurn(s)
  /\ Settle(s, host[s].open, kind, duration, TRUE, truth[s])
  /\ host' = [host EXCEPT ![s].open = Idle]
  /\ truth' = [truth EXCEPT ![s] = NoFacts]
  /\ UNCHANGED <<config, redeliveries>>

-----------------------------------------------------------------------------
\* The session leaves DSH's store, in a turn or not, and may be opened again.
SessionDisposed(s) ==
  /\ host[s].live
  /\ host' = [host EXCEPT ![s].live = FALSE, ![s].open = Idle]
  /\ truth' = [truth EXCEPT ![s] = NoFacts]
  /\ mem' = [mem EXCEPT ![s] = ReleaseSession(@)]
  /\ Undecided /\ UNCHANGED <<config, redeliveries>>

Reopen(s) ==
  /\ ~host[s].live
  /\ host' = [host EXCEPT ![s].live = TRUE]
  /\ Undecided /\ UNCHANGED <<config, mem, truth, redeliveries>>

\* An event of a turn that has ended is seen again, or for the first time when
\* the turn was over before the plugin attached.
Redelivered(s, n) ==
  /\ redeliveries < MaxRedeliveries
  /\ host[s].live /\ n \in 1 .. host[s].last /\ n # host[s].open
  /\ redeliveries' = redeliveries + 1
  /\ UNCHANGED <<config, host>>

\* Any event that is accumulated: the turn's entry is back, it may take the prompt
\* that is held, and then holds what the event says.
ActivityRedelivered(s, n) ==
  LET m == Touch(mem[s], n)
      says(state) == {state, [state EXCEPT !.sawTurnStart = TRUE], [state EXCEPT !.toolErrors = @ + 1]}
                       \cup {[state EXCEPT !.visible = text] : text \in Texts}
  IN  /\ Redelivered(s, n)
      /\ \E state \in says(m.turns[n]) : Remember(s, Register(m, n, state))
      /\ Undecided /\ UNCHANGED truth

QuestionRedelivered(s, n, a, step, parsable) ==
  /\ Redelivered(s, n)
  /\ AskInTurn(s, n, a, step, parsable)
  /\ UNCHANGED truth

\* A human's words of turn n.  With its number they go to n, and without one,
\* which is how DSH writes them, wherever new words would go: to the highest turn
\* known or else to the next one, whose words they are not.
UserMessageRedelivered(s, n, text, numbered) ==
  /\ Redelivered(s, n)
  /\ Remember(s, OfferUserText(mem[s], IF numbered THEN n ELSE CurrentTurn(mem[s]), text))
  /\ truth' = IF numbered THEN truth
              ELSE IF InTurn(s) THEN [truth EXCEPT ![s].again = @ \cup {text}]
              ELSE [truth EXCEPT ![s].nextAgain = @ \cup {text}]
  /\ Undecided

TurnEndRedelivered(s, n, kind, duration) ==
  /\ Redelivered(s, n)
  /\ Settle(s, n, kind, duration, FALSE, NoFacts)
  /\ UNCHANGED truth

Next ==
  \E s \in Sessions :
    \/ TurnStart(s)
    \/ Activity(s)
    \/ \E text \in MaybeText : AssistantMessage(s, text)
    \/ ToolError(s)
    \/ \E direct, numbered \in BOOLEAN, text \in MaybePrompt : UserMessage(s, direct, text, numbered)
    \/ PendingExpires(s)
    \/ \E a \in Asks, step \in Steps, parsable \in BOOLEAN : Question(s, a, step, parsable)
    \/ \E a \in Asks, tool \in Tools : ApprovalAsked(s, a, tool)
    \/ \E kind \in Kinds, duration \in Durations : TurnEnd(s, kind, duration)
    \/ SessionDisposed(s)
    \/ Reopen(s)
    \/ \E n \in Turns :
         \/ ActivityRedelivered(s, n)
         \/ \E a \in Asks, step \in Steps, parsable \in BOOLEAN :
              QuestionRedelivered(s, n, a, step, parsable)
         \/ \E text \in Prompts, numbered \in BOOLEAN :
              UserMessageRedelivered(s, n, text, numbered)
         \/ \E kind \in Kinds, duration \in Durations : TurnEndRedelivered(s, n, kind, duration)

Spec == Init /\ [][Next]_vars

-----------------------------------------------------------------------------
\* Invariants.

TypeOK ==
  /\ config \in Configs
  /\ \A s \in Sessions :
       /\ DOMAIN mem[s].turns \subseteq Turns
       /\ \A n \in DOMAIN mem[s].turns : mem[s].turns[n] \in TurnState
       /\ mem[s].pending \in MaybePrompt /\ mem[s].stale \in BOOLEAN
       /\ mem[s].attributed \subseteq Turns
       /\ host[s] \in [live : BOOLEAN, open : {Idle} \cup Turns, last : {Idle} \cup Turns]
  /\ Len(dedupe) <= DedupeCapacity
  /\ redeliveries \in 0 .. MaxRedeliveries

TurnsDecided == {d \in {log[i] : i \in 1 .. Len(log)} : d.event[1] = "turn"}
SettledTurns == {d \in TurnsDecided : d.genuine}
ResettledTurns == TurnsDecided \ SettledTurns

\* A turn's mail says what happened in the turn: its status, down to whether a
\* tool failed, and its last visible text, however the turn began, however many
\* reasoning-only messages followed, and whatever turns came before it.
TurnsAreToldTruly ==
  \A d \in SettledTurns :
    /\ d.told.status = ClassifyCompletion(d.kind, d.real.toolErrors)
    /\ d.told.visible = d.real.visible

\* The prompt in a turn's mail is no injected text, and of a human's words only what
\* was typed for that very turn, or what was typed for an earlier one and was seen
\* again, without a number, while this one was open or awaited: nothing comes from
\* further back, and a turn end seen again passes nothing on.  When nothing was seen
\* again it is the newest, and a turn seen from its start shows it unless it waited too
\* long (seedUserText, offerUserText).  A second mail of a turn, after its end alone was
\* seen again, holds nothing of any turn (Release).
PromptIsTheTurns ==
  /\ \A d \in SettledTurns :
       /\ d.told.userText \in {NoPrompt} \cup d.real.prompts \cup d.real.again
       /\ redeliveries = 0 =>
            /\ d.told.userText \in {NoPrompt, d.real.prompt}
            /\ config.includeUserPrompt /\ d.real.started => d.told.userText = d.real.prompt
  /\ \A d \in ResettledTurns :
       redeliveries <= 1 => d.told.userText = NoPrompt /\ d.told.visible = NoText

\* A turn or an ask stays unannounced only for a true reason: "duplicate" means
\* that the same turn, or the same ask where asks have identities, was enqueued
\* before, and the other reasons are facts of the turn, not of what is left of
\* the plugin's memory of it.
SuppressionIsJustified ==
  \A i \in 1 .. Len(log) :
    LET d == log[i]
    IN  /\ d.verdict = "duplicate" =>
             \E j \in 1 .. i - 1 :
               /\ log[j].verdict = "enqueued" /\ log[j].key = d.key
               /\ d.event[3] \notin Anonymous => log[j].event = d.event
        /\ d.verdict = "no-visible-text" /\ d.genuine => d.real.visible = NoText
        /\ d.verdict = "below-min-duration" /\ d.genuine => d.real.started

\* The dedupe cache is the keys of the newest enqueued notifications: a refused
\* job leaves no mark, so that it stays eligible, and an accepted one always does.
MarkedIsEnqueued ==
  LET n == Len(queued)
      size == IF n < DedupeCapacity THEN n ELSE DedupeCapacity
  IN  dedupe = [i \in 1 .. size |-> queued[n - size + i].key]

\* No turn and no ask is announced twice unless as many notifications as the cache
\* holds lie between, however often its event is seen.
AnnouncedOnce ==
  \A i, j \in 1 .. Len(queued) :
    i < j /\ queued[i].event = queued[j].event => j - i > DedupeCapacity

\* Between turns nothing of a session is resident but a prompt that waits, and in
\* a turn only that turn, but for at most one turn that has ended for each event of
\* such a turn that is seen again; and a session that has left holds nothing of them,
\* whatever was seen (the finally block of onSessionEvent, onSessionDisposed).
NothingLingers ==
  \A s \in Sessions :
    /\ Cardinality(DOMAIN mem[s].turns \ {host[s].open}) <= redeliveries
    /\ ~host[s].live => mem[s].turns = <<>> /\ mem[s].pending = NoPrompt

-----------------------------------------------------------------------------
\* A statement of the comments.

\* event-handler.ts:208-209, of the attribution record: "dropped when the turn is
\* released, so it cannot grow with a session's lifetime".
AttributionTracksTurns ==
  \A s \in Sessions : mem[s].attributed \subseteq DOMAIN mem[s].turns
=============================================================================
