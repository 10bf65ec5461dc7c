# Verification of dsh-mail-notify

dsh-mail-notify is a plugin of DSH, an agent host. It watches the events that DSH appends to a
session, decides at the end of a turn, at a question and at an approval request whether a human
should be told by mail, and sends that mail through SMTP with retries. A settings card in the web
client edits its configuration and its SMTP password.

The modules here model the decisions, the memory and the concurrency of `src/src/`. Everything runs
on one JavaScript event loop, so an action is what the code does between two awaits; interleavings
come from the awaits (sends, backoffs, teardown, calls to the host), from the order in which DSH
appends events, and from the other surfaces that write the configuration.

## 1. Inventory

| Component (src/src) | State | Operations | Talks to |
|---|---|---|---|
| Mail queue (`queue.ts`) | pending, inFlight, disposed, counters, drain waiters | enqueue, worker loop, settle, dispose | called by the handlers; calls the delivery of one mail |
| Retry policy (`retry.ts`) | none | classifyError, decideRetry, backoffSequence | used by queue and delivery |
| Delivery (`mailer.ts`, `credentials.ts`, `transport.ts`, `test-email.ts`) | none | one attempt; the delivery test | credential service, rendering, Nodemailer |
| Notification policy (`completion.ts`, `notification-scope.ts`, `notifier.ts`) | dedupe cache | classifyCompletion, decideNotification, mark | used by the handlers |
| Human attention (`human-attention.ts`) | none | parse a question call, decide on questions and approvals | used by the handlers |
| Session handlers (`event-handler.ts`, `turn-state.ts`) | turn entries, held prompts, attribution records | one branch per event kind, settlement, session disposal | DSH's events; queue; dedupe cache |
| Turn telemetry (`telemetry.ts`) | the ledger of a turn | note step, add settlement, note retry, snapshot | fed by the handlers |
| Plugin lifecycle (`index.ts`, `settings.ts`) | effective configuration, mounted runtime | sync on every committed edit, mount, release, unload | Loader; owns a queue and handlers |
| Configuration rules (`config.ts`, `config-check.ts`) | none | resolveConfig, the Host's validator, product rules | the Host and the lifecycle |
| Settings card (`client/controller.ts`, `client/wire.ts`) | drafts, secret draft, saving and testing flags, shown facts | edit, save, clear, reset, delivery test, refresh | shared form, credential RPC, the two endpoints |
| Card view (`client/Card.tsx`, `client/fields.ts`) | expanded | parse and format controls, offer buttons, poll every 5 s | reads the card's projection |
| Runtime adapter (`runtime-adapter.ts`, readers of `content.ts`, `completion.ts`) | none | shape checks of DSH payloads | feeds the handlers |
| Rendering (`subject.ts`, `content.ts`, `normalize.ts`) | none | subject, sections and lines of a mail | used by delivery |
| Web endpoints (`web-rpc.ts`, `protocol.ts`, dispatch of `index.ts`) | none | decode, dispatch, encode | client and lifecycle |
| Logging (`logger.ts`, `debug-sink.ts`) | a bounded buffer of records | keep, clear, normalise, summarise | everything |
| Texts, contracts, types (`client/locale.ts`, `client/contracts.ts`, `client/index.tsx`, `types.ts`) | none that decides | - | - |
| Probes and release scripts (`scripts/`) | none of the plugin's | run by hand against an installed DSH | - |

What is hard, and what makes each component correct:

* **Mail queue.** One worker is started by `enqueue` and ends on an empty queue, while `dispose` and
  `settle` arrive at any await. Correct: jobs end once, in order, with an exact retry budget; counters
  add up; work never waits without a worker; nothing is sent for a disposed queue; both promises
  resolve, and never early.
* **Retry and delivery.** An error carries a symbolic code and a reply code which may disagree, and a
  missing credential is a failure of its own. Correct: a mail goes again exactly when that can help
  and the budget allows it.
* **Policy and dedupe.** Reasons for silence overlap, the cache evicts, the queue may refuse. Correct:
  nothing is announced twice or silenced without a true reason, and a refused job stays eligible.
* **Session handlers.** The plugin attaches in the middle of a turn, a prompt arrives before the turn
  it belongs to, sessions leave inside turns, events come again, prompts included. Correct: a mail tells
  the truth about its own turn, and nothing of a turn stays.
* **Telemetry.** Replays, retries, several settlements of one step, caps and a safe-integer range. Correct:
  figures never exceed the truth and are called complete only when they are.
* **Lifecycle.** Releases overlap with new mounts, edits may be refused. Correct: the last usable
  configuration runs, one runtime listens, a released one is inert, unloading finishes.
* **Configuration.** Two boundaries judge one document in two shapes. Correct: they agree, and no
  mail reaches anybody the document does not name.
* **Card.** A save is a fenced mutation followed by a credential write, against a host that other
  surfaces write; refreshes overlap and answer in any order. Correct: nothing typed is lost or lands
  elsewhere, "Saved" is true, the flags that lock the card are cleared and the view is told, what it shows
  catches up, and
  a badge previews what a save will really do.
* **Rendering.** One cap applies to what is rendered, counted and marked as cut; a subject has one
  length for the status and for words of others. Correct: a mail says what it holds and admits what it
  does not.
* **Adapter.** Payloads come in any shape, and words may look like codes. Correct: only the shape
  that was documented is believed, and only a code decides.
* **Endpoints.** Both sides read the other's answer structurally. Correct: an answer of the Host is
  shown as it is, and nothing else is shown as one.
* **Logging.** The records and the list of losses are capped while their counts go on. Correct: what
  was left out is admitted, and nothing a reader sees is made up.

## 2. Modules

| Module | Models | How |
|---|---|---|
| `Retry` | `retry.ts` | Operators on codes, replies, categories and budgets. |
| `Delivery` | `mailer.ts`, `credentials.ts`, `test-email.ts` | One attempt as a function of what the credential service and the server answer. EXTENDS `Retry`. |
| `MailQueue` | `queue.ts` | State machine; EXTENDS `Retry`. Also the inductive strengthening `Shape`. |
| `Outbox` | what the queue promises | Abstract bounded line; `MailQueue` implements it (`ImplementsOutbox`). |
| `NotifyPolicy`, `Dedupe` | `completion.ts`, `notification-scope.ts`, `notifier.ts`, decisions of `human-attention.ts` | Operators. |
| `SessionHandlers` | `event-handler.ts`, `turn-state.ts` | One action per event branch; EXTENDS `NotifyPolicy` and `Dedupe`. |
| `TurnUsage` | `telemetry.ts` and the branches that feed it | State machine over one turn's calls. |
| `PluginRuntime` | `index.ts`, `settings.ts` | State machine; each queue appears as the line of `Outbox`. |
| `QuestionParser` | parser of `human-attention.ts` | A loop over the questions of a call, with the fields and options of each, and the fields of an approval. A text is its length. |
| `ConfigCheck` | `config.ts`, `config-check.ts` | Operators at both boundaries, and the warning that no mail can ever be sent. |
| `Adapter` | `runtime-adapter.ts`, the readers of `content.ts`, `telemetry.ts` and `completion.ts` | Operators on payloads whose fields are tagged values, missing or unusable ones included: messages, usage, tool results, ends of a turn with their failure facts. |
| `Mail` | `subject.ts`, `content.ts`, the cap of `mailer.ts` | Operators: subjects, sections, the text of a turn's mail with the collapse of its line breaks, lines of a question. A text is a sequence of characters; wording is left out. |
| `Endpoints` | `web-rpc.ts`, `protocol.ts`, dispatch of `index.ts`, readers of `client/wire.ts` | Operators from the card's call to its outcome. |
| `Records` | `normalize.ts`, `identify` of `index.ts`, `logFieldsFor` of `mailer.ts`, the summary of `debug-sink.ts` | Operators on values, and the fields of a log line. A key is a sequence of characters, so that a dot in a key and the dot of a path are the same. |
| `Buffers` | the buffers of `logger.ts` and `debug-sink.ts` | Operators on a bounded buffer of records. |
| `Fields` | `client/fields.ts`, next to the schema of `config.ts` | The control table, its bounds, parse and format; what the schema takes. |
| `CardView` | projection of `client/controller.ts`, `client/Card.tsx` | Operators from the card's state to what is shown and offered. EXTENDS `Fields`. |
| `Selection` | the filter of an array | Written as a recursive function, which the provers can expand; used by `QuestionParser`, `ConfigCheck`, `Adapter`, `Fields` and `Mail`. |
| `Decisions` | composes the pure modules | Draws one input of one kind and states each reference definition; its assumptions say of each kind what inputs are. |
| `LogDecisions` | the same for what the log writes | EXTENDS `Decisions`. A value of the log is a tree and its operators are recursive, so they are apart from what is proved. |
| `CardController` | `client/controller.ts`, `client/wire.ts`, the poll of `client/Card.tsx` | State machine, host included as external actions. |
| `MailQueue_proofs`, `SessionHandlers_proofs`, `TurnUsage_proofs`, `PluginRuntime_proofs`, `CardController_proofs` | - | Theorems about the five state machines. |
| `Decisions_proofs`, `ListDecisions_proofs` | - | Theorems about the decisions; those that walk through a list (recipients, controls, questions, the text of a mail, a buffer) are in the second, which EXTENDS the first. |
| `Ordinals` | - | Lemmas on sets of natural numbers: a least element, a greatest one, induction. |
| `MC*` | - | Instances for TLC. |

Correspondence of state:

* `MailQueue`: `pending`, `disposed` and the counters are the code's variables. `phase` is what
  `inFlight` is awaiting, with `"idle"` for `inFlight === undefined`; `held` and `attempts` are the
  locals of `runJob`; `settler` and `disposal` are the promises handed out. `accepted`, `refused` and
  `ended` are history that no guard reads, except that a job is offered once.
* `SessionHandlers`: `mem[s].turns` is TurnStateStore's map for one session, `pending` and `stale` the entry
  of `pendingUserText` and whether its 120 s are over, `attributed` the turns in `promptAttribution`.
  `dedupe` is the cache in insertion order. `host` and `truth` are the world's: which turn is open, what
  happened in it, which prompts were typed for it, and which prompts of earlier turns were seen again while
  it was open (`again`) or awaited (`nextAgain`). `log`, the decisions, and `queued`, those whose job the
  queue took, are history.
* `TurnUsage`: `ledger` is the TurnUsageAccounting and `steps` the turn's set of `stepsSeen`. `calls` is
  the world's: a step has one call more for each retry and for each further settlement. So is `again`,
  the reports of attempts that were seen again under a fresh number.
* `PluginRuntime`: `effective` stands for the effective configuration and its fingerprint; a runtime
  is a record of the closure `startRuntime` builds.
* `CardController`: `staged`, `secretDraft`, `failed`, `notice` are the card's fields; `phase` is the
  await a save or removal has reached, idle when `saving` is false; `refreshes` are the calls to
  `refresh` between their await and their second half, `credential` what the last one applied,
  `testing` and `testEmail` the delivery test's flag and outcome, `snapshot` the two flags as the view
  last got them from `publish`, which is what disables its controls.
* `Decisions`: `kind` and `input` are the drawn input; the modules it composes have no state.

Definitions commented as a seeded defect are variants of a definition with a plausible mistake. No
action uses them: with one of them in place of the definition it varies, the property it is paired
with fails, which shows that the property speaks about the code.

## 3. Runs

| Run | Shows | Bounds, and why they are enough |
|---|---|---|
| `queue_safety` | FIFO and exactly-once, budget, counters, no stranded work, disposal, settle, refinement of `Outbox`. | 4 jobs over a queue of 2: the worker holds one, two wait and one is refused. 2 retries give a first, a middle and a last attempt. 2 callers of `settle`. The wait may reject. Jobs are interchangeable (symmetry). |
| `queue_live` | Every accepted job ends or is dropped by `dispose` and both promises resolve (`PromisesAreKept`); `Outbox` moves (`ImplementsFairOutbox`). | 3 jobs over a queue of 1, 1 retry, no symmetry. |
| `queue_backoff_after_dispose` | Finding 1. | as above |
| `sessions_turns` | Status, text and prompt in a mail are those of its turn; nothing lingers. | One session, whose turns never overlap at DSH, of 2 turns, possibly joined in the middle of the first, with one event of an ended turn seen again, a prompt with or without a number among them: a stray entry, and the prompt it attracts. 2 texts, 2 prompts, 1 tool error, subagent in or excluded, clean ends, after a tool error or not. 2 of each is what tells "the last" or "another turn's" from "the first". Failed ends are in `sessions_asks` and in the proofs. |
| `sessions_asks` | Each silence justified, cache equal to what was enqueued, nothing announced twice. | Cache of 2 with 4 decisions, so that a key is evicted and comes again; one ask with an identity and one without; clean and failed ends, on both sides of the least duration; one event seen again. |
| `sessions_attribution` | Finding 2. | as `sessions_turns`, all end kinds |
| `usage` | Token and step figures honest. | 4 calls of messages and attempts, with and without usage, also several in a step, 2 replays, a cap of 2 steps and 3 settlements, sums up to 3: a turn below, at and above each limit. |
| `usage_replayed` | Finding 4. | as `usage` |
| `runtime` | Last usable configuration runs, one listener, released runtimes inert, unload resolves. | 3 mounts (two overlapping releases behind a running one), 3 observations of 3 events over lines of 2. Documents: two usable, one breaking product rules, one breaking the schema, one off. |
| `runtime_test_email` | Finding 3. | 2 mounts |
| `decisions` | Attempts, verdicts, parsing and the two configuration boundaries equal reference definitions; no payload passes for what it is not, and an end is read by its code; a mail, an answer and a log say what they hold and admit what they do not; the card's controls and badges say what the Host would say and a save would do. | Every error code with replies on both sides of each range; each switch; calls of up to 4 questions under a limit of 3 and a budget that two dear questions exhaust, each field present, blank, too long and of another type; documents with each field right and wrong; payloads with each field missing, unusable and usable, nested and direct; subjects and bodies on both sides of their length; answers with each field right, missing and wrong, and each transport failure; texts with runs of line breaks that the collapse shortens; values nested with losses on both sides of the cap, with dots in keys; for every control the numbers at and beside every bound, names, other text, and lists of up to 2 entries; cards with each control staged, reset and refused, in each state of the flags. |
| `card` | Drafts, passwords and notices under races; the controls are published unlocked again; the card shows what the Host holds again and again (`CardCatchesUp`). | 2 references and 2 values of the other field, 1 password, a budget of 2 for saves, removals, tests and foreign writes together: every pair races. The draft typed is another reference, and clears come from Reset all; text that is refused is in `decisions` and the proofs. The poll reads when no read is under way; the reads of the form's moves, of saves and of the password overlap with it and overtake each other. |

Deadlock is not checked: a queue that was disposed, a plugin that was unloaded and a turn whose
bound is reached really stop. Bounds that are not the code's are named "model bound" in the modules;
`QueueSize`, `DedupeCapacity`, `MaxAccountedSteps` and the like are the code's own limits, made small.

### Findings

1. `queue.ts:198` says that the retry loop checks `disposed` before sleeping again; it checks after
   the sleep, so `dispose()` waits for one more backoff (`NoBackoffAfterDispose`).
2. `event-handler.ts:208` says that attribution records are dropped when the turn is released; a
   session disposed inside a turn keeps its record (`AttributionTracksTurns`).
3. `index.ts:285` says that a delivery test cannot disagree with what a notification would do; after
   a refused edit it does (`TestAgreesWithNotifications`).
4. `telemetry.ts:191` says that a turn replayed under fresh sequence numbers cannot double count; the
   guard by step looks at messages only, and an attempt with usage is added again
   (`ReplayedTurnsCountOnce`).

Read in the code while modelling, and not the subject of a run:

* `turn-state.ts:62` says that the highest live turn is the open one; an event of a released turn that
  is seen again registers that turn anew, and between turns its entry attracts the prompt typed next.
* `subject.ts:337` says that the count is the exact number of visible characters that reached the body;
  the line breaks of the whole mail are collapsed after it was taken (`subject.ts:499`), and the blank
  text of a failed turn is counted although the mail says that there is none.
* `normalize.ts:52` says that undefined is omitted silently; its path is recorded and counted like any
  other loss (`normalize.ts:75-80`).
* `human-attention.ts:207-209` accepts a structured value of the arguments "as compatibility";
  `runtime-adapter.ts:394` only ever hands it a string.
* `human-attention.ts:57` bounds "every carried question field together"; what is charged is the id and
  the text of a question (`human-attention.ts:244`), not its header and options.
* `subject.ts:310` prints in the footer that the user prompt is never included, below the section of
  the prompt that `subject.ts:473` prints when it is switched on.
* `subject.ts:256` prints "not observed from its start" for every incomplete figure without a counted
  gap, a capped ledger included.
* `client/controller.ts:45` documents `overridden` as whether saving would leave an entry in the user's
  layer; a field whose text was emptied by hand shows as overridden although the save unsets it
  (`ThePreviewComesTrue` excepts that case).
* The card calls SMTP missing until the first status arrives; 119 600 ms are printed as 1 min 60 s;
  options of a question beyond the twentieth are dropped without a word; an object key that is empty
  shortens the path under which a loss is reported; `isLosslessJson` accepts an array with holes; the
  status reports the queue size of a refused configuration; a snapshot that breaks the schema stands
  the runtime down; an invalid edit that is reverted remounts what was running; the line
  `renderQuestionSection` has for unreadable arguments is never reached.

### Fairness

* Queue: the sink answers, a backoff ends, and `dispose` is continued once its worker ended. The
  waits are timers and the continuation is a promise reaction. That the sink answers is an assumption
  about the credential service and about Nodemailer's own timeouts, since the plugin sets none. It is
  weak fairness: while a send is under way an answer stays enabled. Nobody has to enqueue, settle or
  dispose.
* Runtime: the job in front of a line ends (which is what `queue_live` shows of a queue) and promises
  are continued. Nobody has to commit, append or unload.
* Card: calls and reads of the host are answered, if only by an error, and the card continues after
  them: weak fairness of each step that answers or continues (`ControlsComeBack`). The reads belong to it
  because a save, a removal and a test publish nothing at their end; the refresh they await
  does, or one of the poll. A read that is never answered leaves the controls locked, and the code has
  no timeout for it.
* Polling adds to it that the form is told of the document, that the timer of `Card.tsx:433`, which
  runs every 5 s while the card is mounted, fires, and that each single read returns: weak fairness. That a
  read which is tried again and again is answered with a success at some time is strong fairness; a
  host whose reads always fail can never be shown. Nobody has to type, save or move a reference.
* Sessions, usage and decisions have no liveness: nothing there must happen.

### Deliberate limits of what is stated

* `NothingLingers` admits one stray entry for each event of an ended turn that is seen again: such an
  event does create an entry that stays until the session leaves or that turn's end is seen again.
* `PromptIsTheTurns` admits one prompt of another turn: one that is seen again without a number, which
  is how DSH writes prompts, while the turn is open or awaited. The handler cannot tell it from new words
  (`event-handler.ts:568`), and nothing promises that it does. What a redelivered turn/end may cost is a
  held prompt, which is lost to its turn and never given to another; and a stray entry may swallow the
  prompt typed next (`turn-state.ts:62`, above).
* `SuppressionIsJustified` says of an ask without an id only that its key was enqueued before: two such
  asks of one step, or for one tool, are announced as one, which is what the fallback key means.
  `AnnouncedOnce` speaks of a repeated event, not of two that differ.
* `TheLogIsHonest` does not say that a line tells two notifications of one turn apart: questions of one
  step and approvals of one tool have equal lines. Nor does a path tell one way into a value: keys with
  dots may make one path of two.
* `ThePreviewComesTrue` excepts from "overridden" a text emptied by hand (see above).
* Each state module has a `TypeOK` that documents its state. No run checks it, since it is proved in each
  case, that of the runtime as `Typed`, a part of its invariant.
* `CompleteIsComplete` and `NeverOverstated` count an attempt's report once more for each time it is seen
  again under a fresh number: to the ledger that is one settlement more (finding 4). That at most one
  message of a step carries usage is the runtime's promise (`telemetry.ts:189`), and the model keeps it.
* `CardPreviewsTheHost` makes one exception to "shown and saved again is the same": a mute list whose
  only entry is the text `[]` is saved as the empty list, because `client/fields.ts` writes the empty
  list that way. It speaks of values a save may have left (`FieldsAssumption`): a document written by
  hand may hold a recipient that is no address, which the card refuses to save again. A draft is blank,
  digits, a name, other text or a list. One write is excepted from "the schema takes it": the pattern of
  a credential reference (`config.ts:113`) is not previewed, so that such a save comes back refused.
* `NoStrandedWork` admits the one case in which the code does leave work waiting: the injected wait
  rejected and took the worker down. The next job that is accepted starts another worker. A line that is
  full then accepts none, because `queue.ts:176` refuses before a worker would be started: its jobs wait
  until it is disposed of, and `PromisesAreKept` is checked with waits that do not reject.

## 4. Proofs

`MailQueue_proofs` proves, for any jobs, callers, capacity and retry budget that satisfy
`QueueAssumption` (a capacity of at least one, a natural budget; both enforced by the schema):

| Theorem | Property |
|---|---|
| `TypeCorrect` | `TypeOK` (no run checks it) |
| `Fifo` | `FifoExactlyOnce` |
| `RetryBudget` | `RetryBudgetExact` |
| `WorkIsNotStranded` | `NoStrandedWork` |
| `DisposeStopsSending` | `NoSendAfterDispose` |
| `DisposeQuiesces` | `DisposedIsQuiet` |
| `QueueImplementsOutbox` | `ImplementsOutbox` |
| `StatsAddUp` | `StatsAccountForEveryOffer` |
| `SettleWaits` | `SettleMeansDrained` |

The base is `TypedShape == TypeOK /\ Shape`. `TypeOK` alone is inductive only together with `Shape`:
`Finish` takes the head of `held`, which is a job only because the worker holds exactly one job
whenever it is not idle. `Shape` also says that a disposed queue has nothing waiting, which is what
makes `Dispose` and every later step keep FIFO and quiet. On top of it come FIFO (each step appends
to `accepted`, moves a job along `EndedJobs \o held \o pending`, or cuts its tail off in `Dispose`),
the budget, the stranded case and the quiet of a disposed queue, each proved inductive relative to
`TypedShape`, action by action. The refinement maps the line to `held \o pending`: each action is
shown to be an action of `Outbox` or to leave the mapped state alone. Lemmas on sequences (head and
tail, regrouping, prefixes) are stated once. The counters need a finite world: `Counted` adds to the
property that only finitely many jobs were offered, and one lemma says what appending an ended job
adds to the number of jobs that ended in each way. `SettleWaits` is an action property and follows
from `TypedShape` step by step.

`SessionHandlers_proofs` proves, for any sessions, turns, texts, prompts, tools, configurations,
capacity and bounds that satisfy `HandlersAssumption`:

| Theorem | Property |
|---|---|
| `HandlersTypeCorrect` | `TypeOK` (no run checks it) |
| `TellsTheTruth` | `TurnsAreToldTruly` |
| `ShowsOwnPrompt` | `PromptIsTheTurns` |
| `SuppressesJustly` | `SuppressionIsJustified` |
| `CacheHoldsNewest` | `MarkedIsEnqueued` |
| `AnnouncesOnce` | `AnnouncedOnce` |
| `LeavesNothing` | `NothingLingers` |

`IInv == Inv /\ Logging /\ Queueing`. `Inv` says of each session that its memory is tidy (only begun turns
are resident, at most one ended turn per event seen again, none after the session left) and faithful (what
is resident of the open turn is what happened in it; its prompt and the held one are among those typed for
it or seen again for it, and its newest while nothing was seen again). It is proved for one session's
memory, life and facts, event branch by event branch, and carried over to all sessions by one lemma, because
no branch touches another session. `Queueing` is about the cache alone: it is the keys of the last
`DedupeCapacity` jobs the queue took. From that, and from a key being marked only when it is not in the
cache, two announcements of one key are more than `DedupeCapacity` apart, an index argument that nothing of
`Inv` enters. `Logging` keeps of every past decision that it was judged rightly when it was made; `Inv`
supplies what a turn's mail said, `Queueing` the earlier job behind a duplicate. The properties that range
over a whole history are thus induction over steps only. The history variable `queued` was added for this
proof, in place of the filter of `log` that the properties used: no guard reads it.

`TurnUsage_proofs` proves, for any limits and bounds that satisfy `UsageAssumption`:

| Theorem | Property |
|---|---|
| `UsageTypeCorrect` | `TypeOK` (no run checks it) |
| `NeverOverstates` | `NeverOverstated` |
| `CompletelyTold` | `CompleteIsComplete` |

`IInv == Types /\ Accounted /\ World /\ Kept`. `World` is about the calls alone: only the last is open,
a step calls again only after a retry or with a further message, and at most one of its messages carries
usage. `Kept` relates the ledger
to the world in four parts: whatever reported is not sampled again, since a message's step or an
attempt's number is known, or no sum counts any more, or nothing finds a place (`Sampled`); the sums are
at most the true ones and, unless a limit was passed, equal to them (`Summed`); a call without a report
is counted as a gap or as a retry (`Missed`); steps are the turn's (`Stepped`). `Sampled` is what makes a
message replayed under a new sequence number harmless, and it is what the two properties do not say. The
copies of attempts under fresh numbers are on both sides of `Summed`. The invariant was checked by TLC
on the configuration of `usage` before it was proved. Sums over the calls are a recursive function;
lemmas say what it becomes when a call is appended or settles.

`PluginRuntime_proofs` proves, for any documents, events, capacity and bounds that satisfy
`RuntimeAssumption` (the three switches of a document are Booleans, a line holds at least one job):

| Theorem | Property |
|---|---|
| `TheLastUsableRuns` | `RunsTheLastUsable` |
| `OneRuntimeListens` | `OneListener` |
| `WhatIsReleasedIsInert` | `ReleasedIsInert` |

None of the three is inductive, and they need each other. `RuntimeInv` joins the types with four
facts: the mounted runtime of a loaded plugin works and every other is inert (`OneWorks`); what is
mounted is the last usable configuration, and the one last seen is either that one or was refused
(`InForce`); unloading waits for what is mounted (`Teardown`); one observation made one mail
(`OneMail`). The second half of `InForce` is what carries an edit back to the configuration that is
running, or one refused edit after another: `sync` compares with the last configuration seen, not with
the one in force. `OneWorks` is what lets an observation reach one runtime only. What a release does
is a lemma of its own, used by commits and by the unload; the steps that change a single runtime share
`OneChanges`.

`CardController_proofs` proves, for any references, values, passwords and bounds that satisfy
`CardAssumption`:

| Theorem | Property |
|---|---|
| `CardTypeCorrect` | `TypeOK` (no run checks it) |
| `SecretFollowsReference` | `SecretUnderTheSavedReference` |
| `SavedIsTrue` | `SavedMeansLanded` |
| `NothingTypedIsLost` | `DraftsSurvive` |
| `SaveOnlyOverwritesTheSeen` | `SaveLandsOnWhatIsShown` |

`IInv == SaveInv /\ Locks`, with `SaveInv == Types /\ FormFollows /\ Mutating /\ Storing`. `Locks` says that
controls that look unlocked are: the view is told of a save before its first await, and only late of its
end, so a press never meets a save under way. `FormFollows` says that the form never shows a
document newer than the host's, and that one revision is one document: with it, a mutation the fence
lets through is one of the very document shown. `Mutating` and `Storing` follow a save through its two
calls: which drafts it carries, that an accepted answer means it landed, and which document of which
revision has the new reference. A lemma says what a mutation makes of a document, field by field. The
three action properties then hold of each action from `IInv`; `DraftsSurvive` names, for every action
that takes a draft, the user's own or the end of a save that landed. The reads of the reference matter to
the typing and to what is published only, and are proved beside it.

`Decisions_proofs` and `ListDecisions_proofs` prove, for any inputs of each kind that satisfy the
named assumptions of `Decisions` (numbers are natural, switches Boolean, records have their fields):

| Theorem | Property |
|---|---|
| `AttemptsAreWellJudged` | `AttemptsAreJudgedTruly` |
| `StrongestReasonIsGiven` | `SilenceHasTheStrongestReason` |
| `PayloadsAreStrictlyRead` | `PayloadsAreReadStrictly` |
| `EndsAreReadByCode` | `EndsAreReadByTheirCode` |
| `TheCardIsToldTheTruth` | `TheCardSaysWhatTheHostSaid` |
| `TheBoundariesAgree` | `BoundariesAgree` |
| `TheHostIsPreviewed` | `CardPreviewsTheHost` |
| `ThePreviewIsTrue` | `ThePreviewComesTrue` |
| `CallsAreCarriedByPosition` | `CarriedIsAffordablePrefix` |
| `MailsAreTrue` | `MailsSayWhatTheyHold` |
| `TheLatestAreKept` | `BuffersKeepTheLatest` |

TLC draws the inputs from small sets; here they are any. A behavior picks once, so the invariant is
only that what was picked is of its kind (`Drawn`), and all the work is in what the operators make of
one input:

* The waits between attempts are a recursive function: they triple from the base by induction, and a
  capped wait is followed by a capped one.
* Each reason for silence is compared, rank by rank, with the condition that stands for it.
* The facts of a failure are shown not to depend on the words of its message, field by field.
* The endpoints are followed from the card's request through the decoding, the dispatch and the
  encoding to the reader in the card. One lemma says what is heard of any response, another that what
  was heard was asked; nothing else makes a success.
* Filters and the dedupe of recipients are loops over a list. `LoopExists` says that such a recursive
  function exists for a list of any length; `AmongIs`, `WithoutIs` and `DedupeIs` say by induction what
  it leaves: the chosen elements in the list's own values, and each box exactly once.
* The card rests on one round trip, `ReadsAgain`: a draft that was read as a value is read as the same
  value after it was saved and shown. `SavedIs` says what a save leaves of each field.

* What the adapter reads of a payload is followed to the field it came from. A reasoning block put in
  anywhere leaves the visible text alone because the filter drops it and leaves the rest in place; a
  usage report is one of those a stream carries.
* The loop over the questions of a call has one invariant, `TookRightly`: carried so far are exactly
  the usable positions at which the characters spent by all usable ones still fit, in their order.
  The characters spent only grow, hence a prefix; the first usable question always fits, because the
  limits of an id and a text together are within the budget (`ParserAssumption`), hence the reason is
  never the budget. The lines of the mail are blocks, one per question; the question that opens a
  block is counted among those before it, which tells which options are its own.
* Every part of a subject has a limit of its own (`SanitizeLine`), and together they stay within that of the
  line, so the whole status begins it and nothing has to give way. A character is named for the field it is
  of (`MailsAssumption`), which says where the code, the HTTP status and the model stand. The sections are
  told by what precedes and follows the text. What they write is one text (`WrittenIs`), and `CollapseIs`
  says that the collapse costs a text nothing but line breaks, leaves no four of them in succession, and
  changes nothing where there are none. A line about an approval has room for what the parser lets through:
  the limits of a tool's name and a reason are those of `human-attention.ts:61-64` or smaller
  (`ApprovalsAssumption`).
* A buffer holds the records from some start on, and that start is the last clear or as far back as
  the buffer reaches (`IsBuffer`). Writing to a full one moves the start by one.

For these proofs `BackoffSequence`'s waits, the filters (of questions, text blocks, entries and
characters), the loop over the questions and the dedupe are written as recursive functions, the queue
of a status is rebuilt from its four fields as `client/wire.ts` does, and the two largest bounds of the
card have names, because a prover counts them out otherwise.

Assumptions: the proofs use the named assumptions of the modules and no others. They bound the
constants as the schema does and are evaluated by TLC in every run.

Only model-checked:

* every liveness property (`PromisesAreKept`, `UnloadResolves`, `ControlsComeBack`, `CardCatchesUp`)
  and `ImplementsFairOutbox`: fairness and ENABLED are out of the prover's reach;
* `TheLogIsHonest`: a value is a tree, normalisation is a recursive operator over it, and induction
  over data is out of reach. `decisions` enumerates it over values nested with losses on both sides of
  the cap, and over notices of each kind.

Induction deserves a word. The induction theorems of the library take an operator as a parameter and
cannot be used, but induction over the natural numbers is a consequence of a first-order fact of the
library, that strict inclusion of finite sets is well-founded: `Ordinals` derives it for a property
given as a set. That is how the sums of `TurnUsage_proofs` and the last occurrences in a history of
`SessionHandlers_proofs` are reached.

## 5. Not modelled

The registration of the routes and of the card with their hosts, the translated texts, the type
declarations, the names of the files the debug sink writes, and the scripts under `scripts/`. They keep no
state that a decision of the plugin reads. In the parts that are modelled: wording and the line breaks of
mails about questions and approvals, the addresses in a footer, the parameters of notices, the two warnings
about ports, the facts copied unread from a payload to a mail or a log (names, times, identifiers of a
message), and the three counters of messages and tool calls that a mail's metadata prints. Characters are
abstracted where only lengths matter (questions, approvals), and a usage report to one required and one
optional counter.

## 6. Plan

Order, most important behaviour first; 1 to 7 are built.

1. `Retry`, `MailQueue`, `Outbox`, and the proofs of the queue.
2. `NotifyPolicy`, `Dedupe`, `SessionHandlers`.
3. `TurnUsage`.
4. `PluginRuntime`, and its proofs.
5. `QuestionParser`, `ConfigCheck`, `Delivery`, `Adapter`, `Fields`, `Decisions`.
6. `CardController` with the delivery test and the poll.
7. `Mail`, `Endpoints`, `Records`, `Buffers`, `CardView`.
8. Next: the step sets of `turn-state.ts`, kept for all sessions in one map, of which `turn-state.ts:129`
   releases those whose key begins with the session's name; and a run of two sessions that share one
   dedupe cache. The proofs of `SessionHandlers_proofs` hold for any number of sessions already; the
   step sets would add to `NothingLingers`.
