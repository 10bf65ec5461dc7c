----------------------------- MODULE TurnUsage -----------------------------
(***************************************************************************)
(* telemetry.ts: the fold of one turn's model calls into one usage figure  *)
(* that says how much of the turn it covers.  A usage report is reduced to *)
(* one required counter, tokens, standing for inputTokens and outputTokens,*)
(* and one optional counter, cache, standing for the three optional ones.  *)
(*                                                                         *)
(* calls and again are not the plugin's: the model calls DSH really made in*)
(* the turn, and the reports of attempts that came under a fresh number.   *)
(***************************************************************************)
EXTENDS Integers, Sequences, FiniteSets

CONSTANTS
  Tokens,                     \* values of the required counter
  Caches,                     \* values of the optional counter
  MaxSafe,                    \* Number.MAX_SAFE_INTEGER
  MaxAccountedSteps,
  MaxAccountedSettlements,
  MaxCalls,                   \* model bound: calls of the turn
  MaxReplays                  \* model bound: events seen again

ASSUME UsageAssumption ==
  /\ Tokens \subseteq 0 .. MaxSafe /\ Caches \subseteq 0 .. MaxSafe
  /\ {MaxSafe, MaxAccountedSteps, MaxAccountedSettlements, MaxCalls, MaxReplays} \subseteq Nat

Absent == -1        \* an optional counter nobody reported
NoUsage == [tokens |-> Absent, cache |-> Absent]
Usages == [tokens : Tokens, cache : Caches \cup {Absent}] \cup {NoUsage}

VARIABLES
  ledger,           \* the TurnUsageAccounting of the turn
  steps,            \* stepsSeen of the turn: a mail prints how many they are
  sawTurnStart,
  calls,            \* [step, outcome, usage, seq, retry] in the order they were made: seq
                    \* and retry number the settlement and the llm/retry record, 0 is none
  seq,              \* the last sequence number used by a settlement or retry
  again,            \* what attempts seen again under a fresh number reported
  replays

vars == <<ledger, steps, sawTurnStart, calls, seq, again, replays>>

-----------------------------------------------------------------------------
EmptyLedger ==
  [tokens |-> 0, cache |-> Absent, settlements |-> {}, sampledMessageSteps |-> {},
   startedSteps |-> {}, settledSteps |-> {}, samples |-> 0, missing |-> 0, retries |-> 0,
   overflowed |-> FALSE, capped |-> FALSE]

NoteStepStarted(l, step) ==
  IF Cardinality(l.startedSteps) >= MaxAccountedSteps
  THEN [l EXCEPT !.capped = TRUE]
  ELSE [l EXCEPT !.startedSteps = @ \cup {step}]

\* foldOptional: absent stays absent until reported; a sum out of range keeps the
\* old value and poisons the aggregate.
FoldOptional(l, value) ==
  IF value = Absent THEN l
  ELSE IF l.cache = Absent THEN [l EXCEPT !.cache = value]
  ELSE IF l.cache + value > MaxSafe THEN [l EXCEPT !.overflowed = TRUE]
  ELSE [l EXCEPT !.cache = @ + value]

\* Seeded defect: a replayed message of a step is added again.
AddSettlementByKeyOnly(l, key, kind, step, usage) ==
  LET known == [l EXCEPT !.settlements = @ \cup {key}, !.settledSteps = @ \cup {step}]
  IN  IF key \in l.settlements THEN l
      ELSE IF Cardinality(l.settlements) >= MaxAccountedSettlements
           THEN [l EXCEPT !.capped = TRUE]
      ELSE IF usage = NoUsage THEN [known EXCEPT !.missing = @ + 1]
      ELSE IF l.tokens + usage.tokens > MaxSafe
           THEN [known EXCEPT !.overflowed = TRUE, !.missing = @ + 1]
      ELSE [FoldOptional(known, usage.cache) EXCEPT !.tokens = @ + usage.tokens, !.samples = @ + 1]

\* addSettlement: a known settlement, and a second usage-bearing message of a
\* step, change nothing; a full ledger only remembers that it is full.
AddSettlement(l, key, kind, step, usage) ==
  LET usable == usage # NoUsage
      known == [l EXCEPT !.settlements = @ \cup {key}, !.settledSteps = @ \cup {step}]
  IN  IF key \in l.settlements THEN l
      ELSE IF usable /\ kind = "message" /\ step \in l.sampledMessageSteps THEN l
      ELSE IF Cardinality(l.settlements) >= MaxAccountedSettlements
           THEN [l EXCEPT !.capped = TRUE]
      ELSE IF ~usable THEN [known EXCEPT !.missing = @ + 1]
      ELSE IF l.tokens + usage.tokens > MaxSafe
           THEN [known EXCEPT !.overflowed = TRUE, !.missing = @ + 1]
      ELSE [FoldOptional(known, usage.cache) EXCEPT
              !.tokens = @ + usage.tokens,
              !.samples = @ + 1,
              !.sampledMessageSteps = IF kind = "message" THEN @ \cup {step} ELSE @]

\* Seeded defect: a retry leaves no trace.
NoteRetryNowhere(l, key) == l

NoteRetry(l, key) ==
  IF key \in l.settlements THEN l
  ELSE IF Cardinality(l.settlements) >= MaxAccountedSettlements
       THEN [l EXCEPT !.capped = TRUE]
  ELSE [l EXCEPT !.settlements = @ \cup {key}, !.retries = @ + 1]

\* snapshot: what the mail prints.
MissingCount(l) == l.missing + Cardinality(l.startedSteps \ l.settledSteps)
Complete(l, started) ==
  /\ started
  /\ ~l.overflowed /\ ~l.capped
  /\ l.retries = 0
  /\ MissingCount(l) = 0
  /\ l.samples > 0
PrintsUsage(l) == l.samples > 0 /\ ~l.overflowed

-----------------------------------------------------------------------------
\* The turn at DSH.  The plugin may attach when the first call is already under
\* way: then it has seen neither turn/start nor that call's step/start.
OpenCall(step) == [step |-> step, outcome |-> "open", usage |-> NoUsage, seq |-> 0, retry |-> 0]

Init ==
  /\ ledger = EmptyLedger /\ steps = {}
  /\ \/ sawTurnStart = TRUE /\ calls = <<>>
     \/ sawTurnStart = FALSE /\ calls = <<OpenCall(1)>>
  /\ seq = 0
  /\ again = [samples |-> 0, tokens |-> 0, caches |-> 0]
  /\ replays = 0

MarkStep(step) == steps' = steps \cup {step}

LastIn(outcome) == calls # <<>> /\ calls[Len(calls)].outcome = outcome
LastStep == IF calls = <<>> THEN 0 ELSE calls[Len(calls)].step

\* step/start announces the one model call of a new step.
StepStart ==
  /\ ~LastIn("open") /\ Len(calls) < MaxCalls
  /\ calls' = Append(calls, OpenCall(LastStep + 1))
  /\ ledger' = NoteStepStarted(ledger, LastStep + 1)
  /\ MarkStep(LastStep + 1)
  /\ UNCHANGED <<sawTurnStart, seq, again, replays>>

\* The handler of assistant/message and assistant/attempt.
Settlement(kind, usage) ==
  /\ seq' = seq + 1
  /\ ledger' = AddSettlement(ledger, seq + 1, kind, LastStep, usage)
  /\ MarkStep(LastStep)
  /\ UNCHANGED <<sawTurnStart, again, replays>>

\* The call under way settles as an assistant/message or as an assistant/attempt.
CallSettles(kind, usage) ==
  /\ LastIn("open")
  /\ calls' = [calls EXCEPT ![Len(calls)] =
                 [@ EXCEPT !.outcome = kind, !.usage = usage, !.seq = seq + 1]]
  /\ Settlement(kind, usage)

\* A step may settle with a further assistant/message, a call nothing announced.
\* At most one message of a step carries usage: that is the runtime's promise.
SettlesAgain(usage) ==
  /\ LastIn("message") /\ Len(calls) < MaxCalls
  /\ usage # NoUsage =>
       \A i \in 1 .. Len(calls) :
          calls[i].step = LastStep /\ calls[i].outcome = "message" => calls[i].usage = NoUsage
  /\ calls' = Append(calls, [OpenCall(LastStep) EXCEPT
                              !.outcome = "message", !.usage = usage, !.seq = seq + 1])
  /\ Settlement("message", usage)

\* llm/retry: the call under way failed, its usage unknown to anybody, or the call
\* settled as an attempt; the step calls again.
CallRetried ==
  LET last == calls[Len(calls)]
  IN  /\ \/ LastIn("open")
         \/ LastIn("attempt") /\ last.retry = 0
      /\ Len(calls) < MaxCalls
      /\ seq' = seq + 1
      /\ calls' = Append([calls EXCEPT ![Len(calls)] =
                            [last EXCEPT
                               !.outcome = IF last.outcome = "open" THEN "failed" ELSE last.outcome,
                               !.retry = seq + 1]],
                         OpenCall(LastStep))
      /\ ledger' = NoteRetry(ledger, seq + 1)
      /\ UNCHANGED <<steps, sawTurnStart, again, replays>>

\* A record is seen again, under its own sequence number or, in a replayed turn,
\* under a fresh one.
SeenAgain(fresh) ==
  /\ replays < MaxReplays /\ replays' = replays + 1
  /\ seq' = IF fresh THEN seq + 1 ELSE seq
  /\ UNCHANGED <<sawTurnStart, calls>>

NumberOf(own, fresh) == IF fresh THEN seq + 1 ELSE own

OrNothing(count) == IF count = Absent THEN 0 ELSE count

SettlementReplayed(i, fresh) ==
  LET c == calls[i]
  IN  /\ c.outcome \in {"message", "attempt"}
      /\ SeenAgain(fresh)
      /\ ledger' = AddSettlement(ledger, NumberOf(c.seq, fresh), c.outcome, c.step, c.usage)
      /\ MarkStep(c.step)
      /\ again' = IF fresh /\ c.outcome = "attempt" /\ c.usage # NoUsage
                  THEN [samples |-> again.samples + 1,
                        tokens |-> again.tokens + c.usage.tokens,
                        caches |-> again.caches + OrNothing(c.usage.cache)]
                  ELSE again

RetryReplayed(i, fresh) ==
  LET c == calls[i]
  IN  /\ c.retry # 0
      /\ SeenAgain(fresh)
      /\ ledger' = NoteRetry(ledger, NumberOf(c.retry, fresh))
      /\ UNCHANGED <<steps, again>>

Next ==
  \/ StepStart
  \/ \E kind \in {"message", "attempt"}, usage \in Usages : CallSettles(kind, usage)
  \/ \E usage \in Usages : SettlesAgain(usage)
  \/ CallRetried
  \/ \E i \in 1 .. Len(calls), fresh \in BOOLEAN :
        SettlementReplayed(i, fresh) \/ RetryReplayed(i, fresh)

Spec == Init /\ [][Next]_vars

-----------------------------------------------------------------------------
TypeOK ==
  /\ ledger.tokens \in 0 .. MaxSafe /\ ledger.cache \in {Absent} \cup (0 .. MaxSafe)
  /\ Cardinality(ledger.settlements) <= MaxAccountedSettlements
  /\ Cardinality(ledger.startedSteps) <= MaxAccountedSteps
  /\ ledger.samples + ledger.missing + ledger.retries = Cardinality(ledger.settlements)

\* The sum of a sequence of numbers.
SumOf(values) ==
  LET sum[n \in 0 .. Len(values)] == IF n = 0 THEN 0 ELSE sum[n - 1] + values[n]
  IN  sum[Len(values)]

\* What the calls of the turn reported, all together.
Reported == {i \in 1 .. Len(calls) : calls[i].usage # NoUsage}
CacheReported == {i \in Reported : calls[i].usage.cache # Absent}
CallTokens == SumOf([i \in 1 .. Len(calls) |-> OrNothing(calls[i].usage.tokens)])
CallCaches == SumOf([i \in 1 .. Len(calls) |-> OrNothing(calls[i].usage.cache)])

\* The same, an attempt's report once more for each time the attempt came under a
\* fresh number: such a copy is one settlement more for the ledger.
Samples == Cardinality(Reported) + again.samples
CountedTokens == CallTokens + again.tokens
CountedCaches == CallCaches + again.caches

\* "Complete" is said of the exact figures only, and of every turn that earns it:
\* each model call has settled with a report, none was retried and the turn was seen
\* from its start, whatever was replayed, out of range or over a cap.  A call without
\* a report is counted as missing or as a retry, unless the figures are marked
\* incomplete for good by the start not seen or a cap.
CompleteIsComplete ==
  LET all == 1 .. Len(calls)
  IN  /\ Complete(ledger, sawTurnStart) =>
           /\ Reported = all
           /\ ledger.tokens = CountedTokens
           /\ ledger.cache = IF CacheReported = {} THEN Absent ELSE CountedCaches
      /\ sawTurnStart /\ ~ledger.capped =>
           MissingCount(ledger) + ledger.retries >= Cardinality(all \ Reported)
      /\ /\ sawTurnStart /\ calls # <<>> /\ ~ledger.overflowed /\ ~ledger.capped
         /\ Reported = all /\ \A i \in all : calls[i].retry = 0
         => Complete(ledger, sawTurnStart)

\* No double counting: the figures a mail prints, complete or not, never exceed what
\* the calls reported, even when events are seen twice (but for an attempt's copy),
\* and the steps it counts are the turn's, all of them when it was seen from its start.
NeverOverstated ==
  LET made == {calls[i].step : i \in DOMAIN calls}
  IN  /\ PrintsUsage(ledger) =>
           /\ ledger.samples <= Samples
           /\ ledger.tokens <= CountedTokens
           /\ ledger.cache <= CountedCaches
      /\ Cardinality(steps) <= Cardinality(made)
      /\ sawTurnStart => Cardinality(steps) = Cardinality(made)

\* telemetry.ts:191: "a replayed turn whose events carry fresh sequence numbers still
\* cannot double count".  It can: the guard per step looks at messages only.
ReplayedTurnsCountOnce == PrintsUsage(ledger) => ledger.tokens <= CallTokens
=============================================================================
