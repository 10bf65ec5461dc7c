----------------------------- MODULE MailQueue -----------------------------
(***************************************************************************)
(* The bounded FIFO queue of src/queue.ts with its single worker.  The     *)
(* JavaScript event loop runs one callback at a time, so an action is the  *)
(* code between two awaits: enqueue, settle and the body of dispose are    *)
(* synchronous, and the worker yields only while the sink is sending and   *)
(* while a backoff is being slept.                                         *)
(*                                                                         *)
(* accepted, refused and ended are history: what enqueue answered for each *)
(* job, and what became of the jobs the worker let go of, in order.        *)
(***************************************************************************)
EXTENDS Naturals, Sequences, FiniteSets, Retry

CONSTANTS
  Jobs,           \* the mail jobs; every notification is a job of its own
  QueueSize,      \* how many jobs may wait; the worker holds one more
  RetryAttempts,  \* retries after the first attempt
  Settlers,       \* callers of settle()
  SleepMayReject  \* whether the injected wait can reject

ASSUME QueueAssumption ==
  /\ QueueSize \in Nat \ {0}
  /\ RetryAttempts \in Nat
  /\ SleepMayReject \in BOOLEAN

VARIABLES
  pending,       \* jobs waiting, oldest first
  held,          \* <<job>> while the worker holds one, else <<>>
  phase,         \* what inFlight is doing: "idle", "sending" or "backoff"
  attempts,      \* attempts made for the held job
  disposed,
  droppedCount,
  processed,
  failed,
  settler,       \* per caller of settle(): "none", "waiting" or "resolved"
  disposal,      \* the promise dispose() returned: "none", "waiting" or "resolved"
  accepted,
  refused,
  ended

work == <<pending, held, phase, attempts>>
counters == <<droppedCount, processed, failed>>
promises == <<settler, disposal>>
history == <<accepted, refused, ended>>
vars == <<work, disposed, counters, promises, history>>

Phases == {"idle", "sending", "backoff"}
Promises == {"none", "waiting", "resolved"}

\* Why the worker let a job go.  "aborted" is the one way without an outcome:
\* the backoff wait rejected and took the worker down with the job.
Verdicts == {"delivered", "permanent", "exhausted", "disposed", "aborted"}
Ends == [job : Jobs, verdict : Verdicts, attempts : Nat]

Offered == {accepted[i] : i \in 1 .. Len(accepted)} \cup refused

Init ==
  /\ pending = <<>> /\ held = <<>> /\ phase = "idle" /\ attempts = 0
  /\ disposed = FALSE
  /\ droppedCount = 0 /\ processed = 0 /\ failed = 0
  /\ settler = [s \in Settlers |-> "none"]
  /\ disposal = "none"
  /\ accepted = <<>> /\ refused = {} /\ ended = <<>>

-----------------------------------------------------------------------------
\* Seeded defect: the newest job is taken first (pop for shift).
TakeNextNewestFirst(queue) ==
  IF queue = <<>>
  THEN pending' = <<>> /\ held' = <<>> /\ phase' = "idle" /\ attempts' = 0
  ELSE /\ pending' = SubSeq(queue, 1, Len(queue) - 1)
       /\ held' = <<queue[Len(queue)]>>
       /\ phase' = "sending"
       /\ attempts' = 1

\* Seeded defect: the worker ends after one job instead of looping.
TakeNextOnce(queue) ==
  IF queue = <<>> \/ held # <<>>
  THEN pending' = queue /\ held' = <<>> /\ phase' = "idle" /\ attempts' = 0
  ELSE /\ pending' = Tail(queue)
       /\ held' = <<Head(queue)>>
       /\ phase' = "sending"
       /\ attempts' = 1

\* The worker takes the head of queue and calls the sink, or ends.
TakeNext(queue) ==
  IF queue = <<>>
  THEN pending' = <<>> /\ held' = <<>> /\ phase' = "idle" /\ attempts' = 0
  ELSE /\ pending' = Tail(queue)
       /\ held' = <<Head(queue)>>
       /\ phase' = "sending"
       /\ attempts' = 1

\* Seeded defect: every end of a job wakes the callers of settle().
NotifyAfterEachJob ==
  settler' = [s \in Settlers |-> IF settler[s] = "waiting" THEN "resolved" ELSE settler[s]]

\* Seeded defect: nobody is woken.
NotifyNobody == settler' = settler

\* notifyDrained: wake every settle() when nothing is in flight or waiting.
NotifyDrained ==
  settler' = IF phase' = "idle" /\ pending' = <<>>
             THEN [s \in Settlers |-> IF settler[s] = "waiting" THEN "resolved" ELSE settler[s]]
             ELSE settler

-----------------------------------------------------------------------------
RefuseDisposed(j) ==
  /\ j \notin Offered
  /\ disposed
  /\ refused' = refused \cup {j}
  /\ UNCHANGED <<work, disposed, counters, promises, accepted, ended>>

RefuseFull(j) ==
  /\ j \notin Offered
  /\ ~disposed
  /\ Len(pending) >= QueueSize
  /\ droppedCount' = droppedCount + 1
  /\ refused' = refused \cup {j}
  /\ UNCHANGED <<work, disposed, processed, failed, promises, accepted, ended>>

\* Seeded defect: an accepted job does not start the worker.
AcceptWithoutWorker(j) ==
  /\ j \notin Offered
  /\ ~disposed
  /\ Len(pending) < QueueSize
  /\ accepted' = Append(accepted, j)
  /\ pending' = Append(pending, j)
  /\ UNCHANGED <<held, phase, attempts, disposed, counters, promises, refused, ended>>

\* An accepted job starts the worker when none runs, and the worker's first
\* synchronous stretch takes the head of the queue before enqueue returns.
Accept(j) ==
  /\ j \notin Offered
  /\ ~disposed
  /\ Len(pending) < QueueSize
  /\ accepted' = Append(accepted, j)
  /\ IF phase = "idle"
     THEN TakeNext(Append(pending, j))
     ELSE pending' = Append(pending, j) /\ UNCHANGED <<held, phase, attempts>>
  /\ UNCHANGED <<disposed, counters, promises, refused, ended>>

-----------------------------------------------------------------------------
\* Seeded defect: a job that dispose cut short is not counted as failed.
FinishForgivesDispose(verdict) ==
  /\ processed' = processed + 1
  /\ failed' = IF verdict \in {"permanent", "exhausted"} THEN failed + 1 ELSE failed
  /\ ended' = Append(ended, [job |-> Head(held), verdict |-> verdict, attempts |-> attempts])
  /\ TakeNext(pending)
  /\ NotifyDrained
  /\ UNCHANGED <<disposed, droppedCount, disposal, accepted, refused>>

\* The held job is over: count it, report it, and take the next one.
Finish(verdict) ==
  /\ processed' = processed + 1
  /\ failed' = IF verdict = "delivered" THEN failed ELSE failed + 1
  /\ ended' = Append(ended, [job |-> Head(held), verdict |-> verdict, attempts |-> attempts])
  /\ TakeNext(pending)
  /\ NotifyDrained
  /\ UNCHANGED <<disposed, droppedCount, disposal, accepted, refused>>

SinkDelivers ==
  /\ phase = "sending"
  /\ Finish("delivered")

\* A failed answer, thrown or returned, of the given retry class.
SinkFails(class) ==
  /\ phase = "sending"
  /\ IF DecideRetry(class, attempts, RetryAttempts)
     THEN /\ phase' = "backoff"
          /\ UNCHANGED <<pending, held, attempts, disposed, counters, promises, history>>
     ELSE Finish(IF class = "retry" THEN "exhausted" ELSE "permanent")

\* Seeded defect: dispose is not looked at after the wait.
BackoffEndsRegardless ==
  /\ phase = "backoff"
  /\ phase' = "sending"
  /\ attempts' = attempts + 1
  /\ UNCHANGED <<pending, held, disposed, counters, promises, history>>

\* The wait is over: give up if the queue was disposed meanwhile, else retry.
BackoffEnds ==
  /\ phase = "backoff"
  /\ IF disposed
     THEN Finish("disposed")
     ELSE /\ phase' = "sending"
          /\ attempts' = attempts + 1
          /\ UNCHANGED <<pending, held, disposed, counters, promises, history>>

\* A rejected wait escapes runJob and the worker: its finally block clears
\* inFlight, but the job is not counted and what waits behind it stays there.
BackoffRejects ==
  /\ SleepMayReject
  /\ phase = "backoff"
  /\ held' = <<>> /\ phase' = "idle" /\ attempts' = 0
  /\ UNCHANGED pending
  /\ ended' = Append(ended, [job |-> Head(held), verdict |-> "aborted", attempts |-> attempts])
  /\ NotifyDrained
  /\ UNCHANGED <<disposed, counters, disposal, accepted, refused>>

-----------------------------------------------------------------------------
Settle(s) ==
  /\ settler[s] = "none"
  /\ settler' = [settler EXCEPT ![s] =
       IF phase = "idle" /\ pending = <<>> THEN "resolved" ELSE "waiting"]
  /\ UNCHANGED <<work, disposed, counters, disposal, history>>

\* Seeded defect: dispose does not wait for the job in flight.
DisposeAtOnce ==
  /\ disposal = "none"
  /\ disposed' = TRUE
  /\ pending' = <<>>
  /\ disposal' = "resolved"
  /\ UNCHANGED <<held, phase, attempts, settler, counters, history>>

\* Seeded defect: dispose leaves the waiting jobs in the queue.
DisposeKeepsPending ==
  /\ disposal = "none"
  /\ disposed' = TRUE
  /\ IF phase = "idle"
     THEN disposal' = "resolved" /\ UNCHANGED settler
     ELSE disposal' = "waiting" /\ UNCHANGED settler
  /\ UNCHANGED <<pending, held, phase, attempts, counters, history>>

\* dispose() up to its await: without a worker it resolves at once.
Dispose ==
  /\ disposal = "none"
  /\ disposed' = TRUE
  /\ pending' = <<>>
  /\ UNCHANGED <<held, phase, attempts>>
  /\ IF phase = "idle"
     THEN disposal' = "resolved" /\ NotifyDrained
     ELSE disposal' = "waiting" /\ UNCHANGED settler
  /\ UNCHANGED <<counters, history>>

\* dispose() after its await: the worker it waited for has ended.
DisposeReturns ==
  /\ disposal = "waiting"
  /\ phase = "idle"
  /\ disposal' = "resolved"
  /\ UNCHANGED work
  /\ NotifyDrained
  /\ UNCHANGED <<disposed, counters, history>>

-----------------------------------------------------------------------------
SinkAnswers == SinkDelivers \/ \E class \in {"retry", "permanent"} : SinkFails(class)

Next ==
  \/ \E j \in Jobs : RefuseDisposed(j) \/ RefuseFull(j) \/ Accept(j)
  \/ SinkAnswers
  \/ BackoffEnds
  \/ BackoffRejects
  \/ \E s \in Settlers : Settle(s)
  \/ Dispose
  \/ DisposeReturns

\* The sink answers, the wait ends, and a promise whose worker ended is
\* continued.  That the sink answers is an assumption about the credential store
\* and about nodemailer's own default timeouts: the plugin sets none.  Nobody
\* has to enqueue, settle or dispose.
Fairness ==
  /\ WF_vars(SinkAnswers)
  /\ WF_vars(BackoffEnds \/ BackoffRejects)
  /\ WF_vars(DisposeReturns)

Spec == Init /\ [][Next]_vars
FairSpec == Spec /\ Fairness

-----------------------------------------------------------------------------
\* Invariants.

TypeOK ==
  /\ pending \in Seq(Jobs)
  /\ held \in Seq(Jobs)
  /\ phase \in Phases
  /\ attempts \in Nat
  /\ disposed \in BOOLEAN
  /\ droppedCount \in Nat /\ processed \in Nat /\ failed \in Nat
  /\ settler \in [Settlers -> Promises]
  /\ disposal \in Promises
  /\ accepted \in Seq(Jobs)
  /\ refused \in SUBSET Jobs
  /\ ended \in Seq(Ends)

EndedJobs == [i \in 1 .. Len(ended) |-> ended[i].job]

\* Every job that enqueue accepted is, in the order of acceptance, either let go
\* of, held by the worker or waiting; nothing is duplicated, overtaken or lost
\* while the queue is open (queue.ts: push, shift and runWorker's loop).  After
\* dispose the jobs that were waiting are the only ones missing, from the tail.
FifoExactlyOnce ==
  LET known == EndedJobs \o held \o pending
  IN  /\ Len(known) <= Len(accepted)
      /\ known = SubSeq(accepted, 1, Len(known))
      /\ ~disposed => Len(known) = Len(accepted)

\* A job leaves the retry loop for the right reason: never beyond the budget of
\* RetryAttempts + 1 sends, "exhausted" only with the whole budget spent, and a
\* dispose can only cut short a job that still had an attempt left (runJob and
\* decideRetry).
RetryBudgetExact ==
  /\ phase # "idle" => attempts \in 1 .. RetryAttempts + 1
  /\ phase = "backoff" => attempts <= RetryAttempts
  /\ \A i \in 1 .. Len(ended) :
       LET e == ended[i]
       IN  /\ e.attempts \in 1 .. RetryAttempts + 1
           /\ e.verdict = "exhausted" => e.attempts = RetryAttempts + 1
           /\ e.verdict \in {"disposed", "aborted"} => e.attempts <= RetryAttempts

\* What stats() reports adds up to what callers were told: while the queue is
\* open each offered job is counted once as dropped, processed, waiting or in
\* flight (a job a rejected wait aborted is the only uncounted one), and failed
\* counts exactly the ends that did not deliver.
StatsAccountForEveryOffer ==
  /\ ~disposed =>
       Cardinality(Offered) =
         droppedCount + processed + Len(pending) + Len(held)
         + Cardinality({i \in 1 .. Len(ended) : ended[i].verdict = "aborted"})
  /\ processed - failed = Cardinality({i \in 1 .. Len(ended) : ended[i].verdict = "delivered"})

\* A job never waits while the worker is idle, unless a rejected wait has just
\* taken the worker down: accepting a job always finds or starts a worker, and
\* the worker only ends on an empty queue (ensureWorker and runWorker).  What such a
\* wait left behind waits until a job is accepted, or until dispose if the line is full.
NoStrandedWork ==
  phase = "idle" /\ pending # <<>> =>
    ended # <<>> /\ ended[Len(ended)].verdict = "aborted"

\* Once dispose() has resolved nothing is in flight or waiting, and it stays so.
DisposedIsQuiet ==
  disposal = "resolved" => disposed /\ phase = "idle" /\ pending = <<>>

\* The strengthening that makes the invariants above inductive: the worker holds
\* one job exactly while it is not idle, nothing waits in a disposed queue, and a
\* queue is disposed exactly when dispose() was called.
Shape ==
  /\ Len(held) <= 1
  /\ phase = "idle" <=> held = <<>>
  /\ disposed => pending = <<>>
  /\ disposed <=> disposal # "none"

-----------------------------------------------------------------------------
\* Action properties.

\* No attempt begins once the queue is disposed, neither a retry of the job in
\* flight nor a first send of a job behind it.
NoSendAfterDispose ==
  [][disposed => ~(phase' = "sending" /\ <<held', attempts'>> # <<held, attempts>>)]_vars

\* settle() resolves only at a moment when no job is in flight or waiting
\* (its doc comment, queue.ts:55).
SettleMeansDrained ==
  [][\A s \in Settlers : settler'[s] = "resolved" /\ settler[s] # "resolved"
       => phase' = "idle" /\ pending' = <<>>]_vars

-----------------------------------------------------------------------------
\* Liveness, under Fairness.

\* Every accepted job is eventually let go of with a verdict, unless a dispose
\* discards it.
EveryAcceptedJobEnds ==
  \A j \in Jobs : (j \in {accepted[i] : i \in 1 .. Len(accepted)})
                    ~> (disposed \/ \E i \in 1 .. Len(ended) : ended[i].job = j)

\* The promise of dispose() resolves, whatever the worker was doing.
DisposeResolves == disposed ~> disposal = "resolved"

\* A settle() that waits is woken.
SettleResolves == \A s \in Settlers : settler[s] = "waiting" ~> settler[s] = "resolved"

\* Nobody who was promised something by the queue waits for ever: not an accepted
\* job, unless dispose discards it, nor the callers of dispose() and settle().
PromisesAreKept == EveryAcceptedJobEnds /\ DisposeResolves /\ SettleResolves

-----------------------------------------------------------------------------
\* What the comment at queue.ts:198-199 says of the job that dispose finds in
\* flight: "its own retry loop already checks `disposed` before sleeping again".
NoBackoffAfterDispose == [][disposed => ~(phase = "sending" /\ phase' = "backoff")]_vars

-----------------------------------------------------------------------------
\* The abstract queue that the jobs' observers see.

Outbox == INSTANCE Outbox WITH
  Capacity <- QueueSize + 1,
  line <- held \o pending,
  closed <- disposed,
  done <- EndedJobs

\* The queue implements the bounded outbox: a mapping that forgets attempts,
\* backoffs, counters and promises.
ImplementsOutbox == Outbox!Spec
\* The same with the outbox's promise that an open line keeps moving.
ImplementsFairOutbox == Outbox!FairSpec
=============================================================================
