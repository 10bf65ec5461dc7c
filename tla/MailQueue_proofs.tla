-------------------------- MODULE MailQueue_proofs --------------------------
(***************************************************************************)
(* Proofs about MailQueue for every value of its constants: its types, the *)
(* FIFO and exactly-once invariant, the exactness of the retry budget, what*)
(* dispose guarantees, and the refinement of Outbox.                       *)
(***************************************************************************)
EXTENDS MailQueue, SequenceTheorems, FiniteSetTheorems, TLAPS

-----------------------------------------------------------------------------
\* Sequences.

\* A non-empty sequence is its head followed by its tail.
LEMMA HeadThenTail ==
  ASSUME NEW S, NEW s \in Seq(S), s # <<>>
  PROVE  <<Head(s)>> \o Tail(s) = s
<1>1. /\ Head(s) \in S
      /\ Tail(s) \in Seq(S)
      /\ Len(Tail(s)) = Len(s) - 1
      /\ \A i \in 1 .. Len(Tail(s)) : Tail(s)[i] = s[i+1]
  BY HeadTailProperties
<1>2. Len(s) \in Nat \ {0}
  BY EmptySeq
<1>3. <<Head(s)>> \in Seq(S) /\ Len(<<Head(s)>>) = 1 /\ <<Head(s)>>[1] = s[1]
  BY <1>1
<1>4. <<Head(s)>> \o Tail(s) \in Seq(S) /\ Len(<<Head(s)>> \o Tail(s)) = Len(s)
  BY <1>1, <1>2, <1>3, ConcatProperties
<1>5. ASSUME NEW i \in 1 .. Len(s)
      PROVE  (<<Head(s)>> \o Tail(s))[i] = s[i]
  BY <1>1, <1>2, <1>3, ConcatProperties
<1> QED BY <1>4, <1>5, SeqEqual

\* Concatenation of jobs regroups.
LEMMA Regroup == \A a, b, c \in Seq(Jobs) : (a \o b) \o c = a \o (b \o c)
BY ConcatAssociative

\* A sequence of at most one element is empty or a singleton.
LEMMA AtMostOne ==
  ASSUME NEW S, NEW s \in Seq(S), Len(s) <= 1, s # <<>>
  PROVE  Head(s) \in S /\ s = <<Head(s)>>
<1>1. Len(s) \in Nat \ {0}
  BY EmptySeq
<1> Len(s) = 1
  BY <1>1
<1>2. Head(s) \in S /\ s[1] = Head(s)
  BY HeadTailProperties
<1>3. <<Head(s)>> \in Seq(S) /\ Len(<<Head(s)>>) = 1 /\ <<Head(s)>>[1] = Head(s)
  BY <1>2
<1> QED BY <1>2, <1>3, SeqEqual

-----------------------------------------------------------------------------
\* The worker takes the head of a queue: what it holds and what waits are that
\* queue again, and it is idle exactly when there was nothing to take.
LEMMA TakeNextSplits ==
  ASSUME NEW queue \in Seq(Jobs), TakeNext(queue)
  PROVE  /\ held' \in Seq(Jobs) /\ pending' \in Seq(Jobs)
         /\ Len(held') <= 1
         /\ held' \o pending' = queue
         /\ phase' \in {"idle", "sending"}
         /\ phase' = "idle" <=> held' = <<>>
         /\ phase' = "idle" <=> queue = <<>>
         /\ phase' = "idle" => pending' = <<>>
         /\ phase' = "sending" => attempts' = 1 /\ held' = <<Head(queue)>>
         /\ attempts' \in Nat
<1>1. CASE queue = <<>>
  BY <1>1, ConcatEmptySeq DEF TakeNext
<1>2. CASE queue # <<>>
  <2>1. Head(queue) \in Jobs /\ Tail(queue) \in Seq(Jobs)
    BY <1>2, HeadTailProperties
  <2>2. <<Head(queue)>> \o Tail(queue) = queue
    BY <1>2, HeadThenTail
  <2>3. <<Head(queue)>> \in Seq(Jobs) /\ Len(<<Head(queue)>>) = 1 /\ <<Head(queue)>> # <<>>
    BY <2>1
  <2>4. /\ pending' = Tail(queue) /\ held' = <<Head(queue)>>
        /\ phase' = "sending" /\ attempts' = 1
    BY <1>2 DEF TakeNext
  <2> HIDE DEF TakeNext
  <2> QED BY <1>2, <2>1, <2>2, <2>3, <2>4
<1> QED BY <1>1, <1>2

-----------------------------------------------------------------------------
\* Types and shape.

TypedShape == TypeOK /\ Shape

\* What the worker holds while it is not idle.
LEMMA HeldJob ==
  ASSUME TypedShape, phase # "idle"
  PROVE  Head(held) \in Jobs /\ held = <<Head(held)>>
<1>1. held \in Seq(Jobs) /\ Len(held) <= 1 /\ held # <<>>
  BY DEF TypedShape, TypeOK, Shape
<1> QED BY <1>1, AtMostOne

\* Letting go of the held job keeps the state well formed.
LEMMA FinishTyped ==
  ASSUME TypedShape, phase # "idle", NEW verdict \in Verdicts, Finish(verdict)
  PROVE  TypedShape'
<1> USE DEF TypedShape
<1>1. Head(held) \in Jobs
  BY HeldJob
<1>2. pending \in Seq(Jobs) /\ TakeNext(pending)
  BY DEF Finish, TypeOK
<1>3. TypeOK'
  <2>1. pending' \in Seq(Jobs) /\ held' \in Seq(Jobs) /\ attempts' \in Nat /\ phase' \in Phases
    BY <1>2, TakeNextSplits DEF Phases
  <2>2. [job |-> Head(held), verdict |-> verdict, attempts |-> attempts] \in Ends
    BY <1>1 DEF TypeOK, Ends
  <2>3. ended' \in Seq(Ends)
    BY <2>2, AppendProperties DEF Finish, TypeOK
  <2>4. settler' \in [Settlers -> Promises]
    BY DEF Finish, NotifyDrained, TypeOK, Promises
  <2>5. droppedCount' \in Nat /\ processed' \in Nat /\ failed' \in Nat
    BY DEF Finish, TypeOK
  <2> QED BY <2>1, <2>3, <2>4, <2>5 DEF Finish, TypeOK
<1>4. Shape'
  <2>1. Len(held') <= 1 /\ (phase' = "idle" <=> held' = <<>>)
    BY <1>2, TakeNextSplits
  <2>2. disposed' => pending' = <<>>
    BY <1>2, TakeNextSplits DEF Shape, Finish, TakeNext
  <2> QED BY <2>1, <2>2 DEF Shape, Finish
<1> QED BY <1>3, <1>4

LEMMA TypedShapeInit == Init => TypedShape
<1> SUFFICES ASSUME Init PROVE TypedShape
  OBVIOUS
<1>1. <<>> \in Seq(Jobs) /\ <<>> \in Seq(Ends) /\ Len(<<>>) = 0
  OBVIOUS
<1>2. TypeOK
  BY <1>1 DEF Init, TypeOK, Phases, Promises
<1>3. Shape
  BY <1>1 DEF Init, Shape
<1> QED BY <1>2, <1>3 DEF TypedShape

LEMMA TypedShapeStep == TypedShape /\ [Next]_vars => TypedShape'
<1> SUFFICES ASSUME TypedShape, [Next]_vars
             PROVE  TypedShape'
  OBVIOUS
<1> USE QueueAssumption
<1>1. ASSUME NEW j \in Jobs, RefuseDisposed(j)
      PROVE  TypedShape'
  BY <1>1 DEF RefuseDisposed, work, counters, promises, TypedShape, TypeOK, Shape
<1>2. ASSUME NEW j \in Jobs, RefuseFull(j)
      PROVE  TypedShape'
  BY <1>2 DEF RefuseFull, work, promises, TypedShape, TypeOK, Shape
<1>3. ASSUME NEW j \in Jobs, Accept(j)
      PROVE  TypedShape'
  <2>1. /\ Append(pending, j) \in Seq(Jobs)
        /\ accepted' \in Seq(Jobs)
    BY <1>3, AppendProperties DEF Accept, TypedShape, TypeOK
  <2>2. /\ pending' \in Seq(Jobs) /\ held' \in Seq(Jobs) /\ phase' \in Phases /\ attempts' \in Nat
        /\ Len(held') <= 1 /\ (phase' = "idle" <=> held' = <<>>)
    <3>1. CASE phase = "idle"
      <4>1. TakeNext(Append(pending, j))
        BY <1>3, <3>1 DEF Accept
      <4> QED BY <2>1, <4>1, TakeNextSplits DEF Phases
    <3>2. CASE phase # "idle"
      BY <1>3, <2>1, <3>2 DEF Accept, TypedShape, TypeOK, Shape
    <3> QED BY <3>1, <3>2
  <2> QED BY <1>3, <2>1, <2>2 DEF Accept, counters, promises, TypedShape, TypeOK, Shape
<1>4. CASE SinkDelivers
  BY <1>4, FinishTyped DEF SinkDelivers, Verdicts
<1>5. ASSUME NEW class \in {"retry", "permanent"}, SinkFails(class)
      PROVE  TypedShape'
  <2>1. CASE DecideRetry(class, attempts, RetryAttempts)
    BY <1>5, <2>1 DEF SinkFails, counters, promises, history, TypedShape, TypeOK, Shape, Phases
  <2>2. CASE ~DecideRetry(class, attempts, RetryAttempts)
    BY <1>5, <2>2, FinishTyped DEF SinkFails, Verdicts
  <2> QED BY <2>1, <2>2
<1>6. CASE BackoffEnds
  <2>1. CASE disposed
    BY <1>6, <2>1, FinishTyped DEF BackoffEnds, Verdicts
  <2>2. CASE ~disposed
    BY <1>6, <2>2 DEF BackoffEnds, counters, promises, history, TypedShape, TypeOK, Shape, Phases
  <2> QED BY <2>1, <2>2
<1>7. CASE BackoffRejects
  <2>1. [job |-> Head(held), verdict |-> "aborted", attempts |-> attempts] \in Ends
    BY <1>7, HeldJob DEF BackoffRejects, TypedShape, TypeOK, Ends, Verdicts
  <2>2. ended' \in Seq(Ends)
    BY <1>7, <2>1, AppendProperties DEF BackoffRejects, TypedShape, TypeOK
  <2>3. settler' \in [Settlers -> Promises]
    BY <1>7 DEF BackoffRejects, NotifyDrained, TypedShape, TypeOK, Promises
  <2> QED BY <1>7, <2>2, <2>3 DEF BackoffRejects, counters, TypedShape, TypeOK, Shape, Phases
<1>8. ASSUME NEW s \in Settlers, Settle(s)
      PROVE  TypedShape'
  BY <1>8 DEF Settle, work, counters, history, TypedShape, TypeOK, Shape, Promises
<1>9. CASE Dispose
  BY <1>9 DEF Dispose, NotifyDrained, counters, history, TypedShape, TypeOK, Shape, Promises
<1>10. CASE DisposeReturns
  BY <1>10 DEF DisposeReturns, NotifyDrained, work, counters, history, TypedShape, TypeOK, Shape, Promises
<1>11. CASE UNCHANGED vars
  BY <1>11 DEF vars, work, counters, promises, history, TypedShape, TypeOK, Shape
<1> QED BY <1>1, <1>2, <1>3, <1>4, <1>5, <1>6, <1>7, <1>8, <1>9, <1>10, <1>11 DEF Next, SinkAnswers

\* Type correctness: every reachable state of the queue, whatever its size and
\* retry budget, is well typed.
THEOREM TypeCorrect == Spec => []TypeOK
<1>1. TypedShape => TypeOK
  BY DEF TypedShape
<1> QED BY <1>1, TypedShapeInit, TypedShapeStep, PTL DEF Spec

-----------------------------------------------------------------------------
\* First in, first out, exactly once.

\* The jobs the queue has answered for, in order.
Known == EndedJobs \o held \o pending

\* A prefix is known by its elements.
LEMMA PrefixByElements ==
  ASSUME NEW S, NEW s \in Seq(S), NEW p \in Seq(S), Len(p) <= Len(s)
  PROVE  p = SubSeq(s, 1, Len(p)) <=> \A i \in 1 .. Len(p) : p[i] = s[i]
<1>1. Len(p) \in Nat /\ Len(s) \in Nat
  BY LenProperties
<1>2. \A i \in 1 .. Len(p) : s[i] \in S
  BY <1>1, ElementOfSeq
<1>3. /\ SubSeq(s, 1, Len(p)) \in Seq(S)
      /\ Len(SubSeq(s, 1, Len(p))) = Len(p)
      /\ \A i \in 1 .. Len(p) : SubSeq(s, 1, Len(p))[i] = s[i]
  BY <1>1, <1>2, SubSeqProperties
<1>4. ASSUME \A i \in 1 .. Len(p) : p[i] = s[i]
      PROVE  p = SubSeq(s, 1, Len(p))
  BY <1>3, <1>4, SeqEqual
<1> QED BY <1>3, <1>4

LEMMA EndedJobsType ==
  ASSUME TypedShape
  PROVE  EndedJobs \in Seq(Jobs) /\ Len(EndedJobs) = Len(ended)
<1>1. Len(ended) \in Nat /\ \A i \in 1 .. Len(ended) : ended[i] \in Ends
  BY LenProperties, ElementOfSeq DEF TypedShape, TypeOK
<1>2. \A i \in 1 .. Len(ended) : ended[i].job \in Jobs
  BY <1>1 DEF Ends
<1> QED BY <1>1, <1>2 DEF EndedJobs

LEMMA KnownType ==
  ASSUME TypedShape
  PROVE  Known \in Seq(Jobs)
BY EndedJobsType, ConcatProperties DEF Known, TypedShape, TypeOK

\* Letting go of the held job appends it to the ended ones.
LEMMA EndedGrows ==
  ASSUME TypedShape, NEW j \in Jobs, NEW e \in Ends, e.job = j, ended' = Append(ended, e)
  PROVE  EndedJobs' = Append(EndedJobs, j)
<1>1. Len(ended) \in Nat /\ ended \in Seq(Ends)
  BY LenProperties DEF TypedShape, TypeOK
<1>2. /\ Len(ended') = Len(ended) + 1
      /\ \A i \in 1 .. Len(ended) : ended'[i] = ended[i]
      /\ ended'[Len(ended) + 1] = e
  BY <1>1, AppendProperties
<1>3. /\ Append(EndedJobs, j) \in Seq(Jobs)
      /\ Len(Append(EndedJobs, j)) = Len(ended) + 1
      /\ \A i \in 1 .. Len(ended) : Append(EndedJobs, j)[i] = ended[i].job
      /\ Append(EndedJobs, j)[Len(ended) + 1] = j
  BY EndedJobsType, AppendProperties, <1>1 DEF EndedJobs
<1>4. \A i \in 1 .. Len(ended) + 1 : ended'[i].job = Append(EndedJobs, j)[i]
  BY <1>1, <1>2, <1>3
<1>5. EndedJobs' \in Seq(Jobs)
  <2>1. \A i \in 1 .. Len(ended) : ended[i] \in Ends
    BY <1>1, ElementOfSeq
  <2>2. \A i \in 1 .. Len(ended) + 1 : ended'[i].job \in Jobs
    BY <1>1, <1>2, <2>1 DEF Ends
  <2> QED BY <1>1, <1>2, <2>2 DEF EndedJobs
<1>6. Len(EndedJobs') = Len(ended) + 1 /\ \A i \in 1 .. Len(ended) + 1 : EndedJobs'[i] = ended'[i].job
  BY <1>1, <1>2 DEF EndedJobs
<1> QED BY <1>1, <1>3, <1>4, <1>5, <1>6, SeqEqual

\* Finishing the held job moves it across without changing what is known.
LEMMA FinishKeepsKnown ==
  ASSUME TypedShape, phase # "idle", NEW verdict \in Verdicts, Finish(verdict)
  PROVE  Known' = Known
<1> DEFINE j == Head(held)
<1>1. j \in Jobs /\ held = <<j>>
  BY HeldJob
<1>2. /\ EndedJobs \in Seq(Jobs) /\ <<j>> \in Seq(Jobs)
      /\ pending \in Seq(Jobs)
  BY <1>1, EndedJobsType DEF TypedShape, TypeOK
<1>3. EndedJobs' = Append(EndedJobs, j)
  <2>1. [job |-> j, verdict |-> verdict, attempts |-> attempts] \in Ends
    BY <1>1 DEF TypedShape, TypeOK, Ends
  <2> QED BY <1>1, <2>1, EndedGrows DEF Finish
<1>4. EndedJobs' = EndedJobs \o <<j>>
  BY <1>1, <1>2, <1>3, AppendIsConcat
<1>5. held' \in Seq(Jobs) /\ pending' \in Seq(Jobs) /\ held' \o pending' = pending
  BY <1>2, TakeNextSplits DEF Finish
<1>6. Known' = EndedJobs' \o (held' \o pending')
  <2>1. EndedJobs' \in Seq(Jobs)
    BY <1>1, <1>2, <1>3, AppendProperties
  <2>2. (EndedJobs' \o held') \o pending' = EndedJobs' \o (held' \o pending')
    BY <1>5, <2>1, Regroup
  <2> QED BY <2>2 DEF Known
<1>7. Known' = EndedJobs \o <<j>> \o pending
  BY <1>4, <1>5, <1>6
<1> QED BY <1>1, <1>7 DEF Known

\* A rejected wait too: the aborted job is known to have been let go of.
LEMMA RejectKeepsKnown ==
  ASSUME TypedShape, BackoffRejects
  PROVE  Known' = Known
<1> DEFINE j == Head(held)
<1>1. j \in Jobs /\ held = <<j>>
  BY HeldJob DEF BackoffRejects
<1>2. /\ EndedJobs \in Seq(Jobs) /\ <<j>> \in Seq(Jobs)
      /\ pending \in Seq(Jobs)
  BY <1>1, EndedJobsType DEF TypedShape, TypeOK
<1>3. EndedJobs' = EndedJobs \o <<j>>
  <2>1. [job |-> j, verdict |-> "aborted", attempts |-> attempts] \in Ends
    BY <1>1 DEF TypedShape, TypeOK, Ends, Verdicts
  <2>2. EndedJobs' = Append(EndedJobs, j)
    BY <1>1, <2>1, EndedGrows DEF BackoffRejects
  <2> QED BY <1>1, <1>2, <2>2, AppendIsConcat
<1>4. held' = <<>> /\ pending' = pending
  BY DEF BackoffRejects
<1>5. EndedJobs \o <<j>> \in Seq(Jobs)
  BY <1>2, ConcatProperties
<1> QED BY <1>1, <1>3, <1>4, <1>5, ConcatEmptySeq DEF Known

\* An accepted job is appended to what is known.
LEMMA AcceptGrowsKnown ==
  ASSUME TypedShape, NEW j \in Jobs, Accept(j)
  PROVE  Known' = Append(Known, j)
<1>1. /\ EndedJobs \in Seq(Jobs) /\ held \in Seq(Jobs) /\ pending \in Seq(Jobs)
      /\ <<j>> \in Seq(Jobs)
  BY EndedJobsType DEF TypedShape, TypeOK
<1>2. held' \in Seq(Jobs) /\ pending' \in Seq(Jobs) /\ held' \o pending' = held \o (pending \o <<j>>)
  <2>1. Append(pending, j) = pending \o <<j>> /\ Append(pending, j) \in Seq(Jobs)
    BY <1>1, AppendIsConcat, AppendProperties
  <2>2. CASE phase = "idle"
    <3>1. TakeNext(Append(pending, j)) /\ held = <<>>
      BY <2>2 DEF Accept, TypedShape, Shape
    <3>2. held \o (pending \o <<j>>) = Append(pending, j)
      BY <2>1, <3>1, ConcatEmptySeq
    <3> QED BY <2>1, <3>1, <3>2, TakeNextSplits
  <2>3. CASE phase # "idle"
    BY <1>1, <2>1, <2>3 DEF Accept
  <2> QED BY <2>2, <2>3
<1>3. EndedJobs' = EndedJobs
  BY DEF Accept, EndedJobs
<1>4. Known' = EndedJobs \o (held \o (pending \o <<j>>))
  <2>1. (EndedJobs \o held') \o pending' = EndedJobs \o (held' \o pending')
    BY <1>1, <1>2, Regroup
  <2>2. Known' = (EndedJobs \o held') \o pending'
    BY <1>3 DEF Known
  <2> QED BY <1>2, <2>1, <2>2
<1>5. Known \o <<j>> = EndedJobs \o (held \o (pending \o <<j>>))
  BY <1>1, ConcatAssociative, ConcatProperties DEF Known
<1> QED BY <1>4, <1>5, KnownType, AppendIsConcat

LEMMA FifoInit == Init => FifoExactlyOnce
<1> SUFFICES ASSUME Init PROVE FifoExactlyOnce
  OBVIOUS
<1>1. Known = <<>> /\ accepted = <<>>
  BY ConcatEmptySeq DEF Init, Known, EndedJobs
<1>2. Known = SubSeq(accepted, 1, Len(Known)) /\ Len(Known) = 0 /\ Len(accepted) = 0
  BY <1>1, SubSeqEmpty
<1> QED BY <1>2 DEF FifoExactlyOnce, Known

\* A step that touches neither what is known nor what was accepted, and does not
\* reopen the queue, keeps the invariant.
LEMMA FifoFrame ==
  ASSUME FifoExactlyOnce, Known' = Known, accepted' = accepted, disposed' = disposed
  PROVE  FifoExactlyOnce'
BY DEF FifoExactlyOnce, Known

LEMMA FifoStep == TypedShape /\ FifoExactlyOnce /\ [Next]_vars => FifoExactlyOnce'
<1> SUFFICES ASSUME TypedShape, FifoExactlyOnce, [Next]_vars
             PROVE  FifoExactlyOnce'
  OBVIOUS
<1>1. ASSUME NEW j \in Jobs, RefuseDisposed(j) \/ RefuseFull(j)
      PROVE  FifoExactlyOnce'
  BY <1>1, FifoFrame DEF RefuseDisposed, RefuseFull, work, Known, EndedJobs
<1>2. ASSUME NEW j \in Jobs, Accept(j)
      PROVE  FifoExactlyOnce'
  <2>1. Known = SubSeq(accepted, 1, Len(Known)) /\ Len(Known) = Len(accepted)
    BY <1>2 DEF FifoExactlyOnce, Known, Accept
  <2>2. accepted \in Seq(Jobs)
    BY DEF TypedShape, TypeOK
  <2>3. Known = accepted
    BY <2>1, <2>2, SubSeqFull
  <2>4. Known' = accepted' /\ accepted' \in Seq(Jobs)
    BY <1>2, <2>2, <2>3, AcceptGrowsKnown, AppendProperties DEF Accept
  <2>5. accepted' = SubSeq(accepted', 1, Len(accepted')) /\ Len(accepted') \in Nat
    BY <2>4, SubSeqFull, LenProperties
  <2> QED BY <2>4, <2>5 DEF FifoExactlyOnce, Known
<1>3. CASE SinkDelivers
  BY <1>3, FinishKeepsKnown, FifoFrame DEF SinkDelivers, Finish, Verdicts
<1>4. ASSUME NEW class \in {"retry", "permanent"}, SinkFails(class)
      PROVE  FifoExactlyOnce'
  <2>1. CASE DecideRetry(class, attempts, RetryAttempts)
    BY <1>4, <2>1, FifoFrame DEF SinkFails, history, Known, EndedJobs
  <2>2. CASE ~DecideRetry(class, attempts, RetryAttempts)
    BY <1>4, <2>2, FinishKeepsKnown, FifoFrame DEF SinkFails, Finish, Verdicts
  <2> QED BY <2>1, <2>2
<1>5. CASE BackoffEnds
  <2>1. CASE disposed
    BY <1>5, <2>1, FinishKeepsKnown, FifoFrame DEF BackoffEnds, Finish, Verdicts
  <2>2. CASE ~disposed
    BY <1>5, <2>2, FifoFrame DEF BackoffEnds, history, Known, EndedJobs
  <2> QED BY <2>1, <2>2
<1>6. CASE BackoffRejects
  BY <1>6, RejectKeepsKnown, FifoFrame DEF BackoffRejects
<1>7. ASSUME NEW s \in Settlers, Settle(s)
      PROVE  FifoExactlyOnce'
  BY <1>7, FifoFrame DEF Settle, work, history, Known, EndedJobs
<1>8. CASE Dispose
  <2>1. /\ EndedJobs \o held \in Seq(Jobs) /\ pending \in Seq(Jobs)
        /\ accepted \in Seq(Jobs) /\ Known \in Seq(Jobs)
    BY EndedJobsType, KnownType, ConcatProperties DEF TypedShape, TypeOK
  <2>2. Known' = EndedJobs \o held
    BY <1>8, <2>1, ConcatEmptySeq DEF Dispose, history, Known, EndedJobs
  <2>3. Len(Known) = Len(Known') + Len(pending) /\ Len(pending) \in Nat /\ Len(Known') \in Nat
    BY <2>1, <2>2, ConcatProperties, LenProperties DEF Known
  <2>4. \A i \in 1 .. Len(Known') : Known'[i] = Known[i]
    <3>1. \A i \in 1 .. Len(EndedJobs \o held) + Len(pending) :
             ((EndedJobs \o held) \o pending)[i] =
               IF i <= Len(EndedJobs \o held) THEN (EndedJobs \o held)[i]
                                              ELSE pending[i - Len(EndedJobs \o held)]
      BY <2>1, ConcatProperties
    <3> QED BY <2>2, <2>3, <3>1 DEF Known
  <2>5. Len(Known) <= Len(accepted) /\ Known = SubSeq(accepted, 1, Len(Known)) /\ Len(accepted) \in Nat
    BY <2>1, LenProperties DEF FifoExactlyOnce, Known
  <2>6. \A i \in 1 .. Len(Known) : Known[i] = accepted[i]
    BY <2>1, <2>5, PrefixByElements
  <2>7. Known' \in Seq(Jobs) /\ Len(Known') <= Len(accepted)
    BY <2>1, <2>2, <2>3, <2>5
  <2>8. \A i \in 1 .. Len(Known') : Known'[i] = accepted[i]
    BY <2>3, <2>4, <2>6
  <2>9. Known' = SubSeq(accepted, 1, Len(Known'))
    BY <2>1, <2>7, <2>8, PrefixByElements
  <2> QED BY <1>8, <2>7, <2>9 DEF FifoExactlyOnce, Known, Dispose, history
<1>9. CASE DisposeReturns
  BY <1>9, FifoFrame DEF DisposeReturns, work, history, Known, EndedJobs
<1>10. CASE UNCHANGED vars
  BY <1>10, FifoFrame DEF vars, work, history, Known, EndedJobs
<1> QED BY <1>1, <1>2, <1>3, <1>4, <1>5, <1>6, <1>7, <1>8, <1>9, <1>10 DEF Next, SinkAnswers

\* Every accepted job is let go of, held or waiting, exactly once and in the
\* order of acceptance, until a dispose drops the tail of the line.
THEOREM Fifo == Spec => []FifoExactlyOnce
<1>1. Init => TypedShape /\ FifoExactlyOnce
  BY TypedShapeInit, FifoInit
<1>2. TypedShape /\ FifoExactlyOnce /\ [Next]_vars => TypedShape' /\ FifoExactlyOnce'
  BY TypedShapeStep, FifoStep
<1> QED BY <1>1, <1>2, PTL DEF Spec

-----------------------------------------------------------------------------
\* The retry budget.

\* An end with a verdict its attempts account for.
GoodEnd(e) ==
  /\ e.attempts \in 1 .. RetryAttempts + 1
  /\ e.verdict = "exhausted" => e.attempts = RetryAttempts + 1
  /\ e.verdict \in {"disposed", "aborted"} => e.attempts <= RetryAttempts

LEMMA BudgetIsGoodEnds ==
  RetryBudgetExact <=> /\ phase # "idle" => attempts \in 1 .. RetryAttempts + 1
                       /\ phase = "backoff" => attempts <= RetryAttempts
                       /\ \A i \in 1 .. Len(ended) : GoodEnd(ended[i])
BY DEF RetryBudgetExact, GoodEnd

\* Appending a good end keeps all ends good.
LEMMA GoodEndsGrow ==
  ASSUME TypedShape, NEW e \in Ends, GoodEnd(e), ended' = Append(ended, e),
         \A i \in 1 .. Len(ended) : GoodEnd(ended[i])
  PROVE  \A i \in 1 .. Len(ended') : GoodEnd(ended'[i])
<1>1. ended \in Seq(Ends) /\ Len(ended) \in Nat
  BY LenProperties DEF TypedShape, TypeOK
<1>2. /\ Len(ended') = Len(ended) + 1
      /\ \A i \in 1 .. Len(ended) : ended'[i] = ended[i]
      /\ ended'[Len(ended) + 1] = e
  BY <1>1, AppendProperties
<1>3. ASSUME NEW i \in 1 .. Len(ended')
      PROVE  GoodEnd(ended'[i])
  <2>1. CASE i = Len(ended) + 1
    BY <1>2, <2>1
  <2>2. CASE i # Len(ended) + 1
    <3>1. i \in 1 .. Len(ended)
      BY <1>1, <1>2, <2>2
    <3>2. ended'[i] = ended[i]
      BY <1>2, <3>1
    <3> QED BY <3>1, <3>2
  <2> QED BY <2>1, <2>2
<1> QED BY <1>3

LEMMA FinishKeepsBudget ==
  ASSUME TypedShape, RetryBudgetExact, phase # "idle", NEW verdict \in Verdicts, Finish(verdict),
         verdict = "exhausted" => attempts = RetryAttempts + 1,
         verdict \in {"disposed", "aborted"} => attempts <= RetryAttempts
  PROVE  RetryBudgetExact'
<1> DEFINE e == [job |-> Head(held), verdict |-> verdict, attempts |-> attempts]
<1>1. e \in Ends /\ e.verdict = verdict /\ e.attempts = attempts
  BY HeldJob DEF TypedShape, TypeOK, Ends
<1>2. GoodEnd(e)
  BY <1>1, BudgetIsGoodEnds DEF GoodEnd
<1>3. \A i \in 1 .. Len(ended') : GoodEnd(ended'[i])
  <2>1. ended' = Append(ended, e)
    BY DEF Finish
  <2> HIDE DEF e
  <2> QED BY <1>1, <1>2, <2>1, GoodEndsGrow, BudgetIsGoodEnds
<1>4. phase' \in {"idle", "sending"} /\ (phase' = "sending" => attempts' = 1)
  BY TakeNextSplits DEF Finish, TypedShape, TypeOK
<1>5. /\ phase' # "idle" => attempts' \in 1 .. RetryAttempts + 1
      /\ phase' = "backoff" => attempts' <= RetryAttempts
  BY <1>4, QueueAssumption
<1> QED BY <1>3, <1>5 DEF RetryBudgetExact, GoodEnd

LEMMA BudgetInit == Init => RetryBudgetExact
BY DEF Init, RetryBudgetExact

LEMMA BudgetStep == TypedShape /\ RetryBudgetExact /\ [Next]_vars => RetryBudgetExact'
<1> SUFFICES ASSUME TypedShape, RetryBudgetExact, [Next]_vars
             PROVE  RetryBudgetExact'
  OBVIOUS
<1> USE QueueAssumption
<1>1. ASSUME NEW j \in Jobs, RefuseDisposed(j) \/ RefuseFull(j)
      PROVE  RetryBudgetExact'
  BY <1>1 DEF RefuseDisposed, RefuseFull, work, RetryBudgetExact
<1>2. ASSUME NEW j \in Jobs, Accept(j)
      PROVE  RetryBudgetExact'
  <2>1. CASE phase = "idle"
    <3>1. Append(pending, j) \in Seq(Jobs) /\ TakeNext(Append(pending, j))
      BY <1>2, <2>1, AppendProperties DEF Accept, TypedShape, TypeOK
    <3>2. phase' \in {"idle", "sending"} /\ (phase' = "sending" => attempts' = 1)
      BY <3>1, TakeNextSplits
    <3> QED BY <1>2, <3>2 DEF Accept, RetryBudgetExact
  <2>2. CASE phase # "idle"
    BY <1>2, <2>2 DEF Accept, RetryBudgetExact
  <2> QED BY <2>1, <2>2
<1>3. CASE SinkDelivers
  BY <1>3, FinishKeepsBudget DEF SinkDelivers, Verdicts
<1>4. ASSUME NEW class \in {"retry", "permanent"}, SinkFails(class)
      PROVE  RetryBudgetExact'
  <2>1. CASE DecideRetry(class, attempts, RetryAttempts)
    BY <1>4, <2>1 DEF SinkFails, DecideRetry, history, RetryBudgetExact, TypedShape, TypeOK
  <2>2. CASE ~DecideRetry(class, attempts, RetryAttempts)
    <3>1. class = "retry" => attempts = RetryAttempts + 1
      BY <1>4, <2>2 DEF SinkFails, DecideRetry, RetryBudgetExact, TypedShape, TypeOK
    <3> QED BY <1>4, <2>2, <3>1, FinishKeepsBudget DEF SinkFails, Verdicts
  <2> QED BY <2>1, <2>2
<1>5. CASE BackoffEnds
  <2>1. attempts \in 1 .. RetryAttempts
    BY <1>5 DEF BackoffEnds, RetryBudgetExact, TypedShape, TypeOK
  <2>2. CASE disposed
    BY <1>5, <2>1, <2>2, FinishKeepsBudget DEF BackoffEnds, Verdicts
  <2>3. CASE ~disposed
    BY <1>5, <2>1, <2>3 DEF BackoffEnds, history, RetryBudgetExact
  <2> QED BY <2>2, <2>3
<1>6. CASE BackoffRejects
  <2> DEFINE e == [job |-> Head(held), verdict |-> "aborted", attempts |-> attempts]
  <2>1. e \in Ends /\ e.verdict = "aborted" /\ e.attempts = attempts
    BY <1>6, HeldJob DEF BackoffRejects, TypedShape, TypeOK, Ends, Verdicts
  <2>2. GoodEnd(e)
    BY <1>6, <2>1 DEF BackoffRejects, GoodEnd, RetryBudgetExact
  <2>3. ended' = Append(ended, e) /\ phase' = "idle"
    BY <1>6 DEF BackoffRejects
  <2>4. \A i \in 1 .. Len(ended') : GoodEnd(ended'[i])
    <3> HIDE DEF e
    <3> QED BY <2>1, <2>2, <2>3, GoodEndsGrow, BudgetIsGoodEnds
  <2> QED BY <2>3, <2>4 DEF RetryBudgetExact, GoodEnd
<1>7. ASSUME NEW s \in Settlers, Settle(s)
      PROVE  RetryBudgetExact'
  BY <1>7 DEF Settle, work, history, RetryBudgetExact
<1>8. CASE Dispose \/ DisposeReturns
  BY <1>8 DEF Dispose, DisposeReturns, work, history, RetryBudgetExact
<1>9. CASE UNCHANGED vars
  BY <1>9 DEF vars, work, history, RetryBudgetExact
<1> QED BY <1>1, <1>2, <1>3, <1>4, <1>5, <1>6, <1>7, <1>8, <1>9 DEF Next, SinkAnswers

\* No job is sent more than RetryAttempts + 1 times, none is given up as
\* exhausted before that, and only a job with an attempt left can be cut short.
THEOREM RetryBudget == Spec => []RetryBudgetExact
<1>1. Init => TypedShape /\ RetryBudgetExact
  BY TypedShapeInit, BudgetInit
<1>2. TypedShape /\ RetryBudgetExact /\ [Next]_vars => TypedShape' /\ RetryBudgetExact'
  BY TypedShapeStep, BudgetStep
<1> QED BY <1>1, <1>2, PTL DEF Spec

-----------------------------------------------------------------------------
\* Disposal.

\* Once a dispose is called no step starts an attempt: the queue is empty, so the
\* worker cannot take a job, and the loop gives up when its wait ends.
LEMMA NoSendStep ==
  TypedShape /\ [Next]_vars
    => (disposed => ~(phase' = "sending" /\ <<held', attempts'>> # <<held, attempts>>))
<1> SUFFICES ASSUME TypedShape, [Next]_vars, disposed, phase' = "sending"
             PROVE  held' = held /\ attempts' = attempts
  OBVIOUS
<1>1. pending = <<>>
  BY DEF TypedShape, Shape
<1>2. ASSUME NEW verdict, Finish(verdict)
      PROVE  FALSE
  BY <1>1, <1>2 DEF Finish, TakeNext
<1>3. ASSUME NEW j \in Jobs, RefuseDisposed(j) \/ RefuseFull(j) \/ Accept(j)
      PROVE  held' = held /\ attempts' = attempts
  BY <1>3 DEF RefuseDisposed, RefuseFull, Accept, work
<1>4. ASSUME SinkDelivers \/ \E class \in {"retry", "permanent"} : SinkFails(class)
      PROVE  FALSE
  BY <1>2, <1>4 DEF SinkDelivers, SinkFails
<1>5. ASSUME BackoffEnds \/ BackoffRejects
      PROVE  FALSE
  BY <1>2, <1>5 DEF BackoffEnds, BackoffRejects
<1>6. ASSUME NEW s \in Settlers, Settle(s)
      PROVE  held' = held /\ attempts' = attempts
  BY <1>6 DEF Settle, work
<1>7. CASE Dispose \/ DisposeReturns
  BY <1>7 DEF Dispose, DisposeReturns, work
<1>8. CASE UNCHANGED vars
  BY <1>8 DEF vars, work
<1> QED BY <1>3, <1>4, <1>5, <1>6, <1>7, <1>8 DEF Next, SinkAnswers

\* No send attempt begins after dispose, for any queue size and retry budget.
THEOREM DisposeStopsSending == Spec => NoSendAfterDispose
<1>1. TypedShape /\ [Next]_vars
        => [disposed => ~(phase' = "sending" /\ <<held', attempts'>> # <<held, attempts>>)]_vars
  BY NoSendStep
<1> QED BY <1>1, TypedShapeInit, TypedShapeStep, PTL DEF Spec, NoSendAfterDispose

LEMMA QuietStep == TypedShape /\ DisposedIsQuiet /\ [Next]_vars => DisposedIsQuiet'
<1> SUFFICES ASSUME TypedShape, DisposedIsQuiet, [Next]_vars, disposal' = "resolved"
             PROVE  disposed' /\ phase' = "idle" /\ pending' = <<>>
  BY DEF DisposedIsQuiet
<1> USE DEF DisposedIsQuiet, TypedShape, Shape
<1>1. ASSUME NEW j \in Jobs, RefuseDisposed(j) \/ RefuseFull(j) \/ Accept(j)
      PROVE  disposed' /\ phase' = "idle" /\ pending' = <<>>
  BY <1>1 DEF RefuseDisposed, RefuseFull, Accept, work, promises
<1>2. CASE SinkAnswers \/ BackoffEnds \/ BackoffRejects
  BY <1>2 DEF SinkAnswers, SinkDelivers, SinkFails, BackoffEnds, BackoffRejects, Finish, promises
<1>3. ASSUME NEW s \in Settlers, Settle(s)
      PROVE  disposed' /\ phase' = "idle" /\ pending' = <<>>
  BY <1>3 DEF Settle, work
<1>4. CASE Dispose
  BY <1>4 DEF Dispose
<1>5. CASE DisposeReturns
  BY <1>5 DEF DisposeReturns, work
<1>6. CASE UNCHANGED vars
  BY <1>6 DEF vars, work, promises
<1> QED BY <1>1, <1>2, <1>3, <1>4, <1>5, <1>6 DEF Next

\* When dispose() has resolved, nothing is in flight or waiting any more.
THEOREM DisposeQuiesces == Spec => []DisposedIsQuiet
<1>1. Init => DisposedIsQuiet
  BY DEF Init, DisposedIsQuiet
<1> QED BY <1>1, TypedShapeInit, TypedShapeStep, QuietStep, PTL DEF Spec

-----------------------------------------------------------------------------
\* Waiting and waking.

LEMMA StrandedStep == TypedShape /\ NoStrandedWork /\ [Next]_vars => NoStrandedWork'
<1> SUFFICES ASSUME TypedShape, NoStrandedWork, [Next]_vars, phase' = "idle", pending' # <<>>
             PROVE  ended' # <<>> /\ ended'[Len(ended')].verdict = "aborted"
  BY DEF NoStrandedWork
<1>1. ASSUME NEW queue \in Seq(Jobs), TakeNext(queue)
      PROVE  FALSE
  BY <1>1, TakeNextSplits
<1>2. ASSUME NEW j \in Jobs, RefuseDisposed(j) \/ RefuseFull(j)
      PROVE  ended' = ended /\ phase = "idle" /\ pending # <<>>
  BY <1>2 DEF RefuseDisposed, RefuseFull, work
<1>3. ASSUME NEW j \in Jobs, Accept(j)
      PROVE  FALSE
  <2>1. Append(pending, j) \in Seq(Jobs)
    BY AppendProperties DEF TypedShape, TypeOK
  <2> QED BY <1>1, <1>3, <2>1 DEF Accept
<1>4. CASE SinkAnswers \/ BackoffEnds
  <2>1. pending \in Seq(Jobs)
    BY DEF TypedShape, TypeOK
  <2> QED BY <1>1, <1>4, <2>1 DEF SinkAnswers, SinkDelivers, SinkFails, BackoffEnds, Finish
<1>5. CASE BackoffRejects
  <2> DEFINE e == [job |-> Head(held), verdict |-> "aborted", attempts |-> attempts]
  <2>1. e \in Ends /\ e.verdict = "aborted" /\ ended' = Append(ended, e)
    BY <1>5, HeldJob DEF BackoffRejects, TypedShape, TypeOK, Ends, Verdicts
  <2>2. ended \in Seq(Ends)
    BY DEF TypedShape, TypeOK
  <2>3. /\ ended' # <<>> /\ Len(ended') = Len(ended) + 1
        /\ ended'[Len(ended) + 1] = e
    <3> HIDE DEF e
    <3> QED BY <2>1, <2>2, AppendProperties
  <2> QED BY <2>1, <2>3
<1>6. ASSUME NEW s \in Settlers, Settle(s)
      PROVE  ended' = ended /\ phase = "idle" /\ pending # <<>>
  BY <1>6 DEF Settle, work, history
<1>7. CASE Dispose
  BY <1>7 DEF Dispose
<1>8. CASE DisposeReturns
  BY <1>8 DEF DisposeReturns, work, history, NoStrandedWork
<1>9. CASE UNCHANGED vars
  BY <1>9 DEF vars, work, history, NoStrandedWork
<1> QED BY <1>2, <1>3, <1>4, <1>5, <1>6, <1>7, <1>8, <1>9 DEF Next, NoStrandedWork

\* No job waits without a worker, unless a rejected wait took the worker down.
THEOREM WorkIsNotStranded == Spec => []NoStrandedWork
<1>1. Init => NoStrandedWork
  BY DEF Init, NoStrandedWork
<1> QED BY <1>1, TypedShapeInit, TypedShapeStep, StrandedStep, PTL DEF Spec

-----------------------------------------------------------------------------
\* Refinement.

Line == held \o pending

LEMMA LineType ==
  ASSUME TypedShape
  PROVE  /\ held \in Seq(Jobs) /\ pending \in Seq(Jobs) /\ Line \in Seq(Jobs)
         /\ Len(Line) = Len(held) + Len(pending)
         /\ Len(held) \in Nat /\ Len(pending) \in Nat
<1>1. held \in Seq(Jobs) /\ pending \in Seq(Jobs)
  BY DEF TypedShape, TypeOK
<1> QED BY <1>1, ConcatProperties, LenProperties DEF Line

\* While the worker holds a job, that job is the front of the line and the jobs
\* waiting are the rest of it.
LEMMA LineOfHeld ==
  ASSUME TypedShape, phase # "idle"
  PROVE  Line # <<>> /\ Head(Line) = Head(held) /\ Tail(Line) = pending
<1> DEFINE j == Head(held)
<1>1. j \in Jobs /\ held = <<j>> /\ <<j>> \in Seq(Jobs) /\ Len(held) = 1 /\ held[1] = j
  BY HeldJob
<1>2. /\ pending \in Seq(Jobs) /\ Len(pending) \in Nat
      /\ Line \in Seq(Jobs) /\ Len(Line) = 1 + Len(pending)
  BY <1>1, LineType
<1>3. \A i \in 1 .. 1 + Len(pending) : Line[i] = IF i <= 1 THEN held[i] ELSE pending[i - 1]
  <2>1. \A i \in 1 .. Len(held) + Len(pending) :
          (held \o pending)[i] = IF i <= Len(held) THEN held[i] ELSE pending[i - Len(held)]
    BY LineType, ConcatProperties
  <2> QED BY <1>1, <2>1 DEF Line
<1>4. Line # <<>>
  BY <1>2, EmptySeq
<1>5. Head(Line) = Line[1]
  BY <1>2, <1>4
<1>6. /\ Tail(Line) \in Seq(Jobs) /\ Len(Tail(Line)) = Len(pending)
      /\ \A i \in 1 .. Len(pending) : Tail(Line)[i] = Line[i + 1]
  BY <1>2, <1>4, HeadTailProperties
<1>7. \A i \in 1 .. Len(pending) : Tail(Line)[i] = pending[i]
  BY <1>2, <1>3, <1>6
<1>8. Tail(Line) = pending
  BY <1>2, <1>6, <1>7, SeqEqual
<1> QED BY <1>1, <1>2, <1>3, <1>4, <1>5, <1>8

\* In an open queue the ended jobs followed by the line are the accepted ones.
LEMMA OpenLine ==
  ASSUME TypedShape, FifoExactlyOnce, ~disposed
  PROVE  accepted = EndedJobs \o Line
<1>1. EndedJobs \in Seq(Jobs) /\ held \in Seq(Jobs) /\ pending \in Seq(Jobs) /\ accepted \in Seq(Jobs)
  BY EndedJobsType DEF TypedShape, TypeOK
<1>2. Known = SubSeq(accepted, 1, Len(accepted))
  BY DEF FifoExactlyOnce, Known
<1>3. Known = accepted
  BY <1>1, <1>2, SubSeqFull
<1> QED BY <1>1, <1>3, Regroup DEF Known, Line

\* A job that was never offered is neither in the line nor among the ended ones.
LEMMA FreshJob ==
  ASSUME TypedShape, FifoExactlyOnce, ~disposed, NEW j, j \notin Offered
  PROVE  /\ \A i \in 1 .. Len(Line) : Line[i] # j
         /\ \A i \in 1 .. Len(EndedJobs) : EndedJobs[i] # j
<1>1. /\ EndedJobs \in Seq(Jobs) /\ Line \in Seq(Jobs)
      /\ Len(EndedJobs) \in Nat /\ Len(Line) \in Nat
  BY EndedJobsType, LineType, LenProperties
<1>2. /\ Len(accepted) = Len(EndedJobs) + Len(Line)
      /\ \A i \in 1 .. Len(EndedJobs) + Len(Line) :
            accepted[i] = IF i <= Len(EndedJobs) THEN EndedJobs[i] ELSE Line[i - Len(EndedJobs)]
  BY <1>1, OpenLine, ConcatProperties
<1>3. \A i \in 1 .. Len(accepted) : accepted[i] # j
  BY DEF Offered
<1>4. ASSUME NEW i \in 1 .. Len(EndedJobs)
      PROVE  EndedJobs[i] # j
  BY <1>1, <1>2, <1>3
<1>5. ASSUME NEW i \in 1 .. Len(Line)
      PROVE  Line[i] # j
  <2>1. Len(EndedJobs) + i \in 1 .. Len(accepted) /\ ~(Len(EndedJobs) + i <= Len(EndedJobs))
    BY <1>1, <1>2
  <2>2. accepted[Len(EndedJobs) + i] = Line[(Len(EndedJobs) + i) - Len(EndedJobs)]
    BY <1>2, <2>1
  <2>3. (Len(EndedJobs) + i) - Len(EndedJobs) = i
    BY <1>1
  <2> QED BY <1>3, <2>1, <2>2, <2>3
<1> QED BY <1>4, <1>5

\* Letting go of the held job is the front of the line leaving.
LEMMA FinishLeaves ==
  ASSUME TypedShape, phase # "idle", NEW verdict \in Verdicts, Finish(verdict)
  PROVE  Outbox!Leave
<1>1. Line # <<>> /\ Head(Line) = Head(held) /\ Tail(Line) = pending
  BY LineOfHeld
<1>2. EndedJobs' = Append(EndedJobs, Head(held))
  <2>1. [job |-> Head(held), verdict |-> verdict, attempts |-> attempts] \in Ends /\ Head(held) \in Jobs
    BY HeldJob DEF TypedShape, TypeOK, Ends
  <2> QED BY <2>1, EndedGrows DEF Finish
<1>3. held' \o pending' = pending /\ disposed' = disposed
  BY TakeNextSplits DEF Finish, TypedShape, TypeOK
<1> QED BY <1>1, <1>2, <1>3 DEF Outbox!Leave, Line

LEMMA RejectLeaves ==
  ASSUME TypedShape, BackoffRejects
  PROVE  Outbox!Leave
<1>1. Line # <<>> /\ Head(Line) = Head(held) /\ Tail(Line) = pending
  BY LineOfHeld DEF BackoffRejects
<1>2. EndedJobs' = Append(EndedJobs, Head(held))
  <2>1. [job |-> Head(held), verdict |-> "aborted", attempts |-> attempts] \in Ends /\ Head(held) \in Jobs
    BY HeldJob DEF BackoffRejects, TypedShape, TypeOK, Ends, Verdicts
  <2> QED BY <2>1, EndedGrows DEF BackoffRejects
<1>3. held' \o pending' = pending /\ disposed' = disposed
  <2>1. held' = <<>> /\ pending' = pending /\ pending \in Seq(Jobs)
    BY DEF BackoffRejects, TypedShape, TypeOK
  <2> QED BY <2>1, ConcatEmptySeq DEF BackoffRejects
<1> QED BY <1>1, <1>2, <1>3 DEF Outbox!Leave, Line

\* An accepted job joins the line at the back.
LEMMA AcceptJoins ==
  ASSUME TypedShape, FifoExactlyOnce, NEW j \in Jobs, Accept(j)
  PROVE  Outbox!Join(j)
<1>1. ~disposed /\ j \notin Offered /\ Len(pending) < QueueSize /\ disposed' = disposed
  BY DEF Accept
<1>2. Len(held \o pending) < QueueSize + 1
  BY <1>1, LineType, QueueAssumption DEF Line, TypedShape, Shape
<1>3. /\ \A i \in 1 .. Len(held \o pending) : (held \o pending)[i] # j
      /\ \A i \in 1 .. Len(EndedJobs) : EndedJobs[i] # j
  BY <1>1, FreshJob DEF Line
<1>4. EndedJobs' = EndedJobs
  BY DEF Accept, EndedJobs
<1>5. held' \o pending' = Append(held \o pending, j)
  <2>1. /\ held \in Seq(Jobs) /\ pending \in Seq(Jobs) /\ Append(pending, j) \in Seq(Jobs)
        /\ Append(pending, j) = pending \o <<j>> /\ <<j>> \in Seq(Jobs)
    BY LineType, AppendProperties, AppendIsConcat
  <2>2. held \o (pending \o <<j>>) = Append(held \o pending, j)
    BY <2>1, Regroup, LineType, AppendIsConcat DEF Line
  <2>3. CASE phase = "idle"
    <3>1. held = <<>> /\ TakeNext(Append(pending, j))
      BY <2>3 DEF Accept, TypedShape, Shape
    <3>2. held' \o pending' = Append(pending, j)
      BY <2>1, <3>1, TakeNextSplits
    <3>3. held \o pending = pending
      BY <2>1, <3>1, ConcatEmptySeq
    <3> QED BY <3>2, <3>3
  <2>4. CASE phase # "idle"
    BY <2>1, <2>2, <2>4 DEF Accept
  <2> QED BY <2>3, <2>4
<1> QED BY <1>1, <1>2, <1>3, <1>4, <1>5 DEF Outbox!Join

\* dispose() closes the line and leaves only a job being worked on.
LEMMA DisposeCloses ==
  ASSUME TypedShape, Dispose
  PROVE  Outbox!Close
<1>1. ~disposed /\ disposed' = TRUE /\ EndedJobs' = EndedJobs
  BY DEF Dispose, TypedShape, TypeOK, Shape, history, EndedJobs
<1>2. held' \o pending' = held
  BY ConcatEmptySeq DEF Dispose, TypedShape, TypeOK
<1>3. CASE phase = "idle"
  <2>1. held = <<>>
    BY <1>3 DEF TypedShape, Shape
  <2> QED BY <1>1, <1>2, <2>1 DEF Outbox!Close
<1>4. CASE phase # "idle"
  <2>1. held \o pending # <<>> /\ held = <<Head(held \o pending)>>
    BY <1>4, LineOfHeld, HeldJob DEF Line
  <2> QED BY <1>1, <1>2, <2>1 DEF Outbox!Close
<1> QED BY <1>3, <1>4

LEMMA RefinesInit == Init => Outbox!Init
<1> SUFFICES ASSUME Init PROVE Outbox!Init
  OBVIOUS
<1>1. held \o pending = <<>>
  BY ConcatEmptySeq DEF Init
<1>2. EndedJobs = <<>>
  BY DEF Init, EndedJobs
<1> QED BY <1>1, <1>2 DEF Init, Outbox!Init

LEMMA RefinesStep ==
  TypedShape /\ FifoExactlyOnce /\ [Next]_vars => [Outbox!Next]_Outbox!vars
<1> SUFFICES ASSUME TypedShape, FifoExactlyOnce, [Next]_vars
             PROVE  Outbox!Next \/ UNCHANGED Outbox!vars
  OBVIOUS
<1>1. ASSUME NEW j \in Jobs, RefuseDisposed(j) \/ RefuseFull(j)
      PROVE  UNCHANGED Outbox!vars
  BY <1>1 DEF RefuseDisposed, RefuseFull, work, Outbox!vars, EndedJobs
<1>2. ASSUME NEW j \in Jobs, Accept(j)
      PROVE  Outbox!Next
  BY <1>2, AcceptJoins DEF Outbox!Next
<1>3. CASE SinkDelivers
  BY <1>3, FinishLeaves DEF SinkDelivers, Verdicts, Outbox!Next
<1>4. ASSUME NEW class \in {"retry", "permanent"}, SinkFails(class)
      PROVE  Outbox!Next \/ UNCHANGED Outbox!vars
  <2>1. CASE DecideRetry(class, attempts, RetryAttempts)
    BY <1>4, <2>1 DEF SinkFails, history, Outbox!vars, EndedJobs
  <2>2. CASE ~DecideRetry(class, attempts, RetryAttempts)
    BY <1>4, <2>2, FinishLeaves DEF SinkFails, Verdicts, Outbox!Next
  <2> QED BY <2>1, <2>2
<1>5. CASE BackoffEnds
  <2>1. CASE disposed
    BY <1>5, <2>1, FinishLeaves DEF BackoffEnds, Verdicts, Outbox!Next
  <2>2. CASE ~disposed
    BY <1>5, <2>2 DEF BackoffEnds, history, Outbox!vars, EndedJobs
  <2> QED BY <2>1, <2>2
<1>6. CASE BackoffRejects
  BY <1>6, RejectLeaves DEF Outbox!Next
<1>7. ASSUME NEW s \in Settlers, Settle(s)
      PROVE  UNCHANGED Outbox!vars
  BY <1>7 DEF Settle, work, history, Outbox!vars, EndedJobs
<1>8. CASE Dispose
  BY <1>8, DisposeCloses DEF Outbox!Next
<1>9. CASE DisposeReturns
  BY <1>9 DEF DisposeReturns, work, history, Outbox!vars, EndedJobs
<1>10. CASE UNCHANGED vars
  BY <1>10 DEF vars, work, history, Outbox!vars, EndedJobs
<1> QED BY <1>1, <1>2, <1>3, <1>4, <1>5, <1>6, <1>7, <1>8, <1>9, <1>10 DEF Next, SinkAnswers

\* The queue with its worker, retries and disposal is a bounded outbox: jobs
\* leave from the front only, one at a time, and a closed line takes nobody.
THEOREM QueueImplementsOutbox == Spec => ImplementsOutbox
<1>1. Init => TypedShape /\ FifoExactlyOnce
  BY TypedShapeInit, FifoInit
<1>2. TypedShape /\ FifoExactlyOnce /\ [Next]_vars => TypedShape' /\ FifoExactlyOnce'
  BY TypedShapeStep, FifoStep
<1> QED BY <1>1, <1>2, RefinesInit, RefinesStep, PTL DEF Spec, ImplementsOutbox, Outbox!Spec

-----------------------------------------------------------------------------
\* What stats() reports.

\* The jobs that were let go of with a verdict, by their place.
EndsWith(verdict) == {i \in 1 .. Len(ended) : ended[i].verdict = verdict}

\* Those jobs are finitely many, and letting go of one more adds it to its verdict's.
LEMMA EndsWithFinite ==
  ASSUME TypedShape, NEW verdict
  PROVE  IsFiniteSet(EndsWith(verdict)) /\ Cardinality(EndsWith(verdict)) \in Nat
<1>1. Len(ended) \in Nat
  BY LenProperties DEF TypedShape, TypeOK
<1>2. IsFiniteSet(1 .. Len(ended)) /\ EndsWith(verdict) \subseteq 1 .. Len(ended)
  BY <1>1, FS_Interval DEF EndsWith
<1> QED BY <1>2, FS_Subset, FS_CardinalityType

LEMMA EndsWithGrows ==
  ASSUME TypedShape, NEW e \in Ends, ended' = Append(ended, e), NEW verdict
  PROVE  Cardinality(EndsWith(verdict))' =
           Cardinality(EndsWith(verdict)) + IF e.verdict = verdict THEN 1 ELSE 0
<1>1. Len(ended) \in Nat /\ ended \in Seq(Ends)
  BY LenProperties DEF TypedShape, TypeOK
<1>2. /\ Len(ended') = Len(ended) + 1
      /\ \A i \in 1 .. Len(ended) : ended'[i] = ended[i]
      /\ ended'[Len(ended) + 1] = e
  BY <1>1, AppendProperties
<1>3. 1 .. Len(ended') = (1 .. Len(ended)) \cup {Len(ended) + 1}
  BY <1>1, <1>2
<1>4. EndsWith(verdict)' = IF e.verdict = verdict THEN EndsWith(verdict) \cup {Len(ended) + 1}
                           ELSE EndsWith(verdict)
  BY <1>1, <1>2, <1>3 DEF EndsWith
<1>5. Len(ended) + 1 \notin EndsWith(verdict)
  BY <1>1 DEF EndsWith
<1>6. IsFiniteSet(EndsWith(verdict)) /\ Cardinality(EndsWith(verdict)) \in Nat
  BY EndsWithFinite
<1>7. CASE e.verdict = verdict
  BY <1>4, <1>5, <1>6, <1>7, FS_AddElement
<1>8. CASE e.verdict # verdict
  BY <1>4, <1>6, <1>8
<1> QED BY <1>7, <1>8

\* The offered jobs are finitely many, because they came one by one, and the counters
\* add up to them.
Counted ==
  /\ IsFiniteSet(Offered)
  /\ ~disposed =>
       Cardinality(Offered) =
         droppedCount + processed + Len(pending) + Len(held) + Cardinality(EndsWith("aborted"))
  /\ processed - failed = Cardinality(EndsWith("delivered"))

\* An offer that is answered is one more.
LEMMA OneMoreOffer ==
  ASSUME IsFiniteSet(Offered), NEW j, j \notin Offered, Offered' = Offered \cup {j}
  PROVE  /\ IsFiniteSet(Offered') /\ Cardinality(Offered') = Cardinality(Offered) + 1
         /\ Cardinality(Offered) \in Nat
BY FS_AddElement, FS_CardinalityType

\* What is accepted joins the offered jobs, and so does what is refused.
LEMMA OfferedGrows ==
  ASSUME TypedShape, NEW j \in Jobs,
         \/ accepted' = Append(accepted, j) /\ refused' = refused
         \/ accepted' = accepted /\ refused' = refused \cup {j}
  PROVE  Offered' = Offered \cup {j}
<1>1. accepted \in Seq(Jobs) /\ Len(accepted) \in Nat
  BY LenProperties DEF TypedShape, TypeOK
<1>2. CASE accepted' = Append(accepted, j) /\ refused' = refused
  <2>1. /\ Len(accepted') = Len(accepted) + 1
        /\ \A i \in 1 .. Len(accepted) : accepted'[i] = accepted[i]
        /\ accepted'[Len(accepted) + 1] = j
    BY <1>1, <1>2, AppendProperties
  <2>2. 1 .. Len(accepted') = (1 .. Len(accepted)) \cup {Len(accepted) + 1}
    BY <1>1, <2>1
  <2>3. {accepted'[i] : i \in 1 .. Len(accepted')} = {accepted[i] : i \in 1 .. Len(accepted)} \cup {j}
    BY <1>1, <2>1, <2>2
  <2> QED BY <1>2, <2>3 DEF Offered
<1>3. CASE accepted' = accepted /\ refused' = refused \cup {j}
  BY <1>3 DEF Offered
<1> QED BY <1>2, <1>3

\* How many jobs are waiting and held.
LEMMA Lengths ==
  ASSUME TypedShape
  PROVE  /\ Len(pending) \in Nat
         /\ Len(held) = IF phase = "idle" THEN 0 ELSE 1
<1>1. pending \in Seq(Jobs) /\ held \in Seq(Jobs)
  BY DEF TypedShape, TypeOK
<1>2. Len(held) <= 1 /\ (phase = "idle" <=> held = <<>>)
  BY DEF TypedShape, Shape
<1>3. Len(pending) \in Nat /\ Len(held) \in Nat
  BY <1>1, LenProperties
<1>4. held = <<>> <=> Len(held) = 0
  BY <1>1, EmptySeq
<1>5. phase = "idle" <=> Len(held) = 0
  BY <1>2, <1>4, Zenon
<1> DEFINE n == Len(held)
<1>6. n \in Nat /\ n <= 1 /\ (phase = "idle" <=> n = 0) /\ Len(pending) \in Nat
  BY <1>2, <1>3, <1>5
<1> HIDE DEF n
<1>7. n = IF phase = "idle" THEN 0 ELSE 1
  BY <1>6
<1> QED BY <1>6, <1>7 DEF n

\* Taking the next job moves one from the waiting to the held, if there is one.
LEMMA TakeNextKeepsLength ==
  ASSUME NEW queue \in Seq(Jobs), TakeNext(queue)
  PROVE  Len(held') + Len(pending') = Len(queue)
<1>1. held' \in Seq(Jobs) /\ pending' \in Seq(Jobs) /\ held' \o pending' = queue
  BY TakeNextSplits
<1> QED BY <1>1, ConcatProperties

\* A finished job moves from the held to the processed ones.
LEMMA FinishKeepsCounted ==
  ASSUME TypedShape, Counted, phase # "idle", NEW verdict \in Verdicts \ {"aborted"}, Finish(verdict)
  PROVE  Counted'
<1>1. Head(held) \in Jobs
  BY HeldJob
<1>2. [job |-> Head(held), verdict |-> verdict, attempts |-> attempts] \in Ends
  BY <1>1 DEF TypedShape, TypeOK, Ends
<1>3. /\ Cardinality(EndsWith("aborted"))' = Cardinality(EndsWith("aborted"))
      /\ Cardinality(EndsWith("delivered"))' =
           Cardinality(EndsWith("delivered")) + IF verdict = "delivered" THEN 1 ELSE 0
      /\ Cardinality(EndsWith("aborted")) \in Nat
  BY <1>2, EndsWithGrows, EndsWithFinite DEF Finish
<1>4. Len(held') + Len(pending') = Len(pending) /\ Len(held) = 1 /\ Len(pending) \in Nat
  BY TakeNextKeepsLength, Lengths DEF Finish, TypedShape, TypeOK
<1>5. Len(held') \in Nat /\ Len(pending') \in Nat
  BY TakeNextSplits, LenProperties DEF Finish, TypedShape, TypeOK
<1>6. Offered' = Offered
  BY DEF Finish, Offered
<1>7. /\ processed' = processed + 1 /\ droppedCount' = droppedCount /\ disposed' = disposed
      /\ failed' = IF verdict = "delivered" THEN failed ELSE failed + 1
      /\ processed \in Nat /\ failed \in Nat /\ droppedCount \in Nat
  BY DEF Finish, TypedShape, TypeOK
<1>8. IsFiniteSet(Offered)'
  BY <1>6 DEF Counted
<1>9. (~disposed =>
         Cardinality(Offered) =
           droppedCount + processed + Len(pending) + Len(held) + Cardinality(EndsWith("aborted")))'
  BY <1>3, <1>4, <1>5, <1>6, <1>7 DEF Counted
<1>10. (processed - failed = Cardinality(EndsWith("delivered")))'
  BY <1>3, <1>7 DEF Counted
<1> QED BY <1>8, <1>9, <1>10 DEF Counted

LEMMA CountedInit == Init => Counted
<1> SUFFICES ASSUME Init
             PROVE  Counted
  OBVIOUS
<1>1. Len(<<>>) = 0 /\ 1 .. 0 = {}
  BY EmptySeq
<1>2. Offered = {} /\ EndsWith("aborted") = {} /\ EndsWith("delivered") = {}
  BY <1>1 DEF Init, Offered, EndsWith
<1>3. IsFiniteSet({}) /\ Cardinality({}) = 0
  BY FS_EmptySet
<1>4. droppedCount = 0 /\ processed = 0 /\ failed = 0 /\ Len(pending) = 0 /\ Len(held) = 0
  BY <1>1 DEF Init
<1>5. IsFiniteSet(Offered) /\ Cardinality(Offered) = 0
  BY <1>2, <1>3
<1>6. Cardinality(EndsWith("aborted")) = 0 /\ Cardinality(EndsWith("delivered")) = 0
  BY <1>2, <1>3
<1>7. droppedCount + processed + Len(pending) + Len(held) = 0 /\ processed - failed = 0
  BY <1>4
<1> QED BY <1>5, <1>6, <1>7 DEF Counted

LEMMA CountedStep == TypedShape /\ Counted /\ [Next]_vars => Counted'
<1> SUFFICES ASSUME TypedShape, Counted, [Next]_vars
             PROVE  Counted'
  OBVIOUS
<1> USE DEF Counted
<1>1. /\ Len(pending) \in Nat /\ Len(held) = (IF phase = "idle" THEN 0 ELSE 1)
      /\ processed \in Nat /\ failed \in Nat /\ droppedCount \in Nat
      /\ Cardinality(EndsWith("aborted")) \in Nat /\ Cardinality(Offered) \in Nat
  BY Lengths, EndsWithFinite, FS_CardinalityType DEF TypedShape, TypeOK
<1>2. ASSUME NEW j \in Jobs, RefuseDisposed(j)
      PROVE  Counted'
  <2>1. IsFiniteSet(Offered') /\ disposed'
    BY <1>2, OfferedGrows, OneMoreOffer DEF RefuseDisposed
  <2> QED BY <1>2, <2>1 DEF RefuseDisposed, counters, EndsWith
<1>3. ASSUME NEW j \in Jobs, RefuseFull(j)
      PROVE  Counted'
  <2>1. IsFiniteSet(Offered') /\ Cardinality(Offered') = Cardinality(Offered) + 1
    BY <1>3, OfferedGrows, OneMoreOffer DEF RefuseFull
  <2>2. /\ droppedCount' = droppedCount + 1 /\ disposed' = disposed /\ processed' = processed
        /\ failed' = failed /\ Len(pending)' = Len(pending) /\ Len(held)' = Len(held)
        /\ \A v : Cardinality(EndsWith(v))' = Cardinality(EndsWith(v))
    BY <1>3 DEF RefuseFull, work, EndsWith
  <2>3. (~disposed =>
           Cardinality(Offered) =
             droppedCount + processed + Len(pending) + Len(held) + Cardinality(EndsWith("aborted")))'
    BY <1>1, <2>1, <2>2
  <2>4. (processed - failed = Cardinality(EndsWith("delivered")))'
    BY <2>2
  <2> QED BY <2>1, <2>3, <2>4
<1>4. ASSUME NEW j \in Jobs, Accept(j)
      PROVE  Counted'
  <2>1. IsFiniteSet(Offered') /\ Cardinality(Offered') = Cardinality(Offered) + 1
    BY <1>4, OfferedGrows, OneMoreOffer DEF Accept
  <2>2. /\ Append(pending, j) \in Seq(Jobs) /\ Len(Append(pending, j)) = Len(pending) + 1
    BY AppendProperties DEF TypedShape, TypeOK
  <2>3. Len(held') + Len(pending') = Len(held) + Len(pending) + 1
    <3>1. CASE phase = "idle"
      <4>1. TakeNext(Append(pending, j)) /\ Len(held) = 0
        BY <1>1, <1>4, <3>1 DEF Accept
      <4>2. Len(held') + Len(pending') = Len(Append(pending, j))
        BY <2>2, <4>1, TakeNextKeepsLength
      <4> QED BY <1>1, <2>2, <4>1, <4>2
    <3>2. CASE phase # "idle"
      <4>1. pending' = Append(pending, j) /\ held' = held /\ Len(held) = 1
        BY <1>1, <1>4, <3>2 DEF Accept
      <4>2. Len(pending') = Len(pending) + 1 /\ Len(held') = 1 /\ Len(held) = 1
        BY <2>2, <4>1
      <4> DEFINE p == Len(pending)
                 q == Len(pending')
                 h == Len(held)
                 k == Len(held')
      <4>3. p \in Nat /\ q = p + 1 /\ k = 1 /\ h = 1
        BY <1>1, <4>2
      <4> HIDE DEF p, q, h, k
      <4>4. k + q = h + p + 1
        BY ONLY <4>3
      <4> QED BY <4>4 DEF p, q, h, k
    <3> QED BY <3>1, <3>2
  <2>4. Len(held') \in Nat /\ Len(pending') \in Nat
    BY TypedShapeStep, LenProperties DEF TypedShape, TypeOK
  <2>5. /\ droppedCount' = droppedCount /\ disposed' = disposed /\ processed' = processed
        /\ failed' = failed /\ \A v : Cardinality(EndsWith(v))' = Cardinality(EndsWith(v))
    BY <1>4 DEF Accept, counters, EndsWith
  <2>6. Len(held) \in Nat
    BY <1>1
  <2>7. (~disposed =>
           Cardinality(Offered) =
             droppedCount + processed + Len(pending) + Len(held) + Cardinality(EndsWith("aborted")))'
    BY <1>1, <2>1, <2>3, <2>4, <2>5, <2>6
  <2>8. (processed - failed = Cardinality(EndsWith("delivered")))'
    BY <2>5
  <2> QED BY <2>1, <2>7, <2>8
<1>5. CASE SinkDelivers
  BY <1>5, FinishKeepsCounted DEF SinkDelivers, Verdicts
<1>6. ASSUME NEW class \in {"retry", "permanent"}, SinkFails(class)
      PROVE  Counted'
  <2>1. CASE DecideRetry(class, attempts, RetryAttempts)
    BY <1>6, <2>1 DEF SinkFails, counters, history, Offered, EndsWith
  <2>2. CASE ~DecideRetry(class, attempts, RetryAttempts)
    BY <1>6, <2>2, FinishKeepsCounted DEF SinkFails, Verdicts
  <2> QED BY <2>1, <2>2
<1>7. CASE BackoffEnds
  <2>1. CASE disposed
    BY <1>7, <2>1, FinishKeepsCounted DEF BackoffEnds, Verdicts
  <2>2. CASE ~disposed
    BY <1>7, <2>2 DEF BackoffEnds, counters, history, Offered, EndsWith
  <2> QED BY <2>1, <2>2
<1>8. CASE BackoffRejects
  <2>1. [job |-> Head(held), verdict |-> "aborted", attempts |-> attempts] \in Ends
    BY <1>8, HeldJob DEF BackoffRejects, TypedShape, TypeOK, Ends, Verdicts
  <2>2. /\ Cardinality(EndsWith("aborted"))' = Cardinality(EndsWith("aborted")) + 1
        /\ Cardinality(EndsWith("delivered"))' = Cardinality(EndsWith("delivered"))
    <3>1. Cardinality(EndsWith("delivered")) \in Nat
      BY EndsWithFinite
    <3> QED BY <1>8, <2>1, <3>1, EndsWithGrows DEF BackoffRejects
  <2>3. Len(held) = 1 /\ Len(held') = 0
    BY <1>1, <1>8, EmptySeq DEF BackoffRejects
  <2>4. /\ droppedCount' = droppedCount /\ disposed' = disposed /\ processed' = processed
        /\ failed' = failed /\ pending' = pending /\ Offered' = Offered
    BY <1>8 DEF BackoffRejects, counters, Offered
  <2>5. (~disposed =>
           Cardinality(Offered) =
             droppedCount + processed + Len(pending) + Len(held) + Cardinality(EndsWith("aborted")))'
    <3> DEFINE p == Len(pending)
               h == Len(held)
               k == Len(held')
               a == Cardinality(EndsWith("aborted"))
               b == Cardinality(EndsWith("aborted"))'
    <3>1. /\ ~disposed => Cardinality(Offered) = droppedCount + processed + p + h + a
          /\ Len(pending)' = p /\ p \in Nat /\ a \in Nat /\ h = 1 /\ k = 0 /\ b = a + 1
      BY <1>1, <2>2, <2>3, <2>4
    <3> HIDE DEF p, h, k, a, b
    <3>2. droppedCount + processed + p + k + b = droppedCount + processed + p + h + a
      BY <1>1, <3>1
    <3>3. ~disposed => Cardinality(Offered) = droppedCount + processed + p + k + b
      BY <3>1, <3>2
    <3>4. ~disposed' => Cardinality(Offered)' = droppedCount' + processed' + p + k + b
      BY <2>4, <3>3
    <3> QED BY <3>1, <3>4 DEF k, b
  <2>6. (processed - failed = Cardinality(EndsWith("delivered")))'
    BY <2>2, <2>4
  <2> QED BY <2>4, <2>5, <2>6
<1>9. ASSUME NEW s \in Settlers, Settle(s)
      PROVE  Counted'
  BY <1>9 DEF Settle, work, counters, history, Offered, EndsWith
<1>10. CASE Dispose
  BY <1>10 DEF Dispose, counters, history, Offered, EndsWith
<1>11. CASE DisposeReturns
  BY <1>11 DEF DisposeReturns, work, counters, history, Offered, EndsWith
<1>12. CASE UNCHANGED vars
  BY <1>12 DEF vars, work, counters, history, Offered, EndsWith
<1> QED BY <1>2, <1>3, <1>4, <1>5, <1>6, <1>7, <1>8, <1>9, <1>10, <1>11, <1>12 DEF Next, SinkAnswers

\* The counters of stats() account for every job that was offered, whatever was refused,
\* retried, aborted or thrown away, as long as the queue is open.
THEOREM StatsAddUp == Spec => []StatsAccountForEveryOffer
<1>1. Counted => StatsAccountForEveryOffer
  BY DEF Counted, StatsAccountForEveryOffer, EndsWith
<1> QED BY <1>1, TypedShapeInit, TypedShapeStep, CountedInit, CountedStep, PTL DEF Spec

-----------------------------------------------------------------------------
\* settle().

\* Whoever is woken, or answered at once, finds nothing in flight and nothing waiting.
LEMMA DrainedStep ==
  ASSUME TypedShape, [Next]_vars
  PROVE  [\A s \in Settlers : settler'[s] = "resolved" /\ settler[s] # "resolved"
            => phase' = "idle" /\ pending' = <<>>]_vars
<1> SUFFICES ASSUME Next, NEW s \in Settlers, settler'[s] = "resolved", settler[s] # "resolved"
             PROVE  phase' = "idle" /\ pending' = <<>>
  OBVIOUS
<1>1. NotifyDrained => phase' = "idle" /\ pending' = <<>>
  BY DEF NotifyDrained
<1>2. ASSUME NEW verdict, Finish(verdict)
      PROVE  NotifyDrained
  BY <1>2 DEF Finish
<1>3. CASE \E j \in Jobs : RefuseDisposed(j) \/ RefuseFull(j) \/ Accept(j)
  BY <1>3 DEF RefuseDisposed, RefuseFull, Accept, promises
<1>4. CASE SinkAnswers
  BY <1>1, <1>2, <1>4 DEF SinkAnswers, SinkDelivers, SinkFails, promises
<1>5. CASE BackoffEnds
  BY <1>1, <1>2, <1>5 DEF BackoffEnds, promises
<1>6. CASE BackoffRejects
  BY <1>1, <1>6 DEF BackoffRejects
<1>7. ASSUME NEW t \in Settlers, Settle(t)
      PROVE  phase' = "idle" /\ pending' = <<>>
  BY <1>7 DEF Settle, work, TypedShape, TypeOK
<1>8. CASE Dispose
  BY <1>1, <1>8 DEF Dispose
<1>9. CASE DisposeReturns
  BY <1>1, <1>9 DEF DisposeReturns
<1> QED BY <1>3, <1>4, <1>5, <1>6, <1>7, <1>8, <1>9 DEF Next

\* settle() never resolves early, whether the queue drained, was disposed or lost its
\* worker to a rejected wait.
THEOREM SettleWaits == Spec => SettleMeansDrained
<1>1. TypedShape /\ [Next]_vars =>
        [\A s \in Settlers : settler'[s] = "resolved" /\ settler[s] # "resolved"
           => phase' = "idle" /\ pending' = <<>>]_vars
  BY DrainedStep
<1> QED BY <1>1, TypedShapeInit, TypedShapeStep, PTL DEF Spec, SettleMeansDrained
=============================================================================
