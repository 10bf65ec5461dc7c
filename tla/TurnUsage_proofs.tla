-------------------------- MODULE TurnUsage_proofs --------------------------
(***************************************************************************)
(* Proofs about TurnUsage for any counters, caps and turns: what the mail  *)
(* prints of a turn's usage never exceeds what the turn's calls reported,  *)
(* and is called complete exactly when it is.                              *)
(***************************************************************************)
EXTENDS TurnUsage, Ordinals, SequenceTheorems, FiniteSetTheorems, TLAPS

-----------------------------------------------------------------------------
\* Sums.

\* A function that adds up the numbers of v, one by one.
Adds(s, v) ==
  /\ s[0] = 0
  /\ \A n \in 1 .. Len(v) : s[n] = s[n - 1] + v[n]

\* Two sequences have the same first m numbers.
Agree(v, w, m) == \A n \in 1 .. m : v[n] = w[n]

\* The numbers of a sequence can be added up.
LEMMA SumsExist ==
  ASSUME NEW v \in Seq(Nat)
  PROVE  \E s \in [0 .. Len(v) -> Nat] : Adds(s, v)
<1> DEFINE Upto(n, s) == s[0] = 0 /\ \A k \in 1 .. n : s[k] = s[k - 1] + v[k]
           S == {n \in Nat : n <= Len(v) => \E s \in [0 .. n -> Nat] : Upto(n, s)}
<1>1. Len(v) \in Nat /\ \A n \in 1 .. Len(v) : v[n] \in Nat
  BY LenProperties, ElementOfSeq
<1>2. 0 \in S
  <2>1. [k \in 0 .. 0 |-> 0] \in [0 .. 0 -> Nat] /\ Upto(0, [k \in 0 .. 0 |-> 0])
    OBVIOUS
  <2> QED BY <2>1
<1>3. ASSUME NEW n \in Nat, n \in S
      PROVE  n + 1 \in S
  <2> SUFFICES ASSUME n + 1 <= Len(v)
               PROVE  \E s \in [0 .. n + 1 -> Nat] : Upto(n + 1, s)
    <3> HIDE DEF Upto
    <3> QED OBVIOUS
  <2>0. n <= Len(v) /\ n + 1 \in 1 .. Len(v)
    BY <1>1
  <2>1. PICK s \in [0 .. n -> Nat] : Upto(n, s)
    <3> HIDE DEF Upto
    <3> QED BY <1>3, <2>0
  <2> DEFINE t == [k \in 0 .. n + 1 |-> IF k = n + 1 THEN s[n] + v[n + 1] ELSE s[k]]
  <2>2. s[n] \in Nat /\ v[n + 1] \in Nat
    BY <1>1, <2>0, <2>1
  <2>3. t \in [0 .. n + 1 -> Nat]
    BY <2>1, <2>2
  <2>4. t[0] = 0 /\ t[n + 1] = t[n] + v[n + 1]
    BY <2>1
  <2>5. \A k \in 1 .. n : t[k] = t[k - 1] + v[k]
    BY <2>1
  <2>6. Upto(n + 1, t)
    <3> SUFFICES ASSUME NEW k \in 1 .. n + 1
                 PROVE  t[k] = t[k - 1] + v[k]
      BY <2>4
    <3>1. k \in 1 .. n \/ (k = n + 1 /\ k - 1 = n)
      OBVIOUS
    <3> HIDE DEF t
    <3> QED BY <2>4, <2>5, <3>1
  <2> HIDE DEF Upto, t
  <2> QED BY <2>3, <2>6
<1> HIDE DEF S
<1>4. Len(v) \in S
  BY <1>1, <1>2, <1>3, Induction
<1> QED BY <1>1, <1>4 DEF S, Adds

\* Two ways of adding up agree as far as the numbers do.
LEMMA SumsAgree ==
  ASSUME NEW v \in Seq(Nat), NEW w \in Seq(Nat), NEW s, NEW t, Adds(s, v), Adds(t, w),
         NEW m \in Nat, m <= Len(v), m <= Len(w)
  PROVE  Agree(v, w, m) => s[m] = t[m]
<1> HAVE Agree(v, w, m)
<1> USE DEF Agree
<1> DEFINE S == {n \in Nat : n <= m => s[n] = t[n]}
<1>1. 0 \in S
  BY DEF Adds
<1>2. ASSUME NEW n \in Nat, n \in S
      PROVE  n + 1 \in S
  <2> SUFFICES ASSUME n + 1 <= m
               PROVE  s[n + 1] = t[n + 1]
    OBVIOUS
  <2>1. Len(v) \in Nat /\ Len(w) \in Nat
    BY LenProperties
  <2>2. n + 1 \in 1 .. Len(v) /\ n + 1 \in 1 .. Len(w) /\ n + 1 \in 1 .. m /\ (n + 1) - 1 = n
    BY <2>1
  <2>3. s[n] = t[n]
    BY <1>2
  <2>4. s[n + 1] = s[n] + v[n + 1] /\ t[n + 1] = t[n] + w[n + 1]
    BY <2>2 DEF Adds
  <2> QED BY <2>2, <2>3, <2>4
<1> HIDE DEF S
<1>3. m \in S
  BY <1>1, <1>2, Induction
<1> QED BY <1>3 DEF S

\* SumOf adds up.
LEMMA SumOfAdds ==
  ASSUME NEW v \in Seq(Nat)
  PROVE  \E s \in [0 .. Len(v) -> Nat] : Adds(s, v) /\ SumOf(v) = s[Len(v)]
<1>1. Len(v) \in Nat
  BY LenProperties
<1>2. PICK s \in [0 .. Len(v) -> Nat] : Adds(s, v)
  BY SumsExist
<1>3. s = [n \in 0 .. Len(v) |-> IF n = 0 THEN 0 ELSE s[n - 1] + v[n]]
  BY <1>1, <1>2 DEF Adds
<1> DEFINE t == CHOOSE f : f = [n \in 0 .. Len(v) |-> IF n = 0 THEN 0 ELSE f[n - 1] + v[n]]
<1>4. t = [n \in 0 .. Len(v) |-> IF n = 0 THEN 0 ELSE t[n - 1] + v[n]]
  BY <1>3
<1>5. SumOf(v) = t[Len(v)]
  BY DEF SumOf
<1> HIDE DEF t
<1>6. Adds(t, v)
  <2>1. t[0] = 0
    BY <1>1, <1>4
  <2>2. ASSUME NEW n \in 1 .. Len(v)
        PROVE  t[n] = t[n - 1] + v[n]
    <3>1. n \in 0 .. Len(v) /\ n # 0
      BY <1>1
    <3> QED BY <1>4, <3>1
  <2> QED BY <2>1, <2>2 DEF Adds
<1>7. t[Len(v)] = s[Len(v)]
  <2>1. Len(v) <= Len(v) /\ Agree(v, v, Len(v))
    BY <1>1 DEF Agree
  <2> QED BY <1>1, <1>2, <1>6, <2>1, SumsAgree
<1> QED BY <1>2, <1>5, <1>7

\* Nothing adds up to nothing; sums of natural numbers are natural numbers.
LEMMA SumOfNone ==
  ASSUME NEW v \in Seq(Nat), Len(v) = 0
  PROVE  SumOf(v) = 0
<1>1. PICK s \in [0 .. Len(v) -> Nat] : Adds(s, v) /\ SumOf(v) = s[Len(v)]
  BY SumOfAdds
<1> QED BY <1>1 DEF Adds

\* The sum of natural numbers is a natural number.
LEMMA SumOfType ==
  ASSUME NEW v \in Seq(Nat)
  PROVE  SumOf(v) \in Nat
<1>1. PICK s \in [0 .. Len(v) -> Nat] : SumOf(v) = s[Len(v)]
  BY SumOfAdds
<1> QED BY <1>1, LenProperties

\* One number more is added at the end.
LEMMA SumOfOneMore ==
  ASSUME NEW v \in Seq(Nat), NEW w \in Seq(Nat), Len(w) = Len(v) + 1,
         \A n \in 1 .. Len(v) : w[n] = v[n]
  PROVE  SumOf(w) = SumOf(v) + w[Len(w)]
<1>1. Len(v) \in Nat
  BY LenProperties
<1>2. PICK s \in [0 .. Len(v) -> Nat] : Adds(s, v) /\ SumOf(v) = s[Len(v)]
  BY SumOfAdds
<1>3. PICK t \in [0 .. Len(w) -> Nat] : Adds(t, w) /\ SumOf(w) = t[Len(w)]
  BY SumOfAdds
<1>4. s[Len(v)] = t[Len(v)]
  <2>1. Len(v) <= Len(v) /\ Len(v) <= Len(w) /\ Agree(v, w, Len(v))
    BY <1>1 DEF Agree
  <2> QED BY <1>1, <1>2, <1>3, <2>1, SumsAgree
<1>5. t[Len(w)] = t[Len(v)] + w[Len(w)]
  <2>1. Len(w) \in 1 .. Len(w) /\ Len(w) - 1 = Len(v)
    BY <1>1
  <2> QED BY <1>3, <2>1 DEF Adds
<1> QED BY <1>2, <1>3, <1>4, <1>5

\* The last number is replaced.
LEMMA SumOfOtherLast ==
  ASSUME NEW v \in Seq(Nat), NEW w \in Seq(Nat), Len(w) = Len(v), Len(v) # 0,
         \A n \in 1 .. Len(v) - 1 : w[n] = v[n]
  PROVE  SumOf(w) + v[Len(v)] = SumOf(v) + w[Len(v)]
<1>1. Len(v) \in Nat \ {0} /\ Len(v) - 1 \in Nat /\ Len(v) \in 1 .. Len(v)
  BY LenProperties
<1>2. PICK s \in [0 .. Len(v) -> Nat] : Adds(s, v) /\ SumOf(v) = s[Len(v)]
  BY SumOfAdds
<1>3. PICK t \in [0 .. Len(w) -> Nat] : Adds(t, w) /\ SumOf(w) = t[Len(w)]
  BY SumOfAdds
<1>4. s[Len(v) - 1] = t[Len(v) - 1]
  <2> DEFINE m == Len(v) - 1
  <2>1. m \in Nat /\ m <= Len(v) /\ m <= Len(w) /\ Agree(v, w, m)
    BY <1>1 DEF Agree
  <2> HIDE DEF m
  <2>2. s[m] = t[m]
    BY <1>2, <1>3, <2>1, SumsAgree
  <2> QED BY <2>2 DEF m
<1>5. s[Len(v)] = s[Len(v) - 1] + v[Len(v)] /\ t[Len(v)] = t[Len(v) - 1] + w[Len(v)]
  BY <1>1, <1>2, <1>3 DEF Adds
<1>6. s[Len(v) - 1] \in Nat /\ v[Len(v)] \in Nat /\ w[Len(v)] \in Nat
  <2>1. v[Len(v)] \in Nat /\ w[Len(v)] \in Nat
    BY <1>1, ElementOfSeq
  <2>2. s[Len(v) - 1] \in Nat
    <3>1. Len(v) - 1 \in 0 .. Len(v)
      BY <1>1
    <3> QED BY <3>1
  <2> QED BY <2>1, <2>2
<1> DEFINE a == s[Len(v) - 1]
           b == v[Len(v)]
           c == w[Len(v)]
<1>7. SumOf(v) = a + b /\ SumOf(w) = a + c /\ a \in Nat /\ b \in Nat /\ c \in Nat
  BY <1>2, <1>3, <1>4, <1>5, <1>6
<1> HIDE DEF a, b, c
<1>8. SumOf(w) + b = SumOf(v) + c
  BY <1>7
<1> QED BY <1>8 DEF b, c

-----------------------------------------------------------------------------
\* The inductive invariant.

Call == [step : Nat \ {0}, outcome : {"open", "message", "attempt", "failed"},
         usage : Usages, seq : Nat, retry : Nat]

Copies == [samples : Nat, tokens : Nat, caches : Nat]

Ledger ==
  [tokens : 0 .. MaxSafe, cache : {Absent} \cup (0 .. MaxSafe), settlements : SUBSET Nat,
   sampledMessageSteps : SUBSET Nat, startedSteps : SUBSET Nat, settledSteps : SUBSET Nat,
   samples : Nat, missing : Nat, retries : Nat, overflowed : BOOLEAN, capped : BOOLEAN]

\* A call's settlement and its retry came under numbers the turn has used.
Numbered(c, n) ==
  /\ c.outcome \in {"message", "attempt"} => c.seq \in 1 .. n
  /\ c.retry \in 0 .. n

Types ==
  /\ ledger \in Ledger
  /\ steps \in SUBSET Nat
  /\ sawTurnStart \in BOOLEAN
  /\ calls \in Seq(Call)
  /\ seq \in Nat
  /\ ledger.settlements \subseteq 1 .. seq
  /\ IsFiniteSet(ledger.startedSteps)
  /\ again \in Copies
  /\ \A i \in 1 .. Len(calls) : Numbered(calls[i], seq)

\* The turn is one sequence of calls: only the last is still open, only a settled call
\* reports, what was not retried is the step's last call or one of its messages, and one
\* message of a step reports at most.
Callable(i) ==
  LET c == calls[i]
  IN  /\ c.step <= i
      /\ c.outcome = "open" => i = Len(calls)
      /\ c.usage # NoUsage => c.outcome \in {"message", "attempt"}
      /\ c.outcome = "failed" => c.retry # 0
      /\ c.outcome \in {"open", "message"} => c.retry = 0

SameStep(c, d) ==
  \/ c.retry # 0
  \/ /\ c.outcome = "message" /\ d.outcome = "message"
     /\ c.usage = NoUsage \/ d.usage = NoUsage

Ordered(i, j) ==
  /\ calls[j].step <= calls[i].step
  /\ calls[j].step = calls[i].step => SameStep(calls[j], calls[i])

World ==
  /\ \A i \in 1 .. Len(calls) : Callable(i)
  /\ \A i, j \in 1 .. Len(calls) : j < i => Ordered(i, j)

Settled == {i \in 1 .. Len(calls) : calls[i].outcome \in {"message", "attempt"}}
Retried == {i \in 1 .. Len(calls) : calls[i].retry # 0}
Unknown == {i \in Settled : calls[i].usage = NoUsage}
Full(l) == Cardinality(l.settlements) >= MaxAccountedSettlements

\* Every settlement has its place, and there are not too many.
AccountOf(l) ==
  /\ Cardinality(l.settlements) <= MaxAccountedSettlements
  /\ Cardinality(l.startedSteps) <= MaxAccountedSteps
  /\ l.samples + l.missing + l.retries = Cardinality(l.settlements)
Accounted == AccountOf(ledger)

\* A report is not sampled again: a message's step or an attempt's number is known, or
\* no sum counts any more, or nothing finds a place.
Sampled ==
  /\ \A i \in Reported :
        \/ /\ calls[i].outcome = "message"
           /\ calls[i].step \in ledger.sampledMessageSteps \/ ledger.overflowed
        \/ calls[i].outcome = "attempt" /\ calls[i].seq \in ledger.settlements
        \/ Full(ledger)
  /\ \A s \in ledger.sampledMessageSteps :
        \E i \in Reported : calls[i].step = s /\ calls[i].outcome = "message"

\* The sums are never too high, and exact while nothing was left out.
Summed ==
  /\ CacheReported = {} => CountedCaches = 0
  /\ ~ledger.overflowed =>
        /\ ledger.samples <= Samples
        /\ ledger.tokens <= CountedTokens
        /\ ledger.cache <= CountedCaches
  /\ ~ledger.overflowed /\ ~ledger.capped =>
        /\ ledger.tokens = CountedTokens
        /\ CacheReported = {} => ledger.cache = Absent
        /\ CacheReported # {} => ledger.cache = CountedCaches
        /\ Reported # {} => ledger.samples > 0

\* What reported nothing is counted.
Missed ==
  /\ ~ledger.capped => /\ ledger.missing >= Cardinality(Unknown)
                       /\ ledger.retries >= Cardinality(Retried)
  /\ ledger.missing > 0 => Unknown # {} \/ ledger.overflowed
  /\ ledger.retries > 0 => Retried # {}

\* The steps the ledger and the mail know are the turn's.
Stepped ==
  /\ \A s \in ledger.settledSteps : \E i \in Settled : calls[i].step = s
  /\ ~ledger.capped => \A i \in Settled : calls[i].step \in ledger.settledSteps
  /\ \A s \in ledger.startedSteps : \E i \in 1 .. Len(calls) : calls[i].step = s
  /\ sawTurnStart /\ ~ledger.capped =>
        \A i \in 1 .. Len(calls) : calls[i].step \in ledger.startedSteps
  /\ \A s \in steps : \E i \in 1 .. Len(calls) : calls[i].step = s
  /\ sawTurnStart => \A i \in 1 .. Len(calls) : calls[i].step \in steps

-----------------------------------------------------------------------------
\* The ledger's operators, field by field.

\* Only the mark that the ledger is full may differ.
SameFigures(l, m) ==
  /\ m.tokens = l.tokens /\ m.cache = l.cache /\ m.settlements = l.settlements
  /\ m.sampledMessageSteps = l.sampledMessageSteps /\ m.startedSteps = l.startedSteps
  /\ m.settledSteps = l.settledSteps /\ m.samples = l.samples /\ m.missing = l.missing
  /\ m.retries = l.retries /\ m.overflowed = l.overflowed

\* A settlement took its place.
Placed(l, m, key, step) ==
  /\ m.settlements = l.settlements \cup {key} /\ m.settledSteps = l.settledSteps \cup {step}
  /\ m.startedSteps = l.startedSteps /\ m.retries = l.retries /\ m.capped = l.capped
  /\ key \notin l.settlements /\ ~Full(l)

\* It did not count for the sums.
Unsampled(l, m, usage) ==
  /\ m.missing = l.missing + 1
  /\ m.samples = l.samples /\ m.tokens = l.tokens /\ m.cache = l.cache
  /\ m.sampledMessageSteps = l.sampledMessageSteps
  /\ \/ usage = NoUsage /\ m.overflowed = l.overflowed
     \/ usage # NoUsage /\ m.overflowed = TRUE

\* The optional counter took a value.
Adding(l, m, value) ==
  \/ value = Absent /\ m.cache = l.cache /\ m.overflowed = l.overflowed
  \/ value # Absent /\ l.cache = Absent /\ m.cache = value /\ m.overflowed = l.overflowed
  \/ value # Absent /\ m.cache = l.cache /\ m.overflowed = TRUE
  \/ /\ value # Absent /\ l.cache # Absent
     /\ m.cache = l.cache + value /\ m.overflowed = l.overflowed

\* Nothing else changed meanwhile.
Folded(l, m, value) ==
  /\ m.tokens = l.tokens /\ m.settlements = l.settlements
  /\ m.sampledMessageSteps = l.sampledMessageSteps
  /\ m.startedSteps = l.startedSteps /\ m.settledSteps = l.settledSteps
  /\ m.samples = l.samples /\ m.missing = l.missing /\ m.retries = l.retries
  /\ m.capped = l.capped
  /\ Adding(l, m, value)

\* It counted for the sums.
Counted(l, m, kind, step, usage) ==
  /\ usage # NoUsage
  /\ m.missing = l.missing /\ m.samples = l.samples + 1
  /\ m.tokens = l.tokens + usage.tokens
  /\ m.sampledMessageSteps =
       IF kind = "message" THEN l.sampledMessageSteps \cup {step} ELSE l.sampledMessageSteps
  /\ Adding(l, m, usage.cache)

Repeats(l, key, kind, step, usage) ==
  \/ key \in l.settlements
  \/ usage # NoUsage /\ kind = "message" /\ step \in l.sampledMessageSteps

\* What a settlement may do to the ledger.
Settles(l, m, key, kind, step, usage) ==
  \/ m = l /\ Repeats(l, key, kind, step, usage)
  \/ Full(l) /\ SameFigures(l, m) /\ m.capped = TRUE
  \/ /\ ~Repeats(l, key, kind, step, usage) /\ Placed(l, m, key, step)
     /\ Unsampled(l, m, usage) \/ Counted(l, m, kind, step, usage)

\* What a report is made of.
LEMMA UsageFields ==
  ASSUME NEW usage \in Usages
  PROVE  \/ usage = NoUsage
         \/ /\ usage # NoUsage /\ usage.tokens \in 0 .. MaxSafe
            /\ usage.cache \in {Absent} \cup (0 .. MaxSafe)
  BY UsageAssumption DEF Usages, NoUsage

\* foldOptional touches the optional counter only, or poisons the aggregate.
LEMMA FoldOptionalIs ==
  ASSUME NEW l \in Ledger, NEW value \in {Absent} \cup (0 .. MaxSafe)
  PROVE  FoldOptional(l, value) \in Ledger /\ Folded(l, FoldOptional(l, value), value)
<1> USE UsageAssumption DEF FoldOptional, Folded, Adding, Ledger, Absent
<1>1. CASE value = Absent
  BY <1>1
<1>2. CASE value # Absent /\ l.cache = Absent
  BY <1>2
<1>3. CASE value # Absent /\ l.cache # Absent /\ l.cache + value > MaxSafe
  BY <1>3
<1>4. CASE value # Absent /\ l.cache # Absent /\ ~(l.cache + value > MaxSafe)
  BY <1>4
<1> QED BY <1>1, <1>2, <1>3, <1>4

\* addSettlement ignores, refuses, or places a settlement, counted or missing.
LEMMA AddSettlementIs ==
  ASSUME NEW l \in Ledger, NEW key \in Nat, NEW kind, NEW step \in Nat, NEW usage \in Usages
  PROVE  LET m == AddSettlement(l, key, kind, step, usage)
         IN  m \in Ledger /\ Settles(l, m, key, kind, step, usage)
<1> DEFINE m == AddSettlement(l, key, kind, step, usage)
           known == [l EXCEPT !.settlements = @ \cup {key}, !.settledSteps = @ \cup {step}]
<1>1. known \in Ledger
  BY DEF Ledger
<1>2. CASE Repeats(l, key, kind, step, usage)
  <2>1. m = l
    BY <1>2 DEF AddSettlement, Repeats
  <2> HIDE DEF m
  <2> QED BY <1>2, <2>1 DEF m, Settles
<1>3. CASE ~Repeats(l, key, kind, step, usage) /\ Full(l)
  <2>1. m = [l EXCEPT !.capped = TRUE]
    BY <1>3 DEF AddSettlement, Repeats, Full
  <2> HIDE DEF m
  <2>2. m \in Ledger /\ SameFigures(l, m) /\ m.capped = TRUE
    BY <2>1 DEF Ledger, SameFigures
  <2> QED BY <1>3, <2>2 DEF m, Settles
<1>4. CASE ~Repeats(l, key, kind, step, usage) /\ ~Full(l) /\ usage = NoUsage
  <2>1. m = [known EXCEPT !.missing = @ + 1]
    BY <1>4 DEF AddSettlement, Repeats, Full
  <2>2. key \notin l.settlements /\ ~Full(l)
    BY <1>4 DEF Repeats
  <2> HIDE DEF m
  <2>3. m \in Ledger
    <3>1. known.missing + 1 \in Nat
      BY <1>1 DEF Ledger
    <3> HIDE DEF known
    <3> QED BY <1>1, <2>1, <3>1 DEF Ledger
  <2>4. Placed(l, m, key, step) /\ Unsampled(l, m, usage)
    BY <1>1, <1>4, <2>1, <2>2 DEF Ledger, Placed, Unsampled
  <2> QED BY <1>4, <2>3, <2>4 DEF m, Settles
<1>5. CASE ~Repeats(l, key, kind, step, usage) /\ ~Full(l) /\ usage # NoUsage
  <2>1. usage.tokens \in 0 .. MaxSafe /\ usage.cache \in {Absent} \cup (0 .. MaxSafe)
    BY <1>5, UsageFields
  <2>2. key \notin l.settlements /\ ~Full(l)
    BY <1>5 DEF Repeats
  <2>3. CASE l.tokens + usage.tokens > MaxSafe
    <3>1. m = [known EXCEPT !.overflowed = TRUE, !.missing = @ + 1]
      BY <1>5, <2>3 DEF AddSettlement, Repeats, Full
    <3> HIDE DEF m
    <3>2. m \in Ledger
      <4>1. known.missing + 1 \in Nat
        BY <1>1 DEF Ledger
      <4> HIDE DEF known
      <4> QED BY <1>1, <3>1, <4>1 DEF Ledger
    <3>3. Placed(l, m, key, step) /\ Unsampled(l, m, usage)
      BY <1>1, <1>5, <2>2, <3>1 DEF Ledger, Placed, Unsampled
    <3> QED BY <1>5, <3>2, <3>3 DEF m, Settles
  <2>4. CASE ~(l.tokens + usage.tokens > MaxSafe)
    <3> DEFINE k == FoldOptional(known, usage.cache)
    <3>1. m = [k EXCEPT !.tokens = @ + usage.tokens, !.samples = @ + 1,
                        !.sampledMessageSteps = IF kind = "message" THEN @ \cup {step} ELSE @]
      BY <1>5, <2>4 DEF AddSettlement, Repeats, Full
    <3>2. known.cache = l.cache /\ known.tokens = l.tokens /\ known.overflowed = l.overflowed
          /\ known.settlements = l.settlements \cup {key}
          /\ known.settledSteps = l.settledSteps \cup {step}
          /\ known.sampledMessageSteps = l.sampledMessageSteps
          /\ known.startedSteps = l.startedSteps /\ known.samples = l.samples
          /\ known.missing = l.missing /\ known.retries = l.retries /\ known.capped = l.capped
      BY DEF Ledger
    <3> HIDE DEF known, m
    <3>3. k \in Ledger /\ Folded(known, k, usage.cache)
      BY <1>1, <2>1, FoldOptionalIs
    <3> HIDE DEF k
    <3>4. m.tokens = k.tokens + usage.tokens /\ m.samples = k.samples + 1
          /\ m.sampledMessageSteps =
               (IF kind = "message" THEN k.sampledMessageSteps \cup {step}
                ELSE k.sampledMessageSteps)
          /\ m.cache = k.cache /\ m.settlements = k.settlements
          /\ m.settledSteps = k.settledSteps /\ m.startedSteps = k.startedSteps
          /\ m.missing = k.missing /\ m.retries = k.retries
          /\ m.overflowed = k.overflowed /\ m.capped = k.capped
      BY <3>1, <3>3 DEF Ledger
    <3>5. m \in Ledger
      <4>1. k.tokens + usage.tokens \in 0 .. MaxSafe /\ k.samples + 1 \in Nat
        BY <2>1, <2>4, <3>2, <3>3, UsageAssumption DEF Ledger, Folded
      <4> QED BY <3>1, <3>3, <4>1 DEF Ledger
    <3>6. Placed(l, m, key, step)
      BY <2>2, <3>2, <3>3, <3>4 DEF Placed, Folded
    <3>7. Counted(l, m, kind, step, usage)
      BY <1>5, <3>2, <3>3, <3>4 DEF Counted, Folded, Adding
    <3> QED BY <1>5, <3>5, <3>6, <3>7 DEF m, Settles
  <2> QED BY <2>3, <2>4
<1> QED BY <1>2, <1>3, <1>4, <1>5

\* noteRetry ignores, refuses, or places a retry.
LEMMA NoteRetryIs ==
  ASSUME NEW l \in Ledger, NEW key \in Nat
  PROVE  LET m == NoteRetry(l, key)
         IN  /\ m \in Ledger
             /\ \/ m = l /\ key \in l.settlements
                \/ Full(l) /\ SameFigures(l, m) /\ m.capped = TRUE
                \/ /\ key \notin l.settlements /\ ~Full(l)
                   /\ m = [l EXCEPT !.settlements = @ \cup {key}, !.retries = @ + 1]
<1>1. CASE key \in l.settlements
  BY <1>1 DEF NoteRetry
<1>2. CASE key \notin l.settlements /\ Full(l)
  BY <1>2 DEF NoteRetry, Ledger, SameFigures, Full
<1>3. CASE key \notin l.settlements /\ ~Full(l)
  <2>1. l.retries + 1 \in Nat /\ l.settlements \cup {key} \in SUBSET Nat
    BY DEF Ledger
  <2>2. NoteRetry(l, key) = [l EXCEPT !.settlements = @ \cup {key}, !.retries = @ + 1]
    BY <1>3 DEF NoteRetry, Full
  <2>3. NoteRetry(l, key) \in Ledger
    BY <2>1, <2>2 DEF Ledger
  <2> QED BY <1>3, <2>2, <2>3
<1> QED BY <1>1, <1>2, <1>3

\* noteStepStarted remembers the step, or that there are too many.
LEMMA NoteStepStartedIs ==
  ASSUME NEW l \in Ledger, NEW step \in Nat
  PROVE  LET m == NoteStepStarted(l, step)
         IN  /\ m \in Ledger
             /\ \/ SameFigures(l, m) /\ m.capped = TRUE
                \/ /\ ~(Cardinality(l.startedSteps) >= MaxAccountedSteps)
                   /\ m = [l EXCEPT !.startedSteps = @ \cup {step}]
<1>1. CASE Cardinality(l.startedSteps) >= MaxAccountedSteps
  BY <1>1 DEF NoteStepStarted, Ledger, SameFigures
<1>2. CASE ~(Cardinality(l.startedSteps) >= MaxAccountedSteps)
  BY <1>2 DEF NoteStepStarted, Ledger
<1> QED BY <1>1, <1>2
-----------------------------------------------------------------------------
\* The calls of the turn, after each of its steps.

\* The last call, where there is one.
LEMMA LastIs ==
  ASSUME Types
  PROVE  /\ Len(calls) \in Nat /\ LastStep \in Nat
         /\ calls = <<>> => Len(calls) = 0 /\ LastStep = 0
         /\ calls # <<>> => /\ Len(calls) \in 1 .. Len(calls)
                            /\ calls[Len(calls)] \in Call
                            /\ LastStep = calls[Len(calls)].step
                            /\ LastStep \in Nat \ {0}
<1>1. calls \in Seq(Call)
  BY DEF Types
<1>2. Len(calls) \in Nat
  BY <1>1, LenProperties
<1>3. CASE calls = <<>>
  BY <1>3, EmptySeq DEF LastStep
<1>4. CASE calls # <<>>
  <2>1. Len(calls) \in 1 .. Len(calls)
    BY <1>1, <1>2, <1>4, EmptySeq
  <2>2. calls[Len(calls)] \in Call
    BY <1>1, <2>1, ElementOfSeq
  <2>3. LastStep = calls[Len(calls)].step
    BY <1>4 DEF LastStep
  <2>4. calls[Len(calls)].step \in Nat \ {0}
    BY <2>2 DEF Call
  <2> QED BY <1>2, <1>4, <2>1, <2>2, <2>3, <2>4
<1> QED BY <1>2, <1>3, <1>4

\* A call that is under way.
LEMMA OpenCallIs ==
  ASSUME NEW step \in Nat \ {0}
  PROVE  /\ OpenCall(step) \in Call
         /\ OpenCall(step).step = step /\ OpenCall(step).outcome = "open"
         /\ OpenCall(step).usage = NoUsage /\ OpenCall(step).retry = 0
  BY DEF OpenCall, Call, Usages

\* A step starts: one open call more.
LEMMA AfterStepStart ==
  ASSUME Types, StepStart
  PROVE  /\ calls' \in Seq(Call) /\ Len(calls') = Len(calls) + 1
         /\ \A i \in 1 .. Len(calls) : calls'[i] = calls[i]
         /\ calls'[Len(calls) + 1] = OpenCall(LastStep + 1)
         /\ LastStep + 1 \in Nat \ {0}
<1>1. LastStep + 1 \in Nat \ {0}
  BY LastIs
<1>2. OpenCall(LastStep + 1) \in Call /\ calls \in Seq(Call)
  BY <1>1, OpenCallIs DEF Types
<1>3. calls' = Append(calls, OpenCall(LastStep + 1))
  BY DEF StepStart
<1> QED BY <1>1, <1>2, <1>3, AppendProperties

\* The last call settles; the others stay as they are.
LEMMA AfterCallSettles ==
  ASSUME Types, NEW kind \in {"message", "attempt"}, NEW usage \in Usages, CallSettles(kind, usage)
  PROVE  /\ calls' \in Seq(Call) /\ Len(calls') = Len(calls)
         /\ Len(calls) \in 1 .. Len(calls) /\ LastStep \in Nat \ {0}
         /\ calls[Len(calls)].step = LastStep /\ calls[Len(calls)].outcome = "open"
         /\ \A i \in 1 .. Len(calls) : i # Len(calls) => calls'[i] = calls[i]
         /\ calls'[Len(calls)].step = LastStep /\ calls'[Len(calls)].outcome = kind
         /\ calls'[Len(calls)].usage = usage /\ calls'[Len(calls)].seq = seq + 1
         /\ calls'[Len(calls)].retry = calls[Len(calls)].retry
<1> DEFINE k == Len(calls)
           last == [calls[k] EXCEPT !.outcome = kind, !.usage = usage, !.seq = seq + 1]
<1>1. calls # <<>> /\ calls[k].outcome = "open"
  BY DEF CallSettles, LastIn
<1>2. k \in 1 .. k /\ calls[k] \in Call /\ LastStep = calls[k].step /\ LastStep \in Nat \ {0}
  BY <1>1, LastIs
<1>3. last \in Call /\ last.step = LastStep /\ last.outcome = kind /\ last.usage = usage
      /\ last.seq = seq + 1 /\ last.retry = calls[k].retry
  <2>1. seq + 1 \in Nat
    BY DEF Types
  <2> QED BY <1>2, <2>1 DEF Call
<1>4. calls' = [calls EXCEPT ![k] = last]
  BY DEF CallSettles
<1>5. calls \in Seq(Call)
  BY DEF Types
<1> HIDE DEF last, k
<1>6. calls' \in Seq(Call) /\ Len(calls') = Len(calls) /\ calls'[k] = last
      /\ \A i \in 1 .. Len(calls) : i # k => calls'[i] = calls[i]
  <2>1. k \in 1 .. Len(calls)
    BY <1>2 DEF k
  <2> QED BY <1>3, <1>4, <1>5, <2>1, ExceptSeq
<1> QED BY <1>1, <1>2, <1>3, <1>6 DEF k

\* The step of the last call, a message, settles once more.
LEMMA AfterSettlesAgain ==
  ASSUME Types, NEW usage \in Usages, SettlesAgain(usage)
  PROVE  /\ calls' \in Seq(Call) /\ Len(calls') = Len(calls) + 1
         /\ Len(calls) \in 1 .. Len(calls) /\ LastStep \in Nat \ {0}
         /\ calls[Len(calls)].step = LastStep /\ calls[Len(calls)].outcome = "message"
         /\ \A i \in 1 .. Len(calls) : calls'[i] = calls[i]
         /\ calls'[Len(calls) + 1].step = LastStep
         /\ calls'[Len(calls) + 1].outcome = "message"
         /\ calls'[Len(calls) + 1].usage = usage /\ calls'[Len(calls) + 1].seq = seq + 1
         /\ calls'[Len(calls) + 1].retry = 0
<1> DEFINE k == Len(calls)
           more == [OpenCall(LastStep) EXCEPT
                      !.outcome = "message", !.usage = usage, !.seq = seq + 1]
<1>1. calls # <<>> /\ calls[k].outcome = "message"
  BY DEF SettlesAgain, LastIn
<1>2. k \in 1 .. k /\ calls[k] \in Call /\ LastStep = calls[k].step /\ LastStep \in Nat \ {0}
  BY <1>1, LastIs
<1>3. more \in Call /\ more.step = LastStep /\ more.outcome = "message" /\ more.usage = usage
      /\ more.seq = seq + 1 /\ more.retry = 0
  <2>1. seq + 1 \in Nat
    BY DEF Types
  <2> QED BY <1>2, <2>1 DEF OpenCall, Call
<1>4. calls' = Append(calls, more) /\ calls \in Seq(Call)
  BY DEF SettlesAgain, Types
<1> HIDE DEF more
<1>5. calls' \in Seq(Call) /\ Len(calls') = Len(calls) + 1
      /\ (\A i \in 1 .. Len(calls) : calls'[i] = calls[i]) /\ calls'[Len(calls) + 1] = more
  BY <1>3, <1>4, AppendProperties
<1> QED BY <1>1, <1>2, <1>3, <1>5

\* The last call failed, or was an attempt, and the same step calls again.
LEMMA AfterCallRetried ==
  ASSUME Types, CallRetried
  PROVE  /\ calls' \in Seq(Call) /\ Len(calls') = Len(calls) + 1
         /\ Len(calls) \in 1 .. Len(calls) /\ LastStep \in Nat \ {0}
         /\ calls[Len(calls)].step = LastStep
         /\ \/ calls[Len(calls)].outcome = "open" /\ calls'[Len(calls)].outcome = "failed"
            \/ /\ calls[Len(calls)].outcome = "attempt" /\ calls[Len(calls)].retry = 0
               /\ calls'[Len(calls)].outcome = "attempt"
         /\ \A i \in 1 .. Len(calls) : i # Len(calls) => calls'[i] = calls[i]
         /\ calls'[Len(calls)].step = LastStep
         /\ calls'[Len(calls)].usage = calls[Len(calls)].usage
         /\ calls'[Len(calls)].seq = calls[Len(calls)].seq
         /\ calls'[Len(calls)].retry = seq + 1
         /\ calls'[Len(calls) + 1] = OpenCall(LastStep)
<1> DEFINE k == Len(calls)
           outcome == IF calls[k].outcome = "open" THEN "failed" ELSE calls[k].outcome
           last == [calls[k] EXCEPT
                      !.outcome = IF calls[k].outcome = "open" THEN "failed" ELSE calls[k].outcome,
                      !.retry = seq + 1]
           before == [calls EXCEPT ![k] = last]
<1>1. /\ calls # <<>>
      /\ \/ calls[k].outcome = "open"
         \/ calls[k].outcome = "attempt" /\ calls[k].retry = 0
  BY DEF CallRetried, LastIn
<1>2. k \in 1 .. k /\ calls[k] \in Call /\ LastStep = calls[k].step /\ LastStep \in Nat \ {0}
  BY <1>1, LastIs
<1>3. last \in Call /\ last.step = LastStep /\ last.outcome = outcome
      /\ last.usage = calls[k].usage /\ last.seq = calls[k].seq /\ last.retry = seq + 1
  <2>1. seq + 1 \in Nat
    BY DEF Types
  <2> QED BY <1>2, <2>1 DEF Call
<1>4. calls' = Append(before, OpenCall(LastStep))
  BY DEF CallRetried
<1>5. calls \in Seq(Call) /\ OpenCall(LastStep) \in Call
  BY <1>2, OpenCallIs DEF Types
<1>6. \/ calls[k].outcome = "open" /\ outcome = "failed"
      \/ calls[k].outcome = "attempt" /\ calls[k].retry = 0 /\ outcome = "attempt"
  BY <1>1
<1> HIDE DEF last, k, outcome
<1>7. before \in Seq(Call) /\ Len(before) = Len(calls) /\ before[k] = last
      /\ \A i \in 1 .. Len(calls) : i # k => before[i] = calls[i]
  <2>1. k \in 1 .. Len(calls)
    BY <1>2 DEF k
  <2> QED BY <1>3, <1>5, <2>1, ExceptSeq
<1> HIDE DEF before
<1>8. calls' \in Seq(Call) /\ Len(calls') = Len(calls) + 1
      /\ (\A i \in 1 .. Len(calls) : calls'[i] = before[i])
      /\ calls'[Len(calls) + 1] = OpenCall(LastStep)
  BY <1>4, <1>5, <1>7, AppendProperties
<1>9. calls'[k] = last /\ \A i \in 1 .. Len(calls) : i # k => calls'[i] = calls[i]
  BY <1>2, <1>7, <1>8 DEF k
<1> QED BY <1>2, <1>3, <1>6, <1>8, <1>9 DEF k

\* A replay adds no call and comes under a number the turn has used by then.
LEMMA AfterReplay ==
  ASSUME Types, NEW i \in 1 .. Len(calls), NEW fresh \in BOOLEAN,
         SettlementReplayed(i, fresh) \/ RetryReplayed(i, fresh)
  PROVE  /\ calls' = calls /\ calls[i] \in Call
         /\ SettlementReplayed(i, fresh) => NumberOf(calls[i].seq, fresh) \in 1 .. seq'
         /\ RetryReplayed(i, fresh) => NumberOf(calls[i].retry, fresh) \in 1 .. seq'
         /\ seq' \in Nat /\ seq <= seq'
<1>1. calls[i] \in Call /\ seq \in Nat
  BY ElementOfSeq DEF Types
<1>2. Numbered(calls[i], seq)
  BY DEF Types
<1>3. seq' = (IF fresh THEN seq + 1 ELSE seq) /\ calls' = calls
  BY DEF SettlementReplayed, RetryReplayed, SeenAgain
<1>4. SettlementReplayed(i, fresh) => calls[i].seq \in 1 .. seq
  BY <1>2 DEF SettlementReplayed, Numbered
<1>5. RetryReplayed(i, fresh) => calls[i].retry \in 1 .. seq
  <2>1. RetryReplayed(i, fresh) => calls[i].retry # 0
    BY DEF RetryReplayed
  <2> QED BY <1>1, <1>2, <2>1 DEF Numbered
<1> QED BY <1>1, <1>3, <1>4, <1>5 DEF NumberOf
-----------------------------------------------------------------------------
\* Every settlement has its place.

\* A new settlement takes one place of the ledger.
LEMMA OnePlaceTaken ==
  ASSUME NEW l \in Ledger, NEW n \in Nat, l.settlements \subseteq 1 .. n, NEW key \in 1 .. n
  PROVE  /\ IsFiniteSet(l.settlements) /\ Cardinality(l.settlements) \in Nat
         /\ l.settlements \cup {key} \subseteq 1 .. n
         /\ key \notin l.settlements =>
              Cardinality(l.settlements \cup {key}) = Cardinality(l.settlements) + 1
         /\ ~Full(l) => Cardinality(l.settlements) + 1 <= MaxAccountedSettlements
<1>1. IsFiniteSet(l.settlements)
  <2>1. IsFiniteSet(1 .. n)
    BY FS_Interval
  <2> QED BY <2>1, FS_Subset
<1>2. Cardinality(l.settlements) \in Nat
  BY <1>1, FS_CardinalityType
<1>3. key \notin l.settlements =>
        Cardinality(l.settlements \cup {key}) = Cardinality(l.settlements) + 1
  BY <1>1, FS_AddElement
<1> QED BY <1>1, <1>2, <1>3, UsageAssumption DEF Full

\* A settlement keeps the account ...
LEMMA SettlingKeepsAccount ==
  ASSUME NEW l \in Ledger, NEW m \in Ledger, NEW n \in Nat, l.settlements \subseteq 1 .. n,
         NEW key \in 1 .. n, NEW kind, NEW step \in Nat, NEW usage \in Usages,
         Settles(l, m, key, kind, step, usage), AccountOf(l)
  PROVE  AccountOf(m) /\ m.settlements \subseteq 1 .. n /\ m.startedSteps = l.startedSteps
<1>1. CASE m = l
  BY <1>1
<1>2. CASE SameFigures(l, m)
  BY <1>2 DEF AccountOf, SameFigures
<1>3. CASE Placed(l, m, key, step) /\ (Unsampled(l, m, usage) \/ Counted(l, m, kind, step, usage))
  <2> DEFINE a == l.samples
             b == l.missing
             c == l.retries
             d == Cardinality(l.settlements)
  <2>1. /\ m.settlements = l.settlements \cup {key} /\ m.startedSteps = l.startedSteps
        /\ key \notin l.settlements /\ ~Full(l) /\ m.retries = c
    BY <1>3 DEF Placed
  <2>2. Cardinality(m.settlements) = d + 1 /\ d + 1 <= MaxAccountedSettlements /\ d \in Nat
    BY <2>1, OnePlaceTaken
  <2>3. \/ m.samples = a /\ m.missing = b + 1
        \/ m.samples = a + 1 /\ m.missing = b
    BY <1>3 DEF Unsampled, Counted
  <2>4. a \in Nat /\ b \in Nat /\ c \in Nat /\ a + b + c = d
    BY DEF Ledger, AccountOf
  <2> HIDE DEF a, b, c, d
  <2>5. m.samples + m.missing + m.retries = d + 1
    BY <2>1, <2>3, <2>4
  <2>6. m.settlements \subseteq 1 .. n
    BY <2>1
  <2> QED BY <2>1, <2>2, <2>5, <2>6 DEF AccountOf
<1> QED BY <1>1, <1>2, <1>3 DEF Settles

\* ... and so does a retry.
LEMMA RetryingKeepsAccount ==
  ASSUME NEW l \in Ledger, NEW n \in Nat, l.settlements \subseteq 1 .. n,
         NEW key \in 1 .. n, AccountOf(l)
  PROVE  LET m == NoteRetry(l, key)
         IN  /\ m \in Ledger
             /\ AccountOf(m) /\ m.settlements \subseteq 1 .. n /\ m.startedSteps = l.startedSteps
<1> DEFINE m == NoteRetry(l, key)
<1>1. /\ m \in Ledger
      /\ \/ m = l /\ key \in l.settlements
         \/ Full(l) /\ SameFigures(l, m) /\ m.capped = TRUE
         \/ /\ key \notin l.settlements /\ ~Full(l)
            /\ m = [l EXCEPT !.settlements = @ \cup {key}, !.retries = @ + 1]
  <2>1. key \in Nat
    OBVIOUS
  <2> QED BY <2>1, NoteRetryIs
<1>2. CASE m = l
  BY <1>1, <1>2
<1>3. CASE SameFigures(l, m)
  <2> HIDE DEF m
  <2>1. AccountOf(m) /\ m.settlements = l.settlements /\ m.startedSteps = l.startedSteps
    BY <1>3 DEF AccountOf, SameFigures
  <2> QED BY <1>1, <2>1 DEF m
<1>4. CASE /\ key \notin l.settlements /\ ~Full(l)
           /\ m = [l EXCEPT !.settlements = @ \cup {key}, !.retries = @ + 1]
  <2> HIDE DEF m
  <2> DEFINE a == l.samples
             b == l.missing
             c == l.retries
             d == Cardinality(l.settlements)
  <2>1. /\ m.settlements = l.settlements \cup {key} /\ m.startedSteps = l.startedSteps
        /\ m.samples = a /\ m.missing = b /\ m.retries = c + 1
    BY <1>4 DEF Ledger
  <2>2. Cardinality(m.settlements) = d + 1 /\ d + 1 <= MaxAccountedSettlements /\ d \in Nat
    BY <1>4, <2>1, OnePlaceTaken
  <2>3. a \in Nat /\ b \in Nat /\ c \in Nat /\ a + b + c = d
    BY DEF Ledger, AccountOf
  <2> HIDE DEF a, b, c, d
  <2>4. m.samples + m.missing + m.retries = d + 1
    BY <2>1, <2>3
  <2>5. m.settlements \subseteq 1 .. n
    BY <2>1
  <2>6. AccountOf(m)
    BY <2>1, <2>2, <2>4 DEF AccountOf
  <2> QED BY <1>1, <2>1, <2>5, <2>6 DEF m
<1> QED BY <1>1, <1>2, <1>3, <1>4

\* A number used is used for good.
LEMMA StaysNumbered ==
  ASSUME NEW n \in Nat, NEW m \in Nat, n <= m, NEW c, Numbered(c, n)
  PROVE  Numbered(c, m)
  BY DEF Numbered

\* Types and account hold first ...
LEMMA TypesInit == Init => Types /\ Accounted
<1> SUFFICES ASSUME Init
             PROVE  Types /\ Accounted
  OBVIOUS
<1>1. /\ calls \in Seq(Call)
      /\ \A i \in 1 .. Len(calls) : calls[i].outcome = "open" /\ calls[i].retry = 0
  <2>1. CASE calls = <<>>
    BY <2>1, EmptySeq
  <2>2. CASE calls = <<OpenCall(1)>>
    <3>1. OpenCall(1) \in Call /\ OpenCall(1).outcome = "open" /\ OpenCall(1).retry = 0
      BY OpenCallIs
    <3> QED BY <2>2, <3>1
  <2> QED BY <2>1, <2>2 DEF Init
<1>2. ledger \in Ledger /\ ledger.settlements = {} /\ ledger.startedSteps = {}
      /\ ledger.samples = 0 /\ ledger.missing = 0 /\ ledger.retries = 0
  BY UsageAssumption DEF Init, EmptyLedger, Ledger, Absent
<1>3. Cardinality({}) = 0 /\ IsFiniteSet({})
  BY FS_EmptySet
<1>4. Types
  <2>1. seq = 0 /\ again \in Copies
    BY DEF Init, Copies
  <2>2. \A i \in 1 .. Len(calls) : Numbered(calls[i], seq)
    BY <1>1, <2>1 DEF Numbered
  <2>3. ledger.settlements \subseteq 1 .. seq
    BY <1>2
  <2>4. seq \in Nat
    BY <2>1
  <2>5. IsFiniteSet(ledger.startedSteps)
    BY <1>2, <1>3
  <2>6. steps \in SUBSET Nat /\ sawTurnStart \in BOOLEAN
    BY DEF Init
  <2> QED BY <1>1, <1>2, <2>1, <2>2, <2>3, <2>4, <2>5, <2>6 DEF Types
<1>5. AccountOf(ledger)
  BY <1>2, <1>3, UsageAssumption DEF AccountOf
<1> QED BY <1>4, <1>5 DEF Accounted

\* ... and after each action.
LEMMA TypesStepStart ==
  ASSUME Types, Accounted, StepStart
  PROVE  Types' /\ Accounted'
<1>1. /\ calls' \in Seq(Call) /\ Len(calls') = Len(calls) + 1
      /\ \A i \in 1 .. Len(calls) : calls'[i] = calls[i]
      /\ calls'[Len(calls) + 1] = OpenCall(LastStep + 1)
      /\ LastStep + 1 \in Nat \ {0}
  BY AfterStepStart
<1>2. ledger' = NoteStepStarted(ledger, LastStep + 1) /\ seq' = seq
      /\ steps' = steps \cup {LastStep + 1} /\ sawTurnStart' = sawTurnStart /\ again' = again
  BY DEF StepStart, MarkStep
<1>3. ledger' \in Ledger /\ ledger'.settlements = ledger.settlements
      /\ ledger'.samples = ledger.samples /\ ledger'.missing = ledger.missing
      /\ ledger'.retries = ledger.retries
      /\ \/ ledger'.startedSteps = ledger.startedSteps
         \/ /\ ~(Cardinality(ledger.startedSteps) >= MaxAccountedSteps)
            /\ ledger'.startedSteps = ledger.startedSteps \cup {LastStep + 1}
  <2>1. ledger \in Ledger /\ LastStep + 1 \in Nat
    BY <1>1 DEF Types
  <2> DEFINE m == NoteStepStarted(ledger, LastStep + 1)
  <2>2. /\ m \in Ledger
        /\ \/ SameFigures(ledger, m) /\ m.capped = TRUE
           \/ /\ ~(Cardinality(ledger.startedSteps) >= MaxAccountedSteps)
              /\ m = [ledger EXCEPT !.startedSteps = @ \cup {LastStep + 1}]
    BY <2>1, NoteStepStartedIs
  <2> HIDE DEF m
  <2>3. ledger' = m
    BY <1>2 DEF m
  <2> QED BY <2>1, <2>2, <2>3 DEF SameFigures, Ledger
<1>4. IsFiniteSet(ledger'.startedSteps)
      /\ Cardinality(ledger'.startedSteps) <= MaxAccountedSteps
  <2>1. IsFiniteSet(ledger.startedSteps) /\ Cardinality(ledger.startedSteps) \in Nat
        /\ Cardinality(ledger.startedSteps) <= MaxAccountedSteps
    BY FS_CardinalityType DEF Types, Accounted, AccountOf
  <2>2. IsFiniteSet(ledger.startedSteps \cup {LastStep + 1})
        /\ Cardinality(ledger.startedSteps \cup {LastStep + 1})
             \in {Cardinality(ledger.startedSteps), Cardinality(ledger.startedSteps) + 1}
    BY <2>1, FS_AddElement
  <2>3. CASE ledger'.startedSteps = ledger.startedSteps
    BY <2>1, <2>3
  <2>4. CASE /\ ~(Cardinality(ledger.startedSteps) >= MaxAccountedSteps)
             /\ ledger'.startedSteps = ledger.startedSteps \cup {LastStep + 1}
    <3>1. Cardinality(ledger.startedSteps) + 1 <= MaxAccountedSteps
      BY <2>1, <2>4, UsageAssumption
    <3> QED BY <2>1, <2>2, <2>4, <3>1
  <2> QED BY <1>3, <2>3, <2>4
<1>5. \A i \in 1 .. Len(calls') : Numbered(calls'[i], seq')
  <2> SUFFICES ASSUME NEW i \in 1 .. Len(calls')
               PROVE  Numbered(calls'[i], seq')
    OBVIOUS
  <2>1. CASE i = Len(calls) + 1
    BY <1>1, <1>2, <2>1, OpenCallIs DEF Numbered, Types
  <2>2. CASE i # Len(calls) + 1
    <3>1. i \in 1 .. Len(calls) /\ calls'[i] = calls[i]
      BY <1>1, <2>2, LastIs
    <3> QED BY <1>2, <3>1 DEF Types
  <2> QED BY <2>1, <2>2
<1>6. Types'
  BY <1>1, <1>2, <1>3, <1>4, <1>5 DEF Types
<1>7. AccountOf(ledger')
  BY <1>3, <1>4 DEF Accounted, AccountOf
<1> QED BY <1>6, <1>7 DEF Accounted

\* The settlement of a call.
LEMMA TypesSettlement ==
  ASSUME Types, Accounted, NEW kind \in {"message", "attempt"}, NEW usage \in Usages,
         LastStep \in Nat, Settlement(kind, usage), calls' \in Seq(Call),
         \A i \in 1 .. Len(calls') : Numbered(calls'[i], seq + 1)
  PROVE  Types' /\ Accounted'
<1>1. ledger' = AddSettlement(ledger, seq + 1, kind, LastStep, usage) /\ seq' = seq + 1
      /\ steps' = steps \cup {LastStep} /\ sawTurnStart' = sawTurnStart /\ again' = again
  BY DEF Settlement, MarkStep
<1>2. /\ ledger \in Ledger /\ seq + 1 \in Nat /\ seq + 1 \in 1 .. seq + 1
      /\ ledger.settlements \subseteq 1 .. seq + 1
  BY DEF Types
<1>3. ledger' \in Ledger /\ Settles(ledger, ledger', seq + 1, kind, LastStep, usage)
  BY <1>1, <1>2, AddSettlementIs
<1>4. /\ AccountOf(ledger') /\ ledger'.settlements \subseteq 1 .. seq + 1
      /\ ledger'.startedSteps = ledger.startedSteps
  BY <1>2, <1>3, SettlingKeepsAccount DEF Accounted
<1>5. Types'
  BY <1>1, <1>2, <1>3, <1>4 DEF Types
<1> QED BY <1>4, <1>5 DEF Accounted

\* The call under way settles.
LEMMA TypesCallSettles ==
  ASSUME Types, Accounted, NEW kind \in {"message", "attempt"}, NEW usage \in Usages,
         CallSettles(kind, usage)
  PROVE  Types' /\ Accounted'
<1>1. /\ calls' \in Seq(Call) /\ Len(calls') = Len(calls)
      /\ Len(calls) \in 1 .. Len(calls) /\ LastStep \in Nat \ {0}
      /\ \A i \in 1 .. Len(calls) : i # Len(calls) => calls'[i] = calls[i]
      /\ calls'[Len(calls)].seq = seq + 1
      /\ calls'[Len(calls)].retry = calls[Len(calls)].retry
  BY AfterCallSettles
<1>2. seq \in Nat /\ seq + 1 \in 1 .. seq + 1
  BY DEF Types
<1>3. \A i \in 1 .. Len(calls') : Numbered(calls'[i], seq + 1)
  <2> SUFFICES ASSUME NEW i \in 1 .. Len(calls')
               PROVE  Numbered(calls'[i], seq + 1)
    OBVIOUS
  <2>1. Numbered(calls[i], seq + 1)
    <3>1. Numbered(calls[i], seq)
      BY <1>1 DEF Types
    <3> QED BY <1>2, <3>1, StaysNumbered
  <2>2. CASE i = Len(calls)
    BY <1>1, <1>2, <2>1, <2>2 DEF Numbered
  <2>3. CASE i # Len(calls)
    BY <1>1, <2>1, <2>3
  <2> QED BY <2>2, <2>3
<1> QED BY <1>1, <1>3, TypesSettlement DEF CallSettles

\* The step settles once more.
LEMMA TypesSettlesAgain ==
  ASSUME Types, Accounted, NEW usage \in Usages, SettlesAgain(usage)
  PROVE  Types' /\ Accounted'
<1>1. /\ calls' \in Seq(Call) /\ Len(calls') = Len(calls) + 1 /\ LastStep \in Nat \ {0}
      /\ \A i \in 1 .. Len(calls) : calls'[i] = calls[i]
      /\ calls'[Len(calls) + 1].seq = seq + 1 /\ calls'[Len(calls) + 1].retry = 0
  BY AfterSettlesAgain
<1>2. seq \in Nat /\ seq + 1 \in 1 .. seq + 1
  BY DEF Types
<1>3. \A i \in 1 .. Len(calls') : Numbered(calls'[i], seq + 1)
  <2> SUFFICES ASSUME NEW i \in 1 .. Len(calls')
               PROVE  Numbered(calls'[i], seq + 1)
    OBVIOUS
  <2>1. CASE i = Len(calls) + 1
    BY <1>1, <1>2, <2>1 DEF Numbered
  <2>2. CASE i # Len(calls) + 1
    <3>1. i \in 1 .. Len(calls) /\ calls'[i] = calls[i]
      BY <1>1, <2>2, LastIs
    <3>2. Numbered(calls[i], seq)
      BY <3>1 DEF Types
    <3> QED BY <1>2, <3>1, <3>2, StaysNumbered
  <2> QED BY <2>1, <2>2
<1> QED BY <1>1, <1>3, TypesSettlement DEF SettlesAgain

\* The retry of a step.
LEMMA TypesCallRetried ==
  ASSUME Types, Accounted, CallRetried
  PROVE  Types' /\ Accounted'
<1>1. /\ calls' \in Seq(Call) /\ Len(calls') = Len(calls) + 1
      /\ Len(calls) \in 1 .. Len(calls) /\ LastStep \in Nat \ {0}
      /\ \/ calls[Len(calls)].outcome = "open" /\ calls'[Len(calls)].outcome = "failed"
         \/ /\ calls[Len(calls)].outcome = "attempt" /\ calls[Len(calls)].retry = 0
            /\ calls'[Len(calls)].outcome = "attempt"
      /\ \A i \in 1 .. Len(calls) : i # Len(calls) => calls'[i] = calls[i]
      /\ calls'[Len(calls)].seq = calls[Len(calls)].seq
      /\ calls'[Len(calls)].retry = seq + 1
      /\ calls'[Len(calls) + 1] = OpenCall(LastStep)
  BY AfterCallRetried
<1>2. ledger' = NoteRetry(ledger, seq + 1) /\ seq' = seq + 1
      /\ steps' = steps /\ sawTurnStart' = sawTurnStart /\ again' = again
  BY DEF CallRetried
<1>3. /\ ledger \in Ledger /\ seq \in Nat /\ seq + 1 \in Nat /\ seq + 1 \in 1 .. seq + 1
      /\ ledger.settlements \subseteq 1 .. seq + 1
  BY DEF Types
<1>4. /\ ledger' \in Ledger /\ AccountOf(ledger') /\ ledger'.settlements \subseteq 1 .. seq + 1
      /\ ledger'.startedSteps = ledger.startedSteps
  BY <1>2, <1>3, RetryingKeepsAccount DEF Accounted
<1>5. \A i \in 1 .. Len(calls') : Numbered(calls'[i], seq')
  <2> SUFFICES ASSUME NEW i \in 1 .. Len(calls')
               PROVE  Numbered(calls'[i], seq + 1)
    BY <1>2
  <2>1. CASE i = Len(calls) + 1
    BY <1>1, <1>3, <2>1, OpenCallIs DEF Numbered
  <2>2. CASE i # Len(calls) + 1
    <3>1. i \in 1 .. Len(calls)
      BY <1>1, <2>2
    <3>2. Numbered(calls[i], seq)
      BY <3>1 DEF Types
    <3>3. Numbered(calls[i], seq + 1)
      BY <1>3, <3>2, StaysNumbered
    <3>4. CASE i = Len(calls)
      BY <1>1, <1>3, <3>3, <3>4 DEF Numbered
    <3>5. CASE i # Len(calls)
      BY <1>1, <3>1, <3>3, <3>5
    <3> QED BY <3>4, <3>5
  <2> QED BY <2>1, <2>2
<1>6. Types'
  BY <1>1, <1>2, <1>3, <1>4, <1>5 DEF Types
<1> QED BY <1>4, <1>6 DEF Accounted

\* A record seen again.
LEMMA TypesReplay ==
  ASSUME Types, Accounted, NEW i \in 1 .. Len(calls), NEW fresh \in BOOLEAN,
         SettlementReplayed(i, fresh) \/ RetryReplayed(i, fresh)
  PROVE  Types' /\ Accounted'
<1>1. /\ calls' = calls /\ calls[i] \in Call /\ seq' \in Nat /\ seq <= seq'
  BY AfterReplay
<1>2. calls[i].step \in Nat /\ calls[i].usage \in Usages
  BY <1>1 DEF Call
<1>3. /\ ledger \in Ledger /\ ledger.settlements \subseteq 1 .. seq' /\ seq \in Nat
  BY <1>1 DEF Types
<1>4. /\ ledger' \in Ledger /\ AccountOf(ledger') /\ ledger'.settlements \subseteq 1 .. seq'
      /\ ledger'.startedSteps = ledger.startedSteps
  <2>1. CASE RetryReplayed(i, fresh)
    <3> DEFINE key == NumberOf(calls[i].retry, fresh)
    <3>1. key \in 1 .. seq' /\ ledger' = NoteRetry(ledger, key)
      BY <2>1, AfterReplay DEF RetryReplayed
    <3> HIDE DEF key
    <3> QED BY <1>1, <1>3, <3>1, RetryingKeepsAccount DEF Accounted
  <2>2. CASE SettlementReplayed(i, fresh)
    <3> DEFINE key == NumberOf(calls[i].seq, fresh)
    <3>1. /\ key \in 1 .. seq'
          /\ ledger' = AddSettlement(ledger, key, calls[i].outcome, calls[i].step, calls[i].usage)
      BY <2>2, AfterReplay DEF SettlementReplayed
    <3> HIDE DEF key
    <3>2. /\ ledger' \in Ledger
          /\ Settles(ledger, ledger', key, calls[i].outcome, calls[i].step, calls[i].usage)
      BY <1>1, <1>2, <1>3, <3>1, AddSettlementIs
    <3> QED BY <1>1, <1>2, <1>3, <3>1, <3>2, SettlingKeepsAccount DEF Accounted
  <2> QED BY <2>1, <2>2
<1>5. /\ steps' \in SUBSET Nat /\ sawTurnStart' = sawTurnStart
  BY <1>2 DEF SettlementReplayed, RetryReplayed, SeenAgain, MarkStep, Types
<1>6. again' \in Copies
  <2>1. again \in Copies
    BY DEF Types
  <2>2. ASSUME calls[i].usage # NoUsage
        PROVE  calls[i].usage.tokens \in Nat /\ OrNothing(calls[i].usage.cache) \in Nat
    BY <1>2, <2>2, UsageFields, UsageAssumption DEF OrNothing, Absent
  <2>3. \/ again' = again
        \/ /\ calls[i].usage # NoUsage
           /\ again' = [samples |-> again.samples + 1,
                        tokens |-> again.tokens + calls[i].usage.tokens,
                        caches |-> again.caches + OrNothing(calls[i].usage.cache)]
    BY DEF SettlementReplayed, RetryReplayed
  <2> QED BY <2>1, <2>2, <2>3 DEF Copies
<1>7. \A j \in 1 .. Len(calls') : Numbered(calls'[j], seq')
  BY <1>1, <1>3, StaysNumbered DEF Types
<1>8. Types'
  BY <1>1, <1>4, <1>5, <1>6, <1>7 DEF Types
<1> QED BY <1>4, <1>8 DEF Accounted

\* Types and account are inductive.
LEMMA TypesNext == Types /\ Accounted /\ [Next]_vars => Types' /\ Accounted'
<1> SUFFICES ASSUME Types, Accounted, [Next]_vars
             PROVE  Types' /\ Accounted'
  OBVIOUS
<1>1. CASE UNCHANGED vars
  BY <1>1 DEF vars, Types, Accounted, AccountOf
<1> QED BY <1>1, TypesStepStart, TypesCallSettles, TypesSettlesAgain, TypesCallRetried,
           TypesReplay DEF Next

\* The sums stay in range, the caps are kept, and every settlement has its place:
\* it was sampled, missing or a retry.
THEOREM UsageTypeCorrect == Spec => []TypeOK
<1>1. Types /\ Accounted => TypeOK
  BY DEF Types, Accounted, AccountOf, Ledger, TypeOK
<1> QED BY <1>1, TypesInit, TypesNext, PTL DEF Spec
-----------------------------------------------------------------------------
\* What the turn's calls reported, after each of its steps.

TokensOf(c) == [i \in 1 .. Len(c) |-> OrNothing(c[i].usage.tokens)]
CachesOf(c) == [i \in 1 .. Len(c) |-> OrNothing(c[i].usage.cache)]

\* What a report adds to the sums.
LEMMA UsageCounts ==
  ASSUME NEW usage \in Usages
  PROVE  /\ OrNothing(usage.tokens) \in Nat /\ OrNothing(usage.cache) \in Nat
         /\ usage = NoUsage => OrNothing(usage.tokens) = 0 /\ OrNothing(usage.cache) = 0
         /\ usage # NoUsage => OrNothing(usage.tokens) = usage.tokens /\ usage.tokens \in 0 .. MaxSafe
         /\ usage.cache = Absent => OrNothing(usage.cache) = 0
         /\ usage.cache # Absent =>
              OrNothing(usage.cache) = usage.cache /\ usage.cache \in 0 .. MaxSafe
<1>1. CASE usage = NoUsage
  BY <1>1 DEF NoUsage, OrNothing, Absent
<1>2. CASE /\ usage # NoUsage /\ usage.tokens \in 0 .. MaxSafe
           /\ usage.cache \in {Absent} \cup (0 .. MaxSafe)
  BY <1>2, UsageAssumption DEF OrNothing, Absent
<1> QED BY <1>1, <1>2, UsageFields

\* The counts of the calls are sequences of natural numbers.
LEMMA CountsAreSequences ==
  ASSUME NEW c \in Seq(Call)
  PROVE  /\ TokensOf(c) \in Seq(Nat) /\ Len(TokensOf(c)) = Len(c)
         /\ CachesOf(c) \in Seq(Nat) /\ Len(CachesOf(c)) = Len(c)
<1>1. Len(c) \in Nat
  BY LenProperties
<1>2. \A i \in 1 .. Len(c) :
        OrNothing(c[i].usage.tokens) \in Nat /\ OrNothing(c[i].usage.cache) \in Nat
  <2> SUFFICES ASSUME NEW i \in 1 .. Len(c)
               PROVE  OrNothing(c[i].usage.tokens) \in Nat /\ OrNothing(c[i].usage.cache) \in Nat
    OBVIOUS
  <2>1. c[i] \in Call
    BY ElementOfSeq
  <2>2. c[i].usage \in Usages
    BY <2>1 DEF Call
  <2> QED BY <2>2, UsageCounts
<1>3. TokensOf(c) \in [1 .. Len(c) -> Nat] /\ CachesOf(c) \in [1 .. Len(c) -> Nat]
  BY <1>2 DEF TokensOf, CachesOf
<1>4. \A f \in [1 .. Len(c) -> Nat] : f \in Seq(Nat) /\ Len(f) = Len(c)
  <2> SUFFICES ASSUME NEW f \in [1 .. Len(c) -> Nat]
               PROVE  f \in Seq(Nat) /\ Len(f) = Len(c)
    OBVIOUS
  <2>1. f \in Seq(Nat)
    BY <1>1, SeqDef
  <2>2. Len(f) \in Nat /\ DOMAIN f = 1 .. Len(f) /\ DOMAIN f = 1 .. Len(c)
    BY <2>1, LenProperties
  <2> QED BY <1>1, <2>1, <2>2
<1> QED BY <1>3, <1>4

\* One call more adds what it reported.
LEMMA SumsGrow ==
  ASSUME NEW c \in Seq(Call), NEW d \in Seq(Call), Len(d) = Len(c) + 1,
         \A i \in 1 .. Len(c) : d[i].usage = c[i].usage
  PROVE  LET usage == d[Len(c) + 1].usage
         IN  /\ SumOf(TokensOf(d)) = SumOf(TokensOf(c)) + OrNothing(usage.tokens)
             /\ SumOf(CachesOf(d)) = SumOf(CachesOf(c)) + OrNothing(usage.cache)
<1>1. Len(c) \in Nat /\ Len(d) \in 1 .. Len(d)
  BY LenProperties
<1>2. /\ TokensOf(c) \in Seq(Nat) /\ Len(TokensOf(c)) = Len(c)
      /\ CachesOf(c) \in Seq(Nat) /\ Len(CachesOf(c)) = Len(c)
      /\ TokensOf(d) \in Seq(Nat) /\ Len(TokensOf(d)) = Len(d)
      /\ CachesOf(d) \in Seq(Nat) /\ Len(CachesOf(d)) = Len(d)
  BY CountsAreSequences
<1>3. \A i \in 1 .. Len(c) :
        TokensOf(d)[i] = TokensOf(c)[i] /\ CachesOf(d)[i] = CachesOf(c)[i]
  BY <1>1 DEF TokensOf, CachesOf
<1>4. /\ TokensOf(d)[Len(d)] = OrNothing(d[Len(c) + 1].usage.tokens)
      /\ CachesOf(d)[Len(d)] = OrNothing(d[Len(c) + 1].usage.cache)
  BY <1>1 DEF TokensOf, CachesOf
<1>5. /\ SumOf(TokensOf(d)) = SumOf(TokensOf(c)) + TokensOf(d)[Len(d)]
      /\ SumOf(CachesOf(d)) = SumOf(CachesOf(c)) + CachesOf(d)[Len(d)]
  BY <1>2, <1>3, SumOfOneMore
<1> QED BY <1>4, <1>5

\* A call that reported nothing yet adds nothing.
LEMMA SumsStay ==
  ASSUME NEW c \in Seq(Call), NEW d \in Seq(Call), Len(d) = Len(c) + 1,
         \A i \in 1 .. Len(c) : d[i].usage = c[i].usage, d[Len(c) + 1].usage = NoUsage
  PROVE  SumOf(TokensOf(d)) = SumOf(TokensOf(c)) /\ SumOf(CachesOf(d)) = SumOf(CachesOf(c))
<1>1. LET usage == d[Len(c) + 1].usage
      IN  /\ SumOf(TokensOf(d)) = SumOf(TokensOf(c)) + OrNothing(usage.tokens)
          /\ SumOf(CachesOf(d)) = SumOf(CachesOf(c)) + OrNothing(usage.cache)
  BY SumsGrow
<1>2. OrNothing(NoUsage.tokens) = 0 /\ OrNothing(NoUsage.cache) = 0
  BY DEF NoUsage, OrNothing
<1>3. SumOf(TokensOf(c)) \in Nat /\ SumOf(CachesOf(c)) \in Nat
  BY CountsAreSequences, SumOfType
<1> QED BY <1>1, <1>2, <1>3

\* The last call reports.
LEMMA SumsSettle ==
  ASSUME NEW c \in Seq(Call), NEW d \in Seq(Call), Len(d) = Len(c), Len(c) \in 1 .. Len(c),
         \A i \in 1 .. Len(c) : i # Len(c) => d[i].usage = c[i].usage,
         c[Len(c)].usage = NoUsage
  PROVE  LET usage == d[Len(c)].usage
         IN  /\ SumOf(TokensOf(d)) = SumOf(TokensOf(c)) + OrNothing(usage.tokens)
             /\ SumOf(CachesOf(d)) = SumOf(CachesOf(c)) + OrNothing(usage.cache)
<1> DEFINE usage == d[Len(c)].usage
<1>1. Len(c) \in Nat /\ Len(c) # 0
  BY LenProperties
<1>2. /\ TokensOf(c) \in Seq(Nat) /\ Len(TokensOf(c)) = Len(c)
      /\ CachesOf(c) \in Seq(Nat) /\ Len(CachesOf(c)) = Len(c)
      /\ TokensOf(d) \in Seq(Nat) /\ Len(TokensOf(d)) = Len(d)
      /\ CachesOf(d) \in Seq(Nat) /\ Len(CachesOf(d)) = Len(d)
  BY CountsAreSequences
<1>3. \A i \in 1 .. Len(c) - 1 :
        TokensOf(d)[i] = TokensOf(c)[i] /\ CachesOf(d)[i] = CachesOf(c)[i]
  BY <1>1 DEF TokensOf, CachesOf
<1>4. /\ TokensOf(c)[Len(c)] = 0 /\ CachesOf(c)[Len(c)] = 0
      /\ TokensOf(d)[Len(c)] = OrNothing(usage.tokens)
      /\ CachesOf(d)[Len(c)] = OrNothing(usage.cache)
  BY <1>1 DEF TokensOf, CachesOf, OrNothing, NoUsage, Absent
<1>5. SumOf(TokensOf(d)) + TokensOf(c)[Len(c)] = SumOf(TokensOf(c)) + TokensOf(d)[Len(c)]
  BY <1>1, <1>2, <1>3, SumOfOtherLast
<1>6. SumOf(CachesOf(d)) + CachesOf(c)[Len(c)] = SumOf(CachesOf(c)) + CachesOf(d)[Len(c)]
  BY <1>1, <1>2, <1>3, SumOfOtherLast
<1>7. /\ SumOf(TokensOf(c)) \in Nat /\ SumOf(CachesOf(c)) \in Nat
      /\ SumOf(TokensOf(d)) \in Nat /\ SumOf(CachesOf(d)) \in Nat
  BY <1>2, SumOfType
<1> QED BY <1>4, <1>5, <1>6, <1>7

\* The sums of the turn are numbers.
LEMMA SumsAre ==
  ASSUME Types
  PROVE  /\ CallTokens \in Nat /\ CallCaches \in Nat
         /\ CallTokens = SumOf(TokensOf(calls)) /\ CallCaches = SumOf(CachesOf(calls))
<1>1. calls \in Seq(Call)
  BY DEF Types
<1>2. CallTokens = SumOf(TokensOf(calls)) /\ CallCaches = SumOf(CachesOf(calls))
  BY DEF CallTokens, CallCaches, TokensOf, CachesOf
<1>3. SumOf(TokensOf(calls)) \in Nat /\ SumOf(CachesOf(calls)) \in Nat
  BY <1>1, CountsAreSequences, SumOfType
<1> QED BY <1>2, <1>3

\* What is counted of the turn are numbers.
LEMMA CountedAre ==
  ASSUME Types
  PROVE  CountedTokens \in Nat /\ CountedCaches \in Nat
         /\ again.samples \in Nat /\ again.tokens \in Nat /\ again.caches \in Nat
  BY SumsAre DEF Types, Copies, CountedTokens, CountedCaches

\* The turn moves on to a call of which nothing is known.
CallsGrow ==
  /\ Len(calls') = Len(calls) + 1 /\ Len(calls) \in Nat
  /\ \A i \in 1 .. Len(calls) :
        calls'[i].step = calls[i].step /\ calls'[i].usage = calls[i].usage
  /\ calls'[Len(calls) + 1].usage = NoUsage /\ calls'[Len(calls) + 1].outcome = "open"
  /\ Reported' = Reported /\ CacheReported' = CacheReported
  /\ \A i \in Reported : calls'[i].outcome = calls[i].outcome /\ calls'[i].seq = calls[i].seq
  /\ CallTokens' = CallTokens /\ CallCaches' = CallCaches
  /\ Settled' = Settled /\ Unknown' = Unknown

\* The last call, the k-th, settles: one that was under way, or one more of its step.
CallsSettle(k, kind, usage) ==
  /\ Len(calls') = k /\ k \in 1 .. k /\ Len(calls) \in 1 .. k
  /\ \A i \in 1 .. k : i = k \/ i \in 1 .. Len(calls)
  /\ k \notin Settled /\ k \notin Reported
  /\ \E i \in 1 .. Len(calls) : calls[i].step = LastStep
  /\ \A i \in 1 .. Len(calls) : calls'[i].step = calls[i].step
  /\ \A i \in Reported : calls'[i].outcome = calls[i].outcome /\ calls'[i].seq = calls[i].seq
  /\ calls'[k].step = LastStep /\ calls'[k].outcome = kind /\ calls'[k].seq = seq + 1
  /\ usage # NoUsage /\ kind = "message" =>
       \A i \in Reported : calls[i].outcome = "message" => calls[i].step # LastStep
  /\ Reported' = IF usage = NoUsage THEN Reported ELSE Reported \cup {k}
  /\ CacheReported' = IF usage.cache = Absent THEN CacheReported ELSE CacheReported \cup {k}
  /\ CallTokens' = CallTokens + OrNothing(usage.tokens)
  /\ CallCaches' = CallCaches + OrNothing(usage.cache)
  /\ Settled' = Settled \cup {k} /\ Retried' = Retried
  /\ Unknown' = IF usage = NoUsage THEN Unknown \cup {k} ELSE Unknown

\* The new step's call reports nothing yet.
LEMMA GrowsOnStepStart ==
  ASSUME Types, World, StepStart
  PROVE  World' /\ CallsGrow /\ Retried' = Retried
<1> DEFINE k == Len(calls)
<1>1. /\ calls' \in Seq(Call) /\ Len(calls') = k + 1
      /\ \A i \in 1 .. k : calls'[i] = calls[i]
      /\ calls'[k + 1] = OpenCall(LastStep + 1)
      /\ LastStep + 1 \in Nat \ {0}
  BY AfterStepStart
<1>2. /\ calls'[k + 1].step = LastStep + 1 /\ calls'[k + 1].outcome = "open"
      /\ calls'[k + 1].usage = NoUsage /\ calls'[k + 1].retry = 0
  BY <1>1, OpenCallIs
<1>3. k \in Nat /\ LastStep \in Nat /\ calls \in Seq(Call)
  BY LastIs DEF Types
<1>4. \A i \in 1 .. k : calls[i].outcome # "open" /\ calls[i].step <= LastStep
                        /\ calls[i].step \in Nat
  <2> SUFFICES ASSUME NEW i \in 1 .. k
               PROVE  calls[i].outcome # "open" /\ calls[i].step <= LastStep
                      /\ calls[i].step \in Nat
    OBVIOUS
  <2>1. calls # <<>>
    BY <1>3, EmptySeq
  <2>2. k \in 1 .. k /\ LastStep = calls[k].step
    BY <2>1, LastIs
  <2>3. calls[k].outcome # "open"
    BY <2>1 DEF StepStart, LastIn
  <2>4. calls[i] \in Call
    BY <1>3, ElementOfSeq
  <2>5. calls[i].step \in Nat
    BY <2>4 DEF Call
  <2>6. CASE i = k
    BY <1>3, <2>2, <2>3, <2>5, <2>6
  <2>7. CASE i # k
    <3>1. i < k
      BY <1>3, <2>7
    <3> QED BY <2>2, <2>5, <2>7, <3>1 DEF World, Callable, Ordered
  <2> QED BY <2>6, <2>7
<1>5. LastStep <= k
  <2>1. CASE calls = <<>>
    BY <1>3, <2>1, LastIs
  <2>2. CASE calls # <<>>
    <3>1. k \in 1 .. k /\ LastStep = calls[k].step
      BY <2>2, LastIs
    <3> QED BY <3>1 DEF World, Callable
  <2> QED BY <2>1, <2>2
<1> HIDE DEF k
<1>6. World'
  <2>1. ASSUME NEW i \in 1 .. k + 1
        PROVE  Callable(i)'
    <3>1. CASE i = k + 1
      BY <1>1, <1>2, <1>3, <1>5, <3>1 DEF Callable
    <3>2. CASE i \in 1 .. k
      <4>1. Callable(i)
        BY <3>2 DEF World, k
      <4> QED BY <1>1, <1>4, <3>2, <4>1 DEF Callable
    <3> QED BY <1>3, <3>1, <3>2
  <2>2. ASSUME NEW i \in 1 .. k + 1, NEW j \in 1 .. k + 1, j < i
        PROVE  Ordered(i, j)'
    <3>1. j \in 1 .. k /\ calls'[j] = calls[j]
      BY <1>1, <1>3, <2>2
    <3>2. CASE i = k + 1
      BY <1>2, <1>3, <1>4, <3>1, <3>2 DEF Ordered
    <3>3. CASE i \in 1 .. k
      <4>1. Ordered(i, j) /\ calls'[i] = calls[i]
        BY <1>1, <2>2, <3>1, <3>3 DEF World, k
      <4> QED BY <3>1, <4>1 DEF Ordered
    <3> QED BY <1>3, <3>2, <3>3
  <2> QED BY <1>1, <2>1, <2>2 DEF World
<1>7. /\ Reported' = Reported /\ CacheReported' = CacheReported
      /\ Settled' = Settled /\ Unknown' = Unknown /\ Retried' = Retried
  <2>1. Reported' = Reported
    BY <1>1, <1>2, <1>3 DEF Reported, k
  <2>2. Reported \subseteq 1 .. k
    BY DEF Reported, k
  <2>3. CacheReported' = CacheReported
    BY <1>1, <2>1, <2>2 DEF CacheReported
  <2>4. Settled' = Settled
    BY <1>1, <1>2, <1>3 DEF Settled, k
  <2>5. Settled \subseteq 1 .. k
    BY DEF Settled, k
  <2>6. Unknown' = Unknown
    BY <1>1, <2>4, <2>5 DEF Unknown
  <2>7. Retried' = Retried
    BY <1>1, <1>2, <1>3 DEF Retried, k
  <2> QED BY <2>1, <2>3, <2>4, <2>6, <2>7
<1>8. CallTokens' = CallTokens /\ CallCaches' = CallCaches
  <2>1. /\ SumOf(TokensOf(calls')) = SumOf(TokensOf(calls))
        /\ SumOf(CachesOf(calls')) = SumOf(CachesOf(calls))
    BY <1>1, <1>2, <1>3, SumsStay DEF k
  <2> QED BY <2>1 DEF CallTokens, CallCaches, TokensOf, CachesOf
<1>9. \A i \in Reported : calls'[i].outcome = calls[i].outcome /\ calls'[i].seq = calls[i].seq
  BY <1>1 DEF Reported, k
<1> QED BY <1>1, <1>2, <1>3, <1>6, <1>7, <1>8, <1>9 DEF CallsGrow, k

\* The retried call reports nothing new, nor does the next one yet.
LEMMA GrowsOnCallRetried ==
  ASSUME Types, World, CallRetried
  PROVE  /\ World' /\ CallsGrow
         /\ Len(calls) \in 1 .. Len(calls) /\ Len(calls) \notin Retried
         /\ Retried' = Retried \cup {Len(calls)}
         /\ calls'[Len(calls) + 1].step = calls[Len(calls)].step
<1> DEFINE k == Len(calls)
<1>1. /\ calls' \in Seq(Call) /\ Len(calls') = k + 1
      /\ k \in 1 .. k /\ LastStep \in Nat \ {0}
      /\ calls[k].step = LastStep
      /\ \/ calls[k].outcome = "open" /\ calls'[k].outcome = "failed"
         \/ /\ calls[k].outcome = "attempt" /\ calls[k].retry = 0
            /\ calls'[k].outcome = "attempt"
      /\ \A i \in 1 .. k : i # k => calls'[i] = calls[i]
      /\ calls'[k].step = LastStep /\ calls'[k].usage = calls[k].usage
      /\ calls'[k].seq = calls[k].seq /\ calls'[k].retry = seq + 1
      /\ calls'[k + 1] = OpenCall(LastStep)
  BY AfterCallRetried
<1>2. /\ calls'[k + 1].step = LastStep /\ calls'[k + 1].outcome = "open"
      /\ calls'[k + 1].usage = NoUsage /\ calls'[k + 1].retry = 0
  BY <1>1, OpenCallIs
<1>3. k \in Nat /\ calls \in Seq(Call) /\ seq + 1 # 0
  BY LastIs DEF Types
<1>4. /\ LastStep <= k /\ calls[k].retry = 0
      /\ calls[k].outcome = "open" => calls[k].usage = NoUsage
  <2>1. Callable(k)
    BY <1>1 DEF World
  <2> QED BY <1>1, <2>1 DEF Callable
<1>5. \A i \in 1 .. k : calls[i].step \in Nat
  <2> SUFFICES ASSUME NEW i \in 1 .. k
               PROVE  calls[i].step \in Nat
    OBVIOUS
  <2>1. calls[i] \in Call
    BY <1>3, ElementOfSeq
  <2> QED BY <2>1 DEF Call
<1>6. \A i \in 1 .. k : calls'[i].step = calls[i].step /\ calls'[i].usage = calls[i].usage
  BY <1>1
<1> HIDE DEF k
<1>7. World'
  <2>1. ASSUME NEW i \in 1 .. k + 1
        PROVE  Callable(i)'
    <3>1. CASE i = k + 1
      BY <1>1, <1>2, <1>3, <1>4, <3>1 DEF Callable
    <3>2. CASE i = k
      <4>1. calls[k].outcome = "attempt" \/ calls[k].usage = NoUsage
        BY <1>1, <1>4
      <4> QED BY <1>1, <1>3, <1>4, <3>2, <4>1 DEF Callable
    <3>3. CASE i \in 1 .. k /\ i # k
      <4>1. Callable(i) /\ calls'[i] = calls[i]
        BY <1>1, <3>3 DEF World, k
      <4>2. calls[i].outcome # "open"
        BY <3>3, <4>1 DEF Callable, k
      <4> QED BY <4>1, <4>2 DEF Callable
    <3> QED BY <1>3, <3>1, <3>2, <3>3
  <2>2. ASSUME NEW i \in 1 .. k + 1, NEW j \in 1 .. k + 1, j < i
        PROVE  Ordered(i, j)'
    <3>1. j \in 1 .. k
      BY <1>3, <2>2
    <3>2. CASE j = k
      <4>1. i = k + 1
        BY <1>3, <2>2, <3>2
      <4> QED BY <1>1, <1>2, <1>3, <3>2, <4>1 DEF Ordered, SameStep
    <3>3. CASE j # k
      <4>1. calls'[j] = calls[j] /\ j < k
        BY <1>1, <1>3, <3>1, <3>3
      <4>2. /\ calls[j].step <= LastStep
            /\ calls[j].step = LastStep => calls[j].retry # 0
        <5>1. Ordered(k, j)
          BY <1>1, <3>1, <4>1 DEF World, k
        <5>2. calls[k].outcome # "message"
          BY <1>1
        <5> QED BY <1>1, <5>1, <5>2 DEF Ordered, SameStep
      <4>3. CASE i \in {k, k + 1}
        BY <1>1, <1>2, <4>1, <4>2, <4>3 DEF Ordered, SameStep
      <4>4. CASE i \in 1 .. k /\ i # k
        <5>1. Ordered(i, j) /\ calls'[i] = calls[i]
          BY <1>1, <2>2, <3>1, <4>4 DEF World, k
        <5> QED BY <4>1, <5>1 DEF Ordered
      <4> QED BY <1>3, <4>3, <4>4
    <3> QED BY <3>2, <3>3
  <2> QED BY <1>1, <2>1, <2>2 DEF World
<1>8. /\ Reported' = Reported /\ CacheReported' = CacheReported
      /\ Settled' = Settled /\ Unknown' = Unknown
      /\ Retried' = Retried \cup {k} /\ k \notin Retried
  <2>1. Reported' = Reported
    BY <1>1, <1>2, <1>3, <1>6 DEF Reported, k
  <2>2. Reported \subseteq 1 .. k
    BY DEF Reported, k
  <2>3. CacheReported' = CacheReported
    BY <1>6, <2>1, <2>2 DEF CacheReported
  <2>4. Settled' = Settled
    BY <1>1, <1>2, <1>3 DEF Settled, k
  <2>5. Settled \subseteq 1 .. k
    BY DEF Settled, k
  <2>6. Unknown' = Unknown
    BY <1>6, <2>4, <2>5 DEF Unknown
  <2>7. Retried' = Retried \cup {k} /\ k \notin Retried
    BY <1>1, <1>2, <1>3, <1>4 DEF Retried, k
  <2> QED BY <2>1, <2>3, <2>4, <2>6, <2>7
<1>9. CallTokens' = CallTokens /\ CallCaches' = CallCaches
  <2>1. /\ SumOf(TokensOf(calls')) = SumOf(TokensOf(calls))
        /\ SumOf(CachesOf(calls')) = SumOf(CachesOf(calls))
    BY <1>1, <1>2, <1>3, <1>6, SumsStay DEF k
  <2> QED BY <2>1 DEF CallTokens, CallCaches, TokensOf, CachesOf
<1>10. \A i \in Reported : calls'[i].outcome = calls[i].outcome /\ calls'[i].seq = calls[i].seq
  <2> SUFFICES ASSUME NEW i \in Reported
               PROVE  calls'[i].outcome = calls[i].outcome /\ calls'[i].seq = calls[i].seq
    OBVIOUS
  <2>1. i \in 1 .. k /\ calls[i].usage # NoUsage
    BY DEF Reported, k
  <2>2. i = k => calls[k].outcome # "open"
    BY <1>4, <2>1
  <2> QED BY <1>1, <2>1, <2>2
<1> QED BY <1>1, <1>2, <1>3, <1>6, <1>7, <1>8, <1>9, <1>10 DEF CallsGrow, k

\* The settled call's report, if any, joins what the turn reported.
LEMMA SettlesOnCallSettles ==
  ASSUME Types, World, NEW kind \in {"message", "attempt"}, NEW usage \in Usages,
         CallSettles(kind, usage)
  PROVE  World' /\ CallsSettle(Len(calls), kind, usage)
<1> DEFINE k == Len(calls)
<1>1. /\ calls' \in Seq(Call) /\ Len(calls') = k
      /\ k \in 1 .. k /\ LastStep \in Nat \ {0}
      /\ calls[k].step = LastStep /\ calls[k].outcome = "open"
      /\ \A i \in 1 .. k : i # k => calls'[i] = calls[i]
      /\ calls'[k].step = LastStep /\ calls'[k].outcome = kind
      /\ calls'[k].usage = usage /\ calls'[k].seq = seq + 1
      /\ calls'[k].retry = calls[k].retry
  BY AfterCallSettles
<1>2. k \in Nat /\ calls \in Seq(Call)
  BY LastIs DEF Types
<1>3. calls[k].usage = NoUsage /\ calls[k].retry = 0 /\ calls[k].step <= k
  <2>1. Callable(k)
    BY <1>1 DEF World
  <2> QED BY <1>1, <2>1 DEF Callable
<1>4. \A j \in 1 .. k : j < k /\ calls[j].step = LastStep => calls[j].retry # 0
  <2> SUFFICES ASSUME NEW j \in 1 .. k, j < k, calls[j].step = LastStep
               PROVE  calls[j].retry # 0
    OBVIOUS
  <2>1. Ordered(k, j)
    BY <1>1 DEF World
  <2> QED BY <1>1, <2>1 DEF Ordered, SameStep
<1>5. \A i \in 1 .. k : calls'[i].step = calls[i].step
  BY <1>1
<1> HIDE DEF k
<1>6. World'
  <2>1. ASSUME NEW i \in 1 .. k
        PROVE  Callable(i)'
    <3>1. CASE i = k
      BY <1>1, <1>3, <3>1 DEF Callable
    <3>2. CASE i # k
      <4>1. Callable(i) /\ calls'[i] = calls[i]
        BY <1>1, <3>2 DEF World, k
      <4> QED BY <1>1, <3>2, <4>1 DEF Callable, k
    <3> QED BY <3>1, <3>2
  <2>2. ASSUME NEW i \in 1 .. k, NEW j \in 1 .. k, j < i
        PROVE  Ordered(i, j)'
    <3>1. calls'[j] = calls[j] /\ Ordered(i, j) /\ calls'[i].step = calls[i].step
      BY <1>1, <1>2, <1>5, <2>2 DEF World, k
    <3>2. CASE i = k
      BY <1>1, <1>4, <2>2, <3>1, <3>2 DEF Ordered, SameStep
    <3>3. CASE i # k
      BY <1>1, <3>1, <3>3 DEF Ordered
    <3> QED BY <3>2, <3>3
  <2> QED BY <1>1, <2>1, <2>2 DEF World
<1>7. /\ Reported' = IF usage = NoUsage THEN Reported ELSE Reported \cup {k}
      /\ k \notin Reported
      /\ CacheReported' = IF usage.cache = Absent THEN CacheReported ELSE CacheReported \cup {k}
  <2>1. Reported' = (IF usage = NoUsage THEN Reported ELSE Reported \cup {k}) /\ k \notin Reported
    <3>1. CASE usage = NoUsage
      BY <1>1, <1>3, <3>1 DEF Reported, k
    <3>2. CASE usage # NoUsage
      BY <1>1, <1>3, <3>2 DEF Reported, k
    <3> QED BY <3>1, <3>2
  <2>2. Reported \subseteq 1 .. k
    BY DEF Reported, k
  <2>3. \A i \in Reported : calls'[i] = calls[i]
    BY <1>1, <2>1, <2>2
  <2>4. CASE usage.cache = Absent
    <3>1. k \notin CacheReported'
      BY <1>1, <2>4 DEF CacheReported
    <3>2. \A i \in Reported' : i = k \/ i \in Reported
      BY <2>1
    <3>3. Reported \subseteq Reported'
      BY <2>1
    <3>4. CacheReported' = CacheReported
      BY <2>1, <2>3, <3>1, <3>2, <3>3 DEF CacheReported
    <3> QED BY <2>1, <2>4, <3>4
  <2>5. CASE usage.cache # Absent
    <3>1. usage # NoUsage
      BY <2>5 DEF NoUsage
    <3>2. Reported' = Reported \cup {k}
      BY <2>1, <3>1
    <3>3. CacheReported' = CacheReported \cup {k}
      BY <1>1, <2>1, <2>3, <2>5, <3>2 DEF CacheReported
    <3> QED BY <2>1, <2>5, <3>3
  <2> QED BY <2>4, <2>5
<1>8. /\ Settled' = Settled \cup {k} /\ k \notin Settled /\ Retried' = Retried
      /\ Unknown' = IF usage = NoUsage THEN Unknown \cup {k} ELSE Unknown
  <2>1. Settled' = Settled \cup {k} /\ k \notin Settled
    BY <1>1 DEF Settled, k
  <2>2. Retried' = Retried
    BY <1>1 DEF Retried, k
  <2>3. Settled \subseteq 1 .. k
    BY DEF Settled, k
  <2>4. \A i \in Settled : calls'[i] = calls[i]
    BY <1>1, <2>1, <2>3
  <2>5. CASE usage = NoUsage
    <3>1. Unknown' = Unknown \cup {k}
      BY <1>1, <2>1, <2>4, <2>5 DEF Unknown
    <3> QED BY <2>1, <2>2, <2>5, <3>1
  <2>6. CASE usage # NoUsage
    <3>1. Unknown' = Unknown
      BY <1>1, <2>1, <2>4, <2>6 DEF Unknown
    <3> QED BY <2>1, <2>2, <2>6, <3>1
  <2> QED BY <2>5, <2>6
<1>9. /\ CallTokens' = CallTokens + OrNothing(usage.tokens)
      /\ CallCaches' = CallCaches + OrNothing(usage.cache)
  <2>1. \A i \in 1 .. k : i # k => calls'[i].usage = calls[i].usage
    BY <1>1
  <2>2. LET u == calls'[k].usage
        IN  /\ SumOf(TokensOf(calls')) = SumOf(TokensOf(calls)) + OrNothing(u.tokens)
            /\ SumOf(CachesOf(calls')) = SumOf(CachesOf(calls)) + OrNothing(u.cache)
    BY <1>1, <1>2, <1>3, <2>1, SumsSettle DEF k
  <2>3. /\ SumOf(TokensOf(calls')) = SumOf(TokensOf(calls)) + OrNothing(usage.tokens)
        /\ SumOf(CachesOf(calls')) = SumOf(CachesOf(calls)) + OrNothing(usage.cache)
    BY <1>1, <2>2
  <2> QED BY <2>3 DEF CallTokens, CallCaches, TokensOf, CachesOf
<1>10. /\ calls[k].step = LastStep /\ Len(calls') = k /\ k \in 1 .. k
       /\ calls'[k].step = LastStep /\ calls'[k].outcome = kind /\ calls'[k].seq = seq + 1
  BY <1>1
<1>11. \A i \in Reported : calls'[i].outcome = calls[i].outcome /\ calls'[i].seq = calls[i].seq
  BY <1>1, <1>7 DEF Reported, k
<1>12. \A i \in Reported : calls[i].outcome = "message" => calls[i].step # LastStep
  <2> SUFFICES ASSUME NEW i \in Reported, calls[i].outcome = "message", calls[i].step = LastStep
               PROVE  FALSE
    OBVIOUS
  <2>1. i \in 1 .. k /\ i < k
    BY <1>2, <1>7 DEF Reported, k
  <2>2. Callable(i)
    BY <2>1 DEF World, k
  <2> QED BY <1>4, <2>1, <2>2 DEF Callable
<1> QED BY <1>5, <1>6, <1>7, <1>8, <1>9, <1>10, <1>11, <1>12 DEF CallsSettle, k

\* So does the report of a step's further message.
LEMMA SettlesOnSettlesAgain ==
  ASSUME Types, World, NEW usage \in Usages, SettlesAgain(usage)
  PROVE  World' /\ CallsSettle(Len(calls) + 1, "message", usage)
<1> DEFINE n == Len(calls)
           k == Len(calls) + 1
<1>1. /\ calls' \in Seq(Call) /\ Len(calls') = k
      /\ n \in 1 .. n /\ LastStep \in Nat \ {0}
      /\ calls[n].step = LastStep /\ calls[n].outcome = "message"
      /\ \A i \in 1 .. n : calls'[i] = calls[i]
      /\ calls'[k].step = LastStep /\ calls'[k].outcome = "message"
      /\ calls'[k].usage = usage /\ calls'[k].seq = seq + 1 /\ calls'[k].retry = 0
  BY AfterSettlesAgain
<1>2. /\ n \in Nat /\ calls \in Seq(Call) /\ k \in 1 .. k /\ k = n + 1 /\ k \notin 1 .. n
      /\ n \in 1 .. k /\ 1 .. n \subseteq 1 .. k /\ \A i \in 1 .. k : i = k \/ i \in 1 .. n
  BY <1>1, LastIs DEF Types
<1>3. usage # NoUsage =>
        \A i \in 1 .. n : calls[i].step = LastStep /\ calls[i].outcome = "message" =>
                            calls[i].usage = NoUsage
  BY DEF SettlesAgain
<1> HIDE DEF n, k
<1>4. \A i \in 1 .. n : Callable(i)
  BY DEF World, n
<1>5. \A j \in 1 .. n : calls[j].step <= LastStep /\ calls[j].step \in Nat
                        /\ (calls[j].step = LastStep => calls[j].retry # 0 \/ calls[j].outcome = "message")
  <2> SUFFICES ASSUME NEW j \in 1 .. n
               PROVE  calls[j].step <= LastStep /\ calls[j].step \in Nat
                      /\ (calls[j].step = LastStep =>
                             calls[j].retry # 0 \/ calls[j].outcome = "message")
    OBVIOUS
  <2>1. calls[j].step \in Nat
    <3>1. calls[j] \in Call
      BY <1>2, ElementOfSeq DEF n
    <3> QED BY <3>1 DEF Call
  <2>2. CASE j = n
    BY <1>1, <2>1, <2>2
  <2>3. CASE j # n
    <3>1. j < n
      BY <1>2, <2>3
    <3>2. Ordered(n, j)
      BY <1>1, <3>1 DEF World, n
    <3> QED BY <1>1, <2>1, <3>2 DEF Ordered, SameStep
  <2> QED BY <2>2, <2>3
<1>6. World'
  <2>1. ASSUME NEW i \in 1 .. k
        PROVE  Callable(i)'
    <3>1. CASE i = k
      <4>1. LastStep <= n
        BY <1>1, <1>4 DEF Callable
      <4> QED BY <1>1, <1>2, <3>1, <4>1 DEF Callable
    <3>2. CASE i \in 1 .. n
      <4>1. Callable(i) /\ calls'[i] = calls[i]
        BY <1>1, <1>4, <3>2
      <4>2. calls[i].outcome # "open"
        BY <1>1, <4>1 DEF Callable, n
      <4> QED BY <4>1, <4>2 DEF Callable
    <3> QED BY <1>2, <3>1, <3>2
  <2>2. ASSUME NEW i \in 1 .. k, NEW j \in 1 .. k, j < i
        PROVE  Ordered(i, j)'
    <3>1. j \in 1 .. n /\ calls'[j] = calls[j]
      BY <1>1, <1>2, <2>2
    <3>2. CASE i = k
      BY <1>1, <1>3, <1>5, <3>1, <3>2 DEF Ordered, SameStep
    <3>3. CASE i \in 1 .. n
      <4>1. Ordered(i, j) /\ calls'[i] = calls[i]
        BY <1>1, <2>2, <3>1, <3>3 DEF World, n
      <4> QED BY <3>1, <4>1 DEF Ordered
    <3> QED BY <1>2, <3>2, <3>3
  <2> QED BY <1>1, <2>1, <2>2 DEF World
<1>7. Reported \subseteq 1 .. n /\ Settled \subseteq 1 .. n
  BY DEF Reported, Settled, n
<1>8. /\ Reported' = (IF usage = NoUsage THEN Reported ELSE Reported \cup {k})
      /\ k \notin Reported
  <2>1. \A i \in 1 .. n : i \in Reported' <=> i \in Reported
    BY <1>1, <1>2 DEF Reported, n
  <2>2. k \in Reported' <=> usage # NoUsage
    BY <1>1, <1>2 DEF Reported
  <2>3. Reported' \subseteq 1 .. k
    BY <1>1 DEF Reported
  <2>4. k \notin Reported
    BY <1>2, <1>7
  <2> HIDE DEF Reported
  <2>5. \A i : i \in Reported' => i = k \/ i \in 1 .. n
    BY <1>2, <2>3
  <2>6. \A i : i \in Reported' <=> i \in Reported \/ (i = k /\ usage # NoUsage)
    BY <1>7, <2>1, <2>2, <2>5
  <2>7. CASE usage = NoUsage
    <3>1. Reported' = Reported
      BY <2>6, <2>7
    <3> QED BY <2>4, <2>7, <3>1
  <2>8. CASE usage # NoUsage
    <3>1. Reported' = Reported \cup {k}
      BY <2>6, <2>8
    <3> QED BY <2>4, <2>8, <3>1
  <2> QED BY <2>7, <2>8
<1>9. CacheReported' = IF usage.cache = Absent THEN CacheReported ELSE CacheReported \cup {k}
  <2>1. \A i \in Reported : calls'[i] = calls[i]
    BY <1>1, <1>7
  <2>2. usage = NoUsage => usage.cache = Absent
    BY DEF NoUsage
  <2>3. CASE usage.cache = Absent
    BY <1>1, <1>8, <2>1, <2>3 DEF CacheReported
  <2>4. CASE usage.cache # Absent
    BY <1>1, <1>8, <2>1, <2>2, <2>4 DEF CacheReported
  <2> QED BY <2>3, <2>4
<1>10. /\ Settled' = Settled \cup {k} /\ k \notin Settled /\ Retried' = Retried
       /\ Unknown' = IF usage = NoUsage THEN Unknown \cup {k} ELSE Unknown
  <2>1. Settled' = Settled \cup {k} /\ k \notin Settled
    BY <1>1, <1>2 DEF Settled, n
  <2>2. Retried' = Retried
    BY <1>1, <1>2 DEF Retried, n
  <2>3. \A i \in Settled : calls'[i] = calls[i]
    BY <1>1, <1>7
  <2>4. CASE usage = NoUsage
    <3>1. Unknown' = Unknown \cup {k}
      BY <1>1, <2>1, <2>3, <2>4 DEF Unknown
    <3> QED BY <2>1, <2>2, <2>4, <3>1
  <2>5. CASE usage # NoUsage
    <3>1. Unknown' = Unknown
      BY <1>1, <2>1, <2>3, <2>5 DEF Unknown
    <3> QED BY <2>1, <2>2, <2>5, <3>1
  <2> QED BY <2>1, <2>2, <2>4, <2>5
<1>11. /\ CallTokens' = CallTokens + OrNothing(usage.tokens)
       /\ CallCaches' = CallCaches + OrNothing(usage.cache)
  <2>1. \A i \in 1 .. Len(calls) : calls'[i].usage = calls[i].usage
    BY <1>1 DEF n
  <2>2. Len(calls') = Len(calls) + 1 /\ calls'[Len(calls) + 1].usage = usage
    BY <1>1 DEF k
  <2>3. LET u == calls'[Len(calls) + 1].usage
        IN  /\ SumOf(TokensOf(calls')) = SumOf(TokensOf(calls)) + OrNothing(u.tokens)
            /\ SumOf(CachesOf(calls')) = SumOf(CachesOf(calls)) + OrNothing(u.cache)
    BY <1>1, <1>2, <2>1, <2>2, SumsGrow
  <2>4. /\ SumOf(TokensOf(calls')) = SumOf(TokensOf(calls)) + OrNothing(usage.tokens)
        /\ SumOf(CachesOf(calls')) = SumOf(CachesOf(calls)) + OrNothing(usage.cache)
    BY <2>2, <2>3
  <2> QED BY <2>4 DEF CallTokens, CallCaches, TokensOf, CachesOf
<1>12. /\ \A i \in Reported : calls'[i].outcome = calls[i].outcome /\ calls'[i].seq = calls[i].seq
       /\ usage # NoUsage =>
            \A i \in Reported : calls[i].outcome = "message" => calls[i].step # LastStep
  BY <1>1, <1>3, <1>7 DEF Reported
<1>13. CallsSettle(k, "message", usage)
  BY <1>1, <1>2, <1>8, <1>9, <1>10, <1>11, <1>12 DEF CallsSettle, n
<1> QED BY <1>6, <1>13 DEF k
-----------------------------------------------------------------------------
\* The ledger keeps up with the turn.

Kept == Sampled /\ Summed /\ Missed /\ Stepped

\* A turn has finitely many calls.
LEMMA SetsAreFinite ==
  ASSUME Types
  PROVE  /\ IsFiniteSet(Reported) /\ Cardinality(Reported) \in Nat
         /\ IsFiniteSet(Unknown) /\ Cardinality(Unknown) \in Nat
         /\ IsFiniteSet(Retried) /\ Cardinality(Retried) \in Nat
<1>1. IsFiniteSet(1 .. Len(calls))
  BY LastIs, FS_Interval
<1>2. Reported \subseteq 1 .. Len(calls) /\ Unknown \subseteq 1 .. Len(calls)
      /\ Retried \subseteq 1 .. Len(calls)
  BY DEF Reported, Unknown, Settled, Retried
<1>3. IsFiniteSet(Reported) /\ IsFiniteSet(Unknown) /\ IsFiniteSet(Retried)
  BY <1>1, <1>2, FS_Subset
<1> QED BY <1>3, FS_CardinalityType

\* One element more.
LEMMA OneMore ==
  ASSUME NEW S, IsFiniteSet(S), Cardinality(S) \in Nat, NEW x
  PROVE  /\ Cardinality(S \cup {x}) \in Nat
         /\ Cardinality(S) <= Cardinality(S \cup {x})
         /\ Cardinality(S \cup {x}) <= Cardinality(S) + 1
         /\ x \notin S => Cardinality(S \cup {x}) = Cardinality(S) + 1
  BY FS_AddElement

\* The empty ledger keeps up with a turn without reports ...
LEMMA KeptInit == Init => World /\ Kept
<1> SUFFICES ASSUME Init
             PROVE  World /\ Kept
  OBVIOUS
<1>1. calls = <<>> \/ (calls = <<OpenCall(1)>> /\ sawTurnStart = FALSE)
  BY DEF Init
<1>2. /\ ledger.overflowed = FALSE /\ ledger.capped = FALSE
      /\ ledger.samples = 0 /\ ledger.missing = 0 /\ ledger.retries = 0
      /\ ledger.tokens = 0 /\ ledger.cache = Absent
      /\ ledger.sampledMessageSteps = {} /\ ledger.startedSteps = {}
      /\ ledger.settledSteps = {} /\ steps = {}
      /\ again.samples = 0 /\ again.tokens = 0 /\ again.caches = 0
  BY DEF Init, EmptyLedger
<1>3. calls \in Seq(Call)
  BY TypesInit DEF Types
<1>4. /\ Len(calls) \in {0, 1}
      /\ \A i \in 1 .. Len(calls) :
            calls[i] = OpenCall(1) /\ i = 1 /\ Len(calls) = 1 /\ sawTurnStart = FALSE
  <2>1. CASE calls = <<>>
    BY <2>1
  <2>2. CASE calls = <<OpenCall(1)>>
    BY <1>1, <2>2
  <2> QED BY <1>1, <2>1, <2>2
<1>5. /\ OpenCall(1).step = 1 /\ OpenCall(1).outcome = "open"
      /\ OpenCall(1).usage = NoUsage /\ OpenCall(1).retry = 0
  BY OpenCallIs
<1>6. World
  BY <1>4, <1>5 DEF World, Callable
<1>7. Reported = {} /\ CacheReported = {} /\ Settled = {} /\ Unknown = {} /\ Retried = {}
  BY <1>4, <1>5 DEF Reported, CacheReported, Settled, Unknown, Retried
<1>8. SumOf(TokensOf(calls)) = 0 /\ SumOf(CachesOf(calls)) = 0
  <2>1. <<>> \in Seq(Call) /\ Len(<<>>) = 0
    BY EmptySeq
  <2>2. SumOf(TokensOf(<<>>)) = 0 /\ SumOf(CachesOf(<<>>)) = 0
    BY <2>1, CountsAreSequences, SumOfNone
  <2>3. CASE calls = <<>>
    BY <2>2, <2>3
  <2>4. CASE calls # <<>>
    <3>1. Len(calls) = Len(<<>>) + 1 /\ calls[1].usage = NoUsage
      BY <1>1, <1>5, <2>1, <2>4
    <3>2. calls[Len(<<>>) + 1].usage = NoUsage
          /\ \A i \in 1 .. Len(<<>>) : calls[i].usage = <<>>[i].usage
      BY <2>1, <3>1
    <3> QED BY <1>3, <2>1, <2>2, <3>1, <3>2, SumsStay
  <2> QED BY <2>3, <2>4
<1>9. Sampled
  BY <1>2, <1>7 DEF Sampled
<1>10. Summed
  <2>1. CallTokens = 0 /\ CallCaches = 0
    BY <1>8 DEF CallTokens, CallCaches, TokensOf, CachesOf
  <2>2. Cardinality({}) = 0
    BY FS_EmptySet
  <2>3. Samples = 0 /\ CountedTokens = 0 /\ CountedCaches = 0
    BY <1>2, <1>7, <2>1, <2>2 DEF Samples, CountedTokens, CountedCaches
  <2> QED BY <1>2, <1>7, <2>3 DEF Summed, Absent
<1>11. Missed
  <2>1. Cardinality({}) = 0
    BY FS_EmptySet
  <2> QED BY <1>2, <1>7, <2>1 DEF Missed
<1>12. Stepped
  BY <1>2, <1>4, <1>7 DEF Stepped
<1> QED BY <1>6, <1>9, <1>10, <1>11, <1>12 DEF Kept

\* ... and with a new step ...
LEMMA KeptStepStart ==
  ASSUME Types, World, Kept, StepStart
  PROVE  Kept'
<1> DEFINE k == Len(calls)
<1>1. CallsGrow /\ Retried' = Retried
  BY GrowsOnStepStart
<1>2. calls'[k + 1].step = LastStep + 1 /\ LastStep + 1 \in Nat
  BY AfterStepStart, OpenCallIs
<1>3. /\ \A i \in 1 .. k : calls'[i].step = calls[i].step
      /\ Len(calls') = k + 1 /\ k \in Nat
  BY <1>1 DEF CallsGrow
<1>4. /\ steps' = steps \cup {LastStep + 1} /\ sawTurnStart' = sawTurnStart /\ again' = again
      /\ \/ SameFigures(ledger, ledger') /\ ledger'.capped = TRUE
         \/ ledger' = [ledger EXCEPT !.startedSteps = @ \cup {LastStep + 1}]
  <2>1. ledger \in Ledger
    BY DEF Types
  <2>2. ledger' = NoteStepStarted(ledger, LastStep + 1)
    BY DEF StepStart
  <2> QED BY <1>2, <2>1, <2>2, NoteStepStartedIs DEF StepStart, MarkStep
<1>5. /\ ledger'.tokens = ledger.tokens /\ ledger'.cache = ledger.cache
      /\ ledger'.settlements = ledger.settlements
      /\ ledger'.sampledMessageSteps = ledger.sampledMessageSteps
      /\ ledger'.settledSteps = ledger.settledSteps /\ ledger'.samples = ledger.samples
      /\ ledger'.missing = ledger.missing /\ ledger'.retries = ledger.retries
      /\ ledger'.overflowed = ledger.overflowed
      /\ \/ ledger'.capped = TRUE /\ ledger'.startedSteps = ledger.startedSteps
         \/ /\ ledger'.capped = ledger.capped
            /\ ledger'.startedSteps = ledger.startedSteps \cup {LastStep + 1}
  <2>1. ledger \in Ledger
    BY DEF Types
  <2> QED BY <1>4, <2>1 DEF SameFigures, Ledger
<1>6. Reported \subseteq 1 .. k /\ Settled \subseteq 1 .. k
  BY DEF Reported, Settled
<1> HIDE DEF k
<1>7. Sampled'
  BY <1>1, <1>3, <1>5, <1>6 DEF Kept, Sampled, Full, CallsGrow
<1>8. Summed'
  BY <1>1, <1>4, <1>5 DEF Kept, Summed, CallsGrow, Samples, CountedTokens, CountedCaches
<1>9. Missed'
  BY <1>1, <1>5 DEF Kept, Missed, CallsGrow
<1>10. Stepped'
  <2>1. \A i \in 1 .. Len(calls') : i = k + 1 \/ i \in 1 .. k
    BY <1>3
  <2>2. 1 .. k \subseteq 1 .. Len(calls') /\ k + 1 \in 1 .. Len(calls')
    BY <1>3
  <2>3. Settled' = Settled
    BY <1>1 DEF CallsGrow
  <2>4. Stepped
    BY DEF Kept
  <2>5. \A s \in ledger'.settledSteps : \E i \in Settled' : calls'[i].step = s
    BY <1>3, <1>5, <1>6, <2>3, <2>4 DEF Stepped
  <2>6. ~ledger'.capped => \A i \in Settled' : calls'[i].step \in ledger'.settledSteps
    BY <1>3, <1>5, <1>6, <2>3, <2>4 DEF Stepped
  <2>7. \A s \in ledger'.startedSteps : \E i \in 1 .. Len(calls') : calls'[i].step = s
    BY <1>2, <1>3, <1>5, <2>2, <2>4 DEF Stepped, k
  <2>8. sawTurnStart' /\ ~ledger'.capped =>
          \A i \in 1 .. Len(calls') : calls'[i].step \in ledger'.startedSteps
    BY <1>2, <1>3, <1>4, <1>5, <2>1, <2>4 DEF Stepped, k
  <2>9. \A s \in steps' : \E i \in 1 .. Len(calls') : calls'[i].step = s
    BY <1>2, <1>3, <1>4, <2>2, <2>4 DEF Stepped, k
  <2>10. sawTurnStart' => \A i \in 1 .. Len(calls') : calls'[i].step \in steps'
    BY <1>2, <1>3, <1>4, <2>1, <2>4 DEF Stepped, k
  <2> QED BY <2>5, <2>6, <2>7, <2>8, <2>9, <2>10 DEF Stepped
<1> QED BY <1>7, <1>8, <1>9, <1>10 DEF Kept

\* ... and with a retry ...
LEMMA KeptCallRetried ==
  ASSUME Types, World, Kept, CallRetried
  PROVE  Kept'
<1> DEFINE k == Len(calls)
<1>1. /\ CallsGrow /\ k \in 1 .. k /\ k \notin Retried /\ Retried' = Retried \cup {k}
      /\ calls'[k + 1].step = calls[k].step
  BY GrowsOnCallRetried
<1>2. /\ \A i \in 1 .. k : calls'[i].step = calls[i].step
      /\ Len(calls') = k + 1 /\ k \in Nat
  BY <1>1 DEF CallsGrow
<1>3. /\ ledger \in Ledger /\ seq + 1 \in Nat /\ seq + 1 \notin ledger.settlements
  <2>1. seq \in Nat /\ ledger.settlements \subseteq 1 .. seq
    BY DEF Types
  <2>2. seq + 1 \notin 1 .. seq
    BY <2>1
  <2> QED BY <2>1, <2>2 DEF Types
<1>4. /\ ledger' = NoteRetry(ledger, seq + 1)
      /\ steps' = steps /\ sawTurnStart' = sawTurnStart /\ again' = again
  BY DEF CallRetried
<1>5. \/ SameFigures(ledger, ledger') /\ ledger'.capped = TRUE
      \/ ledger' = [ledger EXCEPT !.settlements = @ \cup {seq + 1}, !.retries = @ + 1] /\ ~Full(ledger)
  BY <1>3, <1>4, NoteRetryIs
<1>6. /\ ledger'.tokens = ledger.tokens /\ ledger'.cache = ledger.cache
      /\ ledger'.sampledMessageSteps = ledger.sampledMessageSteps
      /\ ledger'.startedSteps = ledger.startedSteps
      /\ ledger'.settledSteps = ledger.settledSteps /\ ledger'.samples = ledger.samples
      /\ ledger'.missing = ledger.missing /\ ledger'.overflowed = ledger.overflowed
      /\ \/ /\ ledger'.capped = TRUE /\ ledger'.settlements = ledger.settlements
            /\ ledger'.retries = ledger.retries
         \/ /\ ledger'.capped = ledger.capped /\ ~Full(ledger)
            /\ ledger'.retries = ledger.retries + 1
            /\ ledger'.settlements = ledger.settlements \cup {seq + 1}
  BY <1>3, <1>5 DEF SameFigures, Ledger
<1>7. Reported \subseteq 1 .. k /\ Settled \subseteq 1 .. k
  BY DEF Reported, Settled
<1> HIDE DEF k
<1>8. Sampled'
  BY <1>1, <1>2, <1>6, <1>7 DEF Kept, Sampled, Full, CallsGrow
<1>9. Summed'
  BY <1>1, <1>4, <1>6 DEF Kept, Summed, CallsGrow, Samples, CountedTokens, CountedCaches
<1>10. Missed'
  <2>1. /\ IsFiniteSet(Retried) /\ Cardinality(Retried) \in Nat
        /\ ledger.retries \in Nat
    BY <1>3, SetsAreFinite DEF Ledger
  <2>2. Cardinality(Retried') = Cardinality(Retried) + 1 /\ Retried' # {}
    BY <1>1, <2>1, OneMore
  <2>3. Unknown' = Unknown
    BY <1>1 DEF CallsGrow
  <2>4. ~ledger'.capped => ledger'.retries >= Cardinality(Retried')
    BY <1>6, <2>1, <2>2 DEF Kept, Missed
  <2> QED BY <1>6, <2>2, <2>3, <2>4 DEF Kept, Missed
<1>11. Stepped'
  <2>1. \A i \in 1 .. Len(calls') : i = k + 1 \/ i \in 1 .. k
    BY <1>2
  <2>2. 1 .. k \subseteq 1 .. Len(calls')
    BY <1>2
  <2>3. Settled' = Settled
    BY <1>1 DEF CallsGrow
  <2>4. Stepped
    BY DEF Kept
  <2>5. \A i \in 1 .. Len(calls') : \E j \in 1 .. k : calls'[i].step = calls[j].step
    BY <1>1, <1>2, <2>1
  <2>6. \A s \in ledger'.settledSteps : \E i \in Settled' : calls'[i].step = s
    BY <1>2, <1>6, <1>7, <2>3, <2>4 DEF Stepped
  <2>7. ~ledger'.capped => \A i \in Settled' : calls'[i].step \in ledger'.settledSteps
    BY <1>2, <1>6, <1>7, <2>3, <2>4 DEF Stepped
  <2>8. \A s \in ledger'.startedSteps : \E i \in 1 .. Len(calls') : calls'[i].step = s
    BY <1>2, <1>6, <2>2, <2>4 DEF Stepped, k
  <2>9. sawTurnStart' /\ ~ledger'.capped =>
          \A i \in 1 .. Len(calls') : calls'[i].step \in ledger'.startedSteps
    BY <1>4, <1>6, <2>4, <2>5 DEF Stepped, k
  <2>10. \A s \in steps' : \E i \in 1 .. Len(calls') : calls'[i].step = s
    BY <1>2, <1>4, <2>2, <2>4 DEF Stepped, k
  <2>11. sawTurnStart' => \A i \in 1 .. Len(calls') : calls'[i].step \in steps'
    BY <1>4, <2>4, <2>5 DEF Stepped, k
  <2> QED BY <2>6, <2>7, <2>8, <2>9, <2>10, <2>11 DEF Stepped
<1> QED BY <1>8, <1>9, <1>10, <1>11 DEF Kept

\* The sums keep their place when nothing is added to them.
LEMMA SummedLeaving ==
  ASSUME Summed, ledger'.samples = ledger.samples, ledger'.tokens = ledger.tokens,
         ledger'.cache = ledger.cache, ledger.overflowed => ledger'.overflowed,
         ledger.samples \in Nat, ledger.tokens \in Nat, ledger.cache \in Nat \cup {Absent},
         Samples \in Nat, CountedTokens \in Nat, CountedCaches \in Nat,
         Samples' \in Nat, CountedTokens' \in Nat, CountedCaches' \in Nat,
         Samples <= Samples', CountedTokens <= CountedTokens', CountedCaches <= CountedCaches',
         CacheReported' = {} => CountedCaches' = 0,
         \/ ledger'.overflowed \/ ledger'.capped
         \/ /\ ledger'.overflowed = ledger.overflowed /\ ledger'.capped = ledger.capped
            /\ Reported' = Reported /\ CacheReported' = CacheReported
            /\ CountedTokens' = CountedTokens /\ CountedCaches' = CountedCaches
  PROVE  Summed'
<1>1. ~ledger'.overflowed => ledger'.samples <= Samples'
  BY DEF Summed
<1>2. ~ledger'.overflowed => ledger'.tokens <= CountedTokens'
  BY DEF Summed
<1>3. ~ledger'.overflowed => ledger'.cache <= CountedCaches'
  BY DEF Summed, Absent
<1> QED BY <1>1, <1>2, <1>3 DEF Summed

\* They stay exact when a report is added on both sides.
LEMMA SummedCounting ==
  ASSUME Summed, NEW usage \in Usages, usage # NoUsage,
         ledger'.samples = ledger.samples + 1, ledger'.tokens = ledger.tokens + usage.tokens,
         ledger'.capped = ledger.capped, Adding(ledger, ledger', usage.cache),
         ledger.samples \in Nat, ledger.tokens \in Nat, ledger.cache \in Nat \cup {Absent},
         Samples \in Nat, CountedTokens \in Nat, CountedCaches \in Nat,
         Samples' = Samples + 1, CountedTokens' = CountedTokens + OrNothing(usage.tokens),
         CountedCaches' = CountedCaches + OrNothing(usage.cache),
         usage.cache = Absent => CacheReported' = CacheReported,
         usage.cache # Absent => CacheReported' # {}
  PROVE  Summed'
<1> DEFINE t == OrNothing(usage.tokens)
           c == OrNothing(usage.cache)
<1>1. /\ t \in Nat /\ c \in Nat /\ t = usage.tokens
      /\ (usage.cache = Absent => c = 0) /\ (usage.cache # Absent => c = usage.cache)
  BY UsageCounts
<1>2. CountedTokens' = CountedTokens + t /\ CountedCaches' = CountedCaches + c
      /\ ledger'.tokens = ledger.tokens + t
  BY <1>1
<1>3. ledger.overflowed => ledger'.overflowed
  BY DEF Adding
<1>4. CacheReported' = {} => CountedCaches' = 0
  BY <1>1, <1>2 DEF Summed
<1>5. ~ledger.overflowed => /\ ledger.samples <= Samples /\ ledger.tokens <= CountedTokens
                            /\ ledger.cache <= CountedCaches
  BY DEF Summed
<1>6. ~ledger.overflowed /\ ~ledger.capped =>
        /\ ledger.tokens = CountedTokens
        /\ CacheReported = {} => ledger.cache = Absent /\ CountedCaches = 0
        /\ CacheReported # {} => ledger.cache = CountedCaches
  BY DEF Summed
<1> HIDE DEF t, c
<1>7. /\ ~ledger'.overflowed => ledger'.samples <= Samples'
      /\ ~ledger'.overflowed => ledger'.tokens <= CountedTokens'
      /\ ~ledger'.overflowed /\ ~ledger'.capped => ledger'.tokens = CountedTokens'
      /\ ledger'.samples > 0
  BY <1>1, <1>2, <1>3, <1>5, <1>6
<1>8. /\ ~ledger'.overflowed => ledger'.cache <= CountedCaches'
      /\ ~ledger'.overflowed /\ ~ledger'.capped =>
           /\ CacheReported' = {} => ledger'.cache = Absent
           /\ CacheReported' # {} => ledger'.cache = CountedCaches'
  <2> SUFFICES ASSUME ~ledger'.overflowed
               PROVE  /\ ledger'.cache <= CountedCaches'
                      /\ ~ledger'.capped =>
                           /\ CacheReported' = {} => ledger'.cache = Absent
                           /\ CacheReported' # {} => ledger'.cache = CountedCaches'
    OBVIOUS
  <2>1. CASE usage.cache = Absent /\ ledger'.cache = ledger.cache
    <3>1. CacheReported' = CacheReported /\ CountedCaches' = CountedCaches
      BY <1>1, <1>2, <2>1
    <3> QED BY <1>3, <1>5, <1>6, <2>1, <3>1
  <2>2. CASE usage.cache # Absent /\ ledger.cache = Absent /\ ledger'.cache = usage.cache
    <3>1. CacheReported' # {} /\ CountedCaches' = CountedCaches + ledger'.cache
          /\ ledger'.cache \in Nat
      BY <1>1, <1>2, <2>2
    <3>2. ledger'.cache <= CountedCaches'
      BY <3>1
    <3>3. ASSUME ~ledger'.capped
          PROVE  ledger'.cache = CountedCaches'
      <4>1. CountedCaches = 0
        <5>1. ledger.cache # CountedCaches
          BY <2>2 DEF Absent
        <5> QED BY <1>3, <1>6, <3>3, <5>1
      <4> QED BY <3>1, <4>1
    <3> QED BY <3>1, <3>2, <3>3
  <2>3. CASE /\ usage.cache # Absent /\ ledger.cache # Absent
             /\ ledger'.cache = ledger.cache + usage.cache
    <3>1. /\ CacheReported' # {} /\ ledger'.cache = ledger.cache + c /\ ledger.cache \in Nat
      BY <1>1, <2>3
    <3>2. ledger'.cache <= CountedCaches'
      BY <1>1, <1>2, <1>3, <1>5, <3>1
    <3>3. ASSUME ~ledger'.capped
          PROVE  ledger'.cache = CountedCaches'
      BY <1>1, <1>2, <1>3, <1>6, <2>3, <3>1, <3>3
    <3> QED BY <3>1, <3>2, <3>3
  <2> QED BY <2>1, <2>2, <2>3 DEF Adding
<1> QED BY <1>4, <1>7, <1>8 DEF Summed

\* ... and with a settlement, whose report was not sampled before ...
LEMMA KeptSettlement ==
  ASSUME Types, Kept, NEW k, NEW kind \in {"message", "attempt"}, NEW usage \in Usages,
         LastStep \in Nat, CallsSettle(k, kind, usage), Settlement(kind, usage)
  PROVE  Kept'
<1> DEFINE n == Len(calls)
<1>2. /\ Len(calls') = k /\ k \in 1 .. k /\ k \notin Settled /\ k \notin Reported
      /\ calls'[k].step = LastStep /\ calls'[k].outcome = kind /\ calls'[k].seq = seq + 1
      /\ \A i \in 1 .. n : calls'[i].step = calls[i].step
      /\ \A i \in 1 .. k : i = k \/ i \in 1 .. n
      /\ n \in 1 .. k /\ \E i \in 1 .. n : calls[i].step = LastStep
      /\ \A i \in Reported : calls'[i].outcome = calls[i].outcome /\ calls'[i].seq = calls[i].seq
      /\ Settled' = Settled \cup {k} /\ Retried' = Retried
      /\ usage = NoUsage => Reported' = Reported /\ Unknown' = Unknown \cup {k}
      /\ usage # NoUsage => Reported' = Reported \cup {k} /\ Unknown' = Unknown
      /\ usage.cache = Absent => CacheReported' = CacheReported
      /\ usage.cache # Absent => CacheReported' = CacheReported \cup {k}
  BY DEF CallsSettle
<1>3. /\ CallTokens' = CallTokens + OrNothing(usage.tokens)
      /\ CallCaches' = CallCaches + OrNothing(usage.cache)
      /\ CallTokens \in Nat /\ CallCaches \in Nat
  BY SumsAre DEF CallsSettle
<1>4. /\ ledger \in Ledger /\ seq + 1 \in Nat /\ seq + 1 \notin ledger.settlements
  <2>1. seq \in Nat /\ ledger.settlements \subseteq 1 .. seq
    BY DEF Types
  <2>2. seq + 1 \notin 1 .. seq
    BY <2>1
  <2> QED BY <2>1, <2>2 DEF Types
<1>5. /\ ledger' = AddSettlement(ledger, seq + 1, kind, LastStep, usage)
      /\ steps' = steps \cup {LastStep} /\ sawTurnStart' = sawTurnStart /\ again' = again
  BY DEF Settlement, MarkStep
<1>7. Settles(ledger, ledger', seq + 1, kind, LastStep, usage)
  BY <1>4, <1>5, AddSettlementIs
<1>8. Reported \subseteq 1 .. n /\ Settled \subseteq 1 .. n /\ Reported \subseteq Reported'
      /\ 1 .. n \subseteq 1 .. k /\ n \in Nat /\ k \in Nat
  <2>1. n \in Nat
    BY LastIs
  <2> QED BY <1>2, <2>1 DEF Reported, Settled
<1>9. usage # NoUsage /\ kind = "message" => LastStep \notin ledger.sampledMessageSteps
  BY DEF CallsSettle, Kept, Sampled
<1>10. ~Repeats(ledger, seq + 1, kind, LastStep, usage)
  BY <1>4, <1>9 DEF Repeats
<1>11. \/ Full(ledger) /\ SameFigures(ledger, ledger') /\ ledger'.capped = TRUE
       \/ Placed(ledger, ledger', seq + 1, LastStep) /\ Unsampled(ledger, ledger', usage)
       \/ /\ Placed(ledger, ledger', seq + 1, LastStep)
          /\ Counted(ledger, ledger', kind, LastStep, usage)
  BY <1>7, <1>10 DEF Settles
<1>12. ledger'.startedSteps = ledger.startedSteps /\ ledger'.retries = ledger.retries
       /\ (ledger.overflowed => ledger'.overflowed) /\ (ledger.capped => ledger'.capped)
       /\ ledger.settlements \subseteq ledger'.settlements
  BY <1>11 DEF SameFigures, Placed, Unsampled, Counted, Adding
<1>13. /\ ledger.samples \in Nat /\ ledger.tokens \in Nat /\ ledger.missing \in Nat
       /\ ledger.cache \in Nat \cup {Absent}
  BY <1>4, UsageAssumption DEF Ledger
<1> HIDE DEF n
<1>14. Sampled'
  <2>1. \A s \in ledger.sampledMessageSteps :
          \E i \in Reported' : calls'[i].step = s /\ calls'[i].outcome = "message"
    BY <1>2, <1>8 DEF Kept, Sampled
  <2>2. CASE Full(ledger) /\ SameFigures(ledger, ledger')
    <3>1. Full(ledger') /\ ledger'.sampledMessageSteps = ledger.sampledMessageSteps
      BY <2>2 DEF Full, SameFigures
    <3> QED BY <2>1, <3>1 DEF Sampled
  <2>3. ASSUME ~Full(ledger), NEW i \in Reported,
               ledger.sampledMessageSteps \subseteq ledger'.sampledMessageSteps
        PROVE  \/ /\ calls'[i].outcome = "message"
                  /\ calls'[i].step \in ledger'.sampledMessageSteps \/ ledger'.overflowed
               \/ calls'[i].outcome = "attempt" /\ calls'[i].seq \in ledger'.settlements
    BY <1>2, <1>8, <1>12, <2>3 DEF Kept, Sampled
  <2>4. CASE /\ Placed(ledger, ledger', seq + 1, LastStep)
             /\ Unsampled(ledger, ledger', usage)
    <3>1. ledger'.sampledMessageSteps = ledger.sampledMessageSteps /\ ~Full(ledger)
          /\ (usage # NoUsage => ledger'.overflowed)
          /\ ledger'.settlements = ledger.settlements \cup {seq + 1}
      BY <2>4 DEF Placed, Unsampled
    <3>2. ASSUME NEW i \in Reported'
          PROVE  \/ /\ calls'[i].outcome = "message"
                    /\ calls'[i].step \in ledger'.sampledMessageSteps \/ ledger'.overflowed
                 \/ calls'[i].outcome = "attempt" /\ calls'[i].seq \in ledger'.settlements
      <4>1. CASE i \in Reported
        BY <2>3, <3>1, <4>1
      <4>2. CASE i \notin Reported
        <5>1. i = k /\ usage # NoUsage
          BY <1>2, <4>2
        <5> QED BY <1>2, <3>1, <5>1
      <4> QED BY <4>1, <4>2
    <3> QED BY <2>1, <3>1, <3>2 DEF Sampled
  <2>5. CASE /\ Placed(ledger, ledger', seq + 1, LastStep)
             /\ Counted(ledger, ledger', kind, LastStep, usage)
    <3>1. /\ ledger'.sampledMessageSteps =
               IF kind = "message" THEN ledger.sampledMessageSteps \cup {LastStep}
               ELSE ledger.sampledMessageSteps
          /\ ~Full(ledger) /\ Reported' = Reported \cup {k}
          /\ ledger'.settlements = ledger.settlements \cup {seq + 1}
      BY <1>2, <2>5 DEF Placed, Counted
    <3>2. \A s \in ledger'.sampledMessageSteps :
            \E i \in Reported' : calls'[i].step = s /\ calls'[i].outcome = "message"
      BY <1>2, <2>1, <3>1
    <3>3. ASSUME NEW i \in Reported'
          PROVE  \/ /\ calls'[i].outcome = "message"
                    /\ calls'[i].step \in ledger'.sampledMessageSteps \/ ledger'.overflowed
                 \/ calls'[i].outcome = "attempt" /\ calls'[i].seq \in ledger'.settlements
      <4>1. CASE i = k
        BY <1>2, <3>1, <4>1
      <4>2. CASE i \in Reported
        BY <2>3, <3>1, <4>2
      <4> QED BY <3>1, <4>1, <4>2
    <3> QED BY <3>2, <3>3 DEF Sampled
  <2> QED BY <1>11, <2>2, <2>4, <2>5
<1>15. Summed'
  <2>1. Summed /\ CountedTokens \in Nat /\ CountedCaches \in Nat
        /\ again.samples \in Nat /\ again.tokens \in Nat /\ again.caches \in Nat
    BY CountedAre DEF Kept
  <2>2. /\ Samples \in Nat /\ Samples' \in Nat /\ Samples <= Samples'
        /\ usage # NoUsage => Samples' = Samples + 1
    <3>1. IsFiniteSet(Reported) /\ Cardinality(Reported) \in Nat
      BY SetsAreFinite
    <3>2. /\ Cardinality(Reported') \in Nat /\ Cardinality(Reported) <= Cardinality(Reported')
          /\ usage # NoUsage => Cardinality(Reported') = Cardinality(Reported) + 1
      BY <1>2, <3>1, OneMore
    <3> QED BY <1>5, <2>1, <3>1, <3>2 DEF Samples
  <2>3. /\ OrNothing(usage.tokens) \in Nat /\ OrNothing(usage.cache) \in Nat
        /\ usage = NoUsage => OrNothing(usage.tokens) = 0 /\ OrNothing(usage.cache) = 0
        /\ usage.cache = Absent => OrNothing(usage.cache) = 0
    BY UsageCounts
  <2>4. /\ CountedTokens' = CountedTokens + OrNothing(usage.tokens)
        /\ CountedCaches' = CountedCaches + OrNothing(usage.cache)
    BY <1>3, <1>5, <2>1, <2>3 DEF CountedTokens, CountedCaches
  <2>5. usage = NoUsage => usage.cache = Absent
    BY DEF NoUsage
  <2>6. CacheReported' = {} => CountedCaches' = 0
    <3> SUFFICES ASSUME CacheReported' = {}
                 PROVE  CountedCaches' = 0
      OBVIOUS
    <3>1. usage.cache = Absent /\ CacheReported = {}
      BY <1>2
    <3> QED BY <2>1, <2>3, <2>4, <3>1 DEF Summed
  <2>7. /\ CountedTokens' \in Nat /\ CountedCaches' \in Nat
        /\ CountedTokens <= CountedTokens' /\ CountedCaches <= CountedCaches'
    BY <2>1, <2>3, <2>4
  <2>8. CASE SameFigures(ledger, ledger') /\ ledger'.capped = TRUE
    <3>1. /\ ledger'.samples = ledger.samples /\ ledger'.tokens = ledger.tokens
          /\ ledger'.cache = ledger.cache
      BY <2>8 DEF SameFigures
    <3> QED BY <1>12, <1>13, <2>1, <2>2, <2>6, <2>7, <2>8, <3>1, SummedLeaving
  <2>9. CASE Placed(ledger, ledger', seq + 1, LastStep) /\ Unsampled(ledger, ledger', usage)
    <3>1. /\ ledger'.samples = ledger.samples /\ ledger'.tokens = ledger.tokens
          /\ ledger'.cache = ledger.cache /\ ledger'.capped = ledger.capped
          /\ \/ usage = NoUsage /\ ledger'.overflowed = ledger.overflowed
             \/ ledger'.overflowed
      BY <2>9 DEF Placed, Unsampled
    <3>2. usage = NoUsage => /\ Reported' = Reported /\ CacheReported' = CacheReported
                             /\ CountedTokens' = CountedTokens /\ CountedCaches' = CountedCaches
      BY <1>2, <2>1, <2>3, <2>4, <2>5
    <3> QED BY <1>12, <1>13, <2>1, <2>2, <2>6, <2>7, <3>1, <3>2, SummedLeaving
  <2>10. CASE /\ Placed(ledger, ledger', seq + 1, LastStep)
              /\ Counted(ledger, ledger', kind, LastStep, usage)
    <3>1. /\ usage # NoUsage /\ ledger'.samples = ledger.samples + 1
          /\ ledger'.tokens = ledger.tokens + usage.tokens
          /\ ledger'.capped = ledger.capped
          /\ Adding(ledger, ledger', usage.cache)
      BY <2>10 DEF Placed, Counted
    <3>2. usage.cache # Absent => CacheReported' # {}
      BY <1>2
    <3> QED BY <1>2, <1>13, <2>1, <2>2, <2>4, <3>1, <3>2, SummedCounting
  <2> QED BY <1>11, <2>8, <2>9, <2>10
<1>16. Missed'
  <2> DEFINE u == Cardinality(Unknown)
             uu == Cardinality(Unknown')
  <2>1. /\ u \in Nat /\ uu \in Nat /\ uu <= u + 1 /\ (usage # NoUsage => uu = u)
        /\ (usage = NoUsage => k \in Unknown')
    <3>1. IsFiniteSet(Unknown) /\ Cardinality(Unknown) \in Nat
      BY SetsAreFinite
    <3> QED BY <1>2, <3>1, OneMore
  <2>2. /\ ~ledger.capped => ledger.missing >= u /\ ledger.retries >= Cardinality(Retried)
        /\ ledger.missing > 0 => Unknown # {} \/ ledger.overflowed
        /\ ledger.retries > 0 => Retried # {}
    BY DEF Kept, Missed
  <2> HIDE DEF u, uu
  <2>3. \/ ledger'.capped /\ ledger'.missing = ledger.missing
        \/ /\ ledger'.missing = ledger.missing + 1
           /\ usage = NoUsage \/ ledger'.overflowed
        \/ usage # NoUsage /\ ledger'.missing = ledger.missing
    BY <1>11 DEF SameFigures, Placed, Unsampled, Counted
  <2>4. ~ledger'.capped => ledger'.missing >= uu
    BY <1>12, <1>13, <2>1, <2>2, <2>3
  <2>5. ~ledger'.capped => ledger'.retries >= Cardinality(Retried')
    BY <1>2, <1>12, <2>2
  <2>6. ledger'.missing > 0 => Unknown' # {} \/ ledger'.overflowed
    <3>1. Unknown # {} => Unknown' # {}
      BY <1>2
    <3> QED BY <1>12, <2>1, <2>2, <2>3, <3>1
  <2>7. ledger'.retries > 0 => Retried' # {}
    BY <1>2, <1>12, <2>2
  <2> QED BY <2>4, <2>5, <2>6, <2>7 DEF Missed, uu
<1>17. Stepped'
  <2>1. Stepped
    BY DEF Kept
  <2>2. \/ ledger'.capped /\ ledger'.settledSteps = ledger.settledSteps
        \/ ledger'.settledSteps = ledger.settledSteps \cup {LastStep}
    BY <1>11 DEF SameFigures, Placed
  <2>3. \A s \in ledger'.settledSteps : \E i \in Settled' : calls'[i].step = s
    BY <1>2, <1>8, <2>1, <2>2 DEF Stepped
  <2>4. ~ledger'.capped => \A i \in Settled' : calls'[i].step \in ledger'.settledSteps
    BY <1>2, <1>8, <1>12, <2>1, <2>2 DEF Stepped
  <2>5. \A s \in ledger'.startedSteps : \E i \in 1 .. Len(calls') : calls'[i].step = s
    BY <1>2, <1>8, <1>12, <2>1 DEF Stepped, n
  <2>6. sawTurnStart' /\ ~ledger'.capped =>
          \A i \in 1 .. Len(calls') : calls'[i].step \in ledger'.startedSteps
    BY <1>2, <1>5, <1>12, <2>1 DEF Stepped, n
  <2>7. \A s \in steps' : \E i \in 1 .. Len(calls') : calls'[i].step = s
    BY <1>2, <1>5, <1>8, <2>1 DEF Stepped, n
  <2>8. sawTurnStart' => \A i \in 1 .. Len(calls') : calls'[i].step \in steps'
    BY <1>2, <1>5, <2>1 DEF Stepped, n
  <2> QED BY <2>3, <2>4, <2>5, <2>6, <2>7, <2>8 DEF Stepped
<1> QED BY <1>14, <1>15, <1>16, <1>17 DEF Kept

\* A retry seen again changes no sum.
LEMMA KeptRetryReplayed ==
  ASSUME Types, World, Kept, NEW i \in 1 .. Len(calls), NEW fresh \in BOOLEAN,
         RetryReplayed(i, fresh)
  PROVE  World' /\ Kept'
<1> DEFINE key == NumberOf(calls[i].retry, fresh)
<1>1. /\ calls' = calls /\ ledger \in Ledger /\ i \in Retried
      /\ steps' = steps /\ sawTurnStart' = sawTurnStart /\ again' = again
      /\ key \in Nat /\ ledger' = NoteRetry(ledger, key)
  <2>1. key \in 1 .. seq' /\ calls' = calls /\ seq' \in Nat
    BY AfterReplay
  <2> QED BY <2>1 DEF RetryReplayed, SeenAgain, Types, Retried
<1> HIDE DEF key
<1>2. World'
  BY <1>1 DEF World, Callable, Ordered
<1>3. /\ Reported' = Reported /\ CacheReported' = CacheReported /\ Settled' = Settled
      /\ Unknown' = Unknown /\ Retried' = Retried
      /\ CallTokens' = CallTokens /\ CallCaches' = CallCaches
  BY <1>1 DEF Reported, CacheReported, Settled, Unknown, Retried, CallTokens, CallCaches
<1>4. /\ ledger'.tokens = ledger.tokens /\ ledger'.cache = ledger.cache
      /\ ledger'.sampledMessageSteps = ledger.sampledMessageSteps
      /\ ledger'.startedSteps = ledger.startedSteps
      /\ ledger'.settledSteps = ledger.settledSteps /\ ledger'.samples = ledger.samples
      /\ ledger'.missing = ledger.missing /\ ledger'.overflowed = ledger.overflowed
      /\ ledger.capped => ledger'.capped
      /\ ledger.settlements \subseteq ledger'.settlements
      /\ Full(ledger) => Full(ledger')
      /\ ledger'.retries = ledger.retries \/ ledger'.retries = ledger.retries + 1
      /\ ledger'.capped = ledger.capped \/ ledger'.capped
  <2>1. \/ ledger' = ledger
        \/ SameFigures(ledger, ledger') /\ ledger'.capped = TRUE
        \/ /\ ~Full(ledger)
           /\ ledger' = [ledger EXCEPT !.settlements = @ \cup {key}, !.retries = @ + 1]
    BY <1>1, NoteRetryIs
  <2>2. CASE ledger' = ledger
    BY <2>2
  <2>3. CASE SameFigures(ledger, ledger') /\ ledger'.capped = TRUE
    BY <2>3 DEF SameFigures, Full
  <2>4. CASE /\ ~Full(ledger)
             /\ ledger' = [ledger EXCEPT !.settlements = @ \cup {key}, !.retries = @ + 1]
    BY <1>1, <2>4 DEF Ledger
  <2> QED BY <2>1, <2>2, <2>3, <2>4
<1>5. ledger.retries \in Nat /\ ledger.capped \in BOOLEAN /\ Cardinality(Retried) \in Nat
  BY <1>1, SetsAreFinite DEF Ledger
<1>6. Sampled'
  BY <1>1, <1>3, <1>4 DEF Kept, Sampled
<1>7. Summed'
  BY <1>1, <1>3, <1>4 DEF Kept, Summed, Samples, CountedTokens, CountedCaches
<1>8. Missed'
  <2>1. ~ledger'.capped => ledger'.retries >= Cardinality(Retried)
    BY <1>4, <1>5 DEF Kept, Missed
  <2> QED BY <1>1, <1>3, <1>4, <2>1 DEF Kept, Missed
<1>9. Stepped'
  BY <1>1, <1>3, <1>4 DEF Kept, Stepped
<1> QED BY <1>2, <1>6, <1>7, <1>8, <1>9 DEF Kept

\* A settlement seen again adds to no sum that still counts, unless it is an attempt's
\* under a fresh number.
LEMMA KeptSettlementReplayed ==
  ASSUME Types, Types', World, Kept, NEW i \in 1 .. Len(calls), NEW fresh \in BOOLEAN,
         SettlementReplayed(i, fresh)
  PROVE  World' /\ Kept'
<1> DEFINE c == calls[i]
           key == NumberOf(c.seq, fresh)
           copied == fresh /\ c.outcome = "attempt" /\ c.usage # NoUsage
<1>1. /\ calls' = calls /\ c \in Call /\ ledger \in Ledger
      /\ c.outcome \in {"message", "attempt"}
      /\ sawTurnStart' = sawTurnStart /\ steps' = steps \cup {c.step}
      /\ key \in Nat /\ ledger' = AddSettlement(ledger, key, c.outcome, c.step, c.usage)
  <2>1. key \in 1 .. seq' /\ calls' = calls /\ seq' \in Nat /\ c \in Call
    BY AfterReplay
  <2> QED BY <2>1 DEF SettlementReplayed, SeenAgain, MarkStep, Types
<1>2. c.step \in Nat /\ c.usage \in Usages
  BY <1>1 DEF Call
<1>3. again' = IF copied THEN [samples |-> again.samples + 1,
                               tokens |-> again.tokens + c.usage.tokens,
                               caches |-> again.caches + OrNothing(c.usage.cache)]
               ELSE again
  BY DEF SettlementReplayed
<1>4. fresh => key \notin ledger.settlements
  <2>1. seq \in Nat /\ ledger.settlements \subseteq 1 .. seq
    BY DEF Types
  <2>2. seq + 1 \notin 1 .. seq
    BY <2>1
  <2> QED BY <2>1, <2>2 DEF NumberOf
<1>5. ~fresh => key = c.seq
  BY DEF NumberOf
<1>6. /\ i \in Settled
      /\ c.usage # NoUsage => i \in Reported
      /\ c.usage # NoUsage /\ c.usage.cache # Absent => i \in CacheReported
      /\ c.usage = NoUsage => i \in Unknown
  BY <1>1 DEF Settled, Reported, CacheReported, Unknown
<1>7. World'
  BY <1>1 DEF World, Callable, Ordered
<1>8. /\ Reported' = Reported /\ CacheReported' = CacheReported /\ Settled' = Settled
      /\ Unknown' = Unknown /\ Retried' = Retried
      /\ CallTokens' = CallTokens /\ CallCaches' = CallCaches
  BY <1>1 DEF Reported, CacheReported, Settled, Unknown, Retried, CallTokens, CallCaches
<1>9. Settles(ledger, ledger', key, c.outcome, c.step, c.usage)
  BY <1>1, <1>2, AddSettlementIs
<1>10. Kept
  OBVIOUS
<1> HIDE DEF c, key
<1>11. /\ ledger.samples \in Nat /\ ledger.tokens \in Nat /\ ledger.missing \in Nat
       /\ ledger.cache \in Nat \cup {Absent} /\ ledger.capped \in BOOLEAN
  BY <1>1, UsageAssumption DEF Ledger
\* Where it counts, it is a message after an overflow or an attempt's copy.
<1>12. ASSUME Placed(ledger, ledger', key, c.step),
              Counted(ledger, ledger', c.outcome, c.step, c.usage),
              ~Repeats(ledger, key, c.outcome, c.step, c.usage)
       PROVE  /\ c.usage # NoUsage /\ i \in Reported
              /\ (c.outcome = "message" /\ ledger.overflowed) \/ copied
  <2>1. c.usage # NoUsage /\ i \in Reported /\ ~Full(ledger) /\ key \notin ledger.settlements
    BY <1>6, <1>12 DEF Counted, Placed
  <2>2. \/ /\ c.outcome = "message"
           /\ c.step \in ledger.sampledMessageSteps \/ ledger.overflowed
        \/ c.outcome = "attempt" /\ c.seq \in ledger.settlements
    BY <1>10, <2>1 DEF Kept, Sampled, c
  <2>3. c.outcome = "message" => c.step \notin ledger.sampledMessageSteps
    BY <1>12, <2>1 DEF Repeats
  <2>4. c.outcome = "attempt" => fresh
    BY <1>5, <2>1, <2>2
  <2> QED BY <2>1, <2>2, <2>3, <2>4
<1>13. /\ ledger'.startedSteps = ledger.startedSteps /\ ledger'.retries = ledger.retries
       /\ ledger.overflowed => ledger'.overflowed
       /\ ledger.capped => ledger'.capped
       /\ ledger.settlements \subseteq ledger'.settlements
       /\ Full(ledger) => Full(ledger')
       /\ \/ ledger'.settledSteps = ledger.settledSteps
          \/ ledger'.settledSteps = ledger.settledSteps \cup {c.step}
       /\ \/ ledger'.sampledMessageSteps = ledger.sampledMessageSteps
          \/ /\ ledger'.sampledMessageSteps = ledger.sampledMessageSteps \cup {c.step}
             /\ i \in Reported /\ c.outcome = "message"
       /\ ledger'.missing = ledger.missing \/
            (ledger'.missing = ledger.missing + 1 /\ (i \in Unknown \/ ledger'.overflowed))
  <2>1. CASE ledger' = ledger
    BY <2>1
  <2>2. CASE SameFigures(ledger, ledger') /\ ledger'.capped = TRUE
    BY <2>2 DEF SameFigures, Full
  <2>3. CASE Placed(ledger, ledger', key, c.step) /\ Unsampled(ledger, ledger', c.usage)
    BY <1>6, <2>3 DEF Placed, Unsampled
  <2>4. CASE /\ ~Repeats(ledger, key, c.outcome, c.step, c.usage)
             /\ Placed(ledger, ledger', key, c.step)
             /\ Counted(ledger, ledger', c.outcome, c.step, c.usage)
    BY <1>12, <2>4 DEF Counted, Placed, Adding
  <2> QED BY <1>9, <2>1, <2>2, <2>3, <2>4 DEF Settles
<1>14. Sampled'
  <2>1. \A j \in Reported :
          \/ /\ calls[j].outcome = "message"
             /\ calls[j].step \in ledger'.sampledMessageSteps \/ ledger'.overflowed
          \/ calls[j].outcome = "attempt" /\ calls[j].seq \in ledger'.settlements
          \/ Full(ledger')
    BY <1>10, <1>13 DEF Kept, Sampled
  <2>2. \A s \in ledger'.sampledMessageSteps :
          \E j \in Reported : calls[j].step = s /\ calls[j].outcome = "message"
    BY <1>10, <1>13 DEF Kept, Sampled, c
  <2> QED BY <1>1, <1>8, <2>1, <2>2 DEF Sampled
<1>15. Summed'
  <2>1. /\ Summed /\ CountedTokens \in Nat /\ CountedCaches \in Nat
        /\ again.samples \in Nat /\ again.tokens \in Nat /\ again.caches \in Nat
        /\ CallTokens \in Nat /\ CallCaches \in Nat
    BY <1>10, CountedAre, SumsAre DEF Kept
  <2>2. Cardinality(Reported) \in Nat
    BY SetsAreFinite
  <2>3. /\ OrNothing(c.usage.tokens) \in Nat /\ OrNothing(c.usage.cache) \in Nat
        /\ c.usage # NoUsage => OrNothing(c.usage.tokens) = c.usage.tokens
        /\ c.usage.cache = Absent => OrNothing(c.usage.cache) = 0
    BY <1>2, UsageCounts
  <2>4. copied => /\ Samples' = Samples + 1
                  /\ CountedTokens' = CountedTokens + OrNothing(c.usage.tokens)
                  /\ CountedCaches' = CountedCaches + OrNothing(c.usage.cache)
    <3> SUFFICES ASSUME copied
                 PROVE  /\ Samples' = Samples + 1
                        /\ CountedTokens' = CountedTokens + OrNothing(c.usage.tokens)
                        /\ CountedCaches' = CountedCaches + OrNothing(c.usage.cache)
      OBVIOUS
    <3> DEFINE t == OrNothing(c.usage.tokens)
               u == OrNothing(c.usage.cache)
    <3>1. c.usage.tokens = t
      BY <2>3
    <3>2. /\ again'.samples = again.samples + 1 /\ again'.tokens = again.tokens + t
          /\ again'.caches = again.caches + u
      BY <1>3, <3>1
    <3>3. t \in Nat /\ u \in Nat
      BY <2>3
    <3> HIDE DEF copied, t, u
    <3>4. Samples' = Samples + 1
      <4>1. Samples' = Cardinality(Reported) + again'.samples
        BY <1>8 DEF Samples
      <4> QED BY <2>1, <2>2, <3>2, <4>1 DEF Samples
    <3>5. CountedTokens' = CountedTokens + t
      <4>1. CountedTokens' = CallTokens + again'.tokens
        BY <1>8 DEF CountedTokens
      <4> QED BY <2>1, <3>2, <3>3, <4>1 DEF CountedTokens
    <3>6. CountedCaches' = CountedCaches + u
      <4>1. CountedCaches' = CallCaches + again'.caches
        BY <1>8 DEF CountedCaches
      <4> QED BY <2>1, <3>2, <3>3, <4>1 DEF CountedCaches
    <3> QED BY <3>4, <3>5, <3>6 DEF t, u
  <2>5. ~copied => /\ Samples' = Samples /\ CountedTokens' = CountedTokens
                   /\ CountedCaches' = CountedCaches
    BY <1>3, <1>8 DEF Samples, CountedTokens, CountedCaches
  <2>6. Samples \in Nat
    BY <2>1, <2>2 DEF Samples
  <2>7. /\ Samples' \in Nat /\ CountedTokens' \in Nat /\ CountedCaches' \in Nat
        /\ Samples <= Samples' /\ CountedTokens <= CountedTokens'
        /\ CountedCaches <= CountedCaches'
    <3> HIDE DEF copied
    <3> QED BY <2>1, <2>3, <2>4, <2>5, <2>6
  <2>8. CacheReported' = {} => CountedCaches' = 0
    <3> SUFFICES ASSUME CacheReported = {}
                 PROVE  CountedCaches' = 0
      BY <1>8
    <3>1. copied => c.usage.cache = Absent
      BY <1>6
    <3> HIDE DEF copied
    <3> QED BY <2>1, <2>3, <2>4, <2>5, <3>1 DEF Summed
  <2>9. CASE ledger' = ledger /\ Repeats(ledger, key, c.outcome, c.step, c.usage)
    <3>1. ~copied
      BY <1>4, <2>9 DEF Repeats
    <3> HIDE DEF copied
    <3> QED BY <1>8, <1>11, <2>1, <2>5, <2>6, <2>7, <2>8, <2>9, <3>1, SummedLeaving
  <2>10. CASE SameFigures(ledger, ledger') /\ ledger'.capped = TRUE
    <3>1. /\ ledger'.samples = ledger.samples /\ ledger'.tokens = ledger.tokens
          /\ ledger'.cache = ledger.cache
      BY <2>10 DEF SameFigures
    <3> HIDE DEF copied
    <3> QED BY <1>11, <1>13, <2>1, <2>6, <2>7, <2>8, <2>10, <3>1, SummedLeaving
  <2>11. CASE Placed(ledger, ledger', key, c.step) /\ Unsampled(ledger, ledger', c.usage)
    <3>1. /\ ledger'.samples = ledger.samples /\ ledger'.tokens = ledger.tokens
          /\ ledger'.cache = ledger.cache /\ ledger'.capped = ledger.capped
          /\ \/ ~copied /\ ledger'.overflowed = ledger.overflowed
             \/ ledger'.overflowed
      BY <2>11 DEF Placed, Unsampled
    <3> HIDE DEF copied
    <3> QED BY <1>8, <1>11, <1>13, <2>1, <2>5, <2>6, <2>7, <2>8, <3>1, SummedLeaving
  <2>12. CASE /\ ~Repeats(ledger, key, c.outcome, c.step, c.usage)
              /\ Placed(ledger, ledger', key, c.step)
              /\ Counted(ledger, ledger', c.outcome, c.step, c.usage)
    <3>1. /\ c.usage # NoUsage /\ ledger'.samples = ledger.samples + 1
          /\ ledger'.tokens = ledger.tokens + c.usage.tokens
          /\ ledger'.capped = ledger.capped
          /\ Adding(ledger, ledger', c.usage.cache)
      BY <2>12 DEF Placed, Counted
    <3>2. (c.outcome = "message" /\ ledger.overflowed) \/ copied
      BY <1>12, <2>12
    <3>3. CASE ledger.overflowed
      BY <1>13, <2>8, <3>3 DEF Summed
    <3>4. CASE copied
      <4>1. /\ Samples' = Samples + 1
            /\ CountedTokens' = CountedTokens + OrNothing(c.usage.tokens)
            /\ CountedCaches' = CountedCaches + OrNothing(c.usage.cache)
        BY <2>4, <3>4
      <4>2. c.usage.cache # Absent => CacheReported' # {}
        BY <1>6, <1>8, <3>1
      <4> HIDE DEF copied
      <4> QED BY <1>2, <1>8, <1>11, <2>1, <2>6, <3>1, <4>1, <4>2, SummedCounting
    <3> QED BY <3>2, <3>3, <3>4
  <2> QED BY <1>9, <2>9, <2>10, <2>11, <2>12 DEF Settles
<1>16. Missed'
  <2>1. /\ Cardinality(Unknown) \in Nat
    BY SetsAreFinite
  <2>2. ~ledger'.capped => /\ ledger'.missing >= Cardinality(Unknown)
                           /\ ledger'.retries >= Cardinality(Retried)
    BY <1>10, <1>11, <1>13, <2>1 DEF Kept, Missed
  <2>3. ledger'.missing > 0 => Unknown # {} \/ ledger'.overflowed
    BY <1>10, <1>13 DEF Kept, Missed
  <2>4. ledger'.retries > 0 => Retried # {}
    BY <1>10, <1>13 DEF Kept, Missed
  <2> QED BY <1>8, <2>2, <2>3, <2>4 DEF Missed
<1>17. Stepped'
  <2>1. Stepped /\ i \in 1 .. Len(calls) /\ calls[i].step = c.step
    BY <1>10 DEF Kept, c
  <2>2. \A s \in ledger'.settledSteps : \E j \in Settled : calls[j].step = s
    BY <1>6, <1>13, <2>1 DEF Stepped
  <2>3. ~ledger'.capped => \A j \in Settled : calls[j].step \in ledger'.settledSteps
    BY <1>13, <2>1 DEF Stepped
  <2>4. /\ \A s \in ledger'.startedSteps : \E j \in 1 .. Len(calls) : calls[j].step = s
        /\ sawTurnStart' /\ ~ledger'.capped =>
             \A j \in 1 .. Len(calls) : calls[j].step \in ledger'.startedSteps
    BY <1>1, <1>13, <2>1 DEF Stepped
  <2>5. /\ \A s \in steps' : \E j \in 1 .. Len(calls) : calls[j].step = s
        /\ sawTurnStart' => \A j \in 1 .. Len(calls) : calls[j].step \in steps'
    BY <1>1, <2>1 DEF Stepped
  <2> QED BY <1>1, <1>8, <2>2, <2>3, <2>4, <2>5 DEF Stepped
<1> QED BY <1>7, <1>14, <1>15, <1>16, <1>17 DEF Kept
-----------------------------------------------------------------------------
\* The theorems.

IInv == Types /\ Accounted /\ World /\ Kept

\* The ledger keeps up with every turn.
LEMMA InductiveInvariant == Spec => []IInv
<1>1. Init => IInv
  BY TypesInit, KeptInit DEF IInv
<1>2. IInv /\ [Next]_vars => IInv'
  <2> SUFFICES ASSUME IInv, [Next]_vars
               PROVE  World' /\ Kept'
    BY TypesNext DEF IInv
  <2> USE DEF IInv
  <2>0. Types'
    BY TypesNext
  <2>1. CASE StepStart
    BY <2>1, GrowsOnStepStart, KeptStepStart
  <2>2. ASSUME NEW kind \in {"message", "attempt"}, NEW usage \in Usages, CallSettles(kind, usage)
        PROVE  World' /\ Kept'
    <3>1. LastStep \in Nat /\ Settlement(kind, usage)
      BY <2>2, LastIs DEF CallSettles
    <3>2. World' /\ CallsSettle(Len(calls), kind, usage)
      BY <2>2, SettlesOnCallSettles
    <3> QED BY <3>1, <3>2, KeptSettlement
  <2>3. CASE CallRetried
    BY <2>3, GrowsOnCallRetried, KeptCallRetried
  <2>4. ASSUME NEW i \in 1 .. Len(calls), NEW fresh \in BOOLEAN, RetryReplayed(i, fresh)
        PROVE  World' /\ Kept'
    BY <2>4, KeptRetryReplayed
  <2>6. ASSUME NEW i \in 1 .. Len(calls), NEW fresh \in BOOLEAN, SettlementReplayed(i, fresh)
        PROVE  World' /\ Kept'
    BY <2>0, <2>6, KeptSettlementReplayed
  <2>7. ASSUME NEW usage \in Usages, SettlesAgain(usage)
        PROVE  World' /\ Kept'
    <3>1. LastStep \in Nat /\ Settlement("message", usage)
      BY <2>7, LastIs DEF SettlesAgain
    <3>2. World' /\ CallsSettle(Len(calls) + 1, "message", usage)
      BY <2>7, SettlesOnSettlesAgain
    <3> QED BY <3>1, <3>2, KeptSettlement
  <2>5. CASE UNCHANGED vars
    <3>1. /\ ledger' = ledger /\ steps' = steps /\ sawTurnStart' = sawTurnStart
          /\ calls' = calls /\ again' = again
      BY <2>5 DEF vars
    <3>2. World'
      BY <3>1 DEF World, Callable, Ordered
    <3>3. /\ Reported' = Reported /\ CacheReported' = CacheReported /\ Settled' = Settled
          /\ Unknown' = Unknown /\ Retried' = Retried
          /\ CallTokens' = CallTokens /\ CallCaches' = CallCaches
      BY <3>1 DEF Reported, CacheReported, Settled, Unknown, Retried, CallTokens, CallCaches
    <3>4. Kept'
      BY <3>1, <3>3 DEF Kept, Sampled, Summed, Missed, Stepped, Full, Samples,
         CountedTokens, CountedCaches
    <3> QED BY <3>2, <3>4
  <2> QED BY <2>1, <2>2, <2>3, <2>4, <2>5, <2>6, <2>7 DEF Next
<1> QED BY <1>1, <1>2, PTL DEF Spec

\* What a mail prints of a turn's usage never exceeds what the turn's calls reported,
\* an attempt's report counted once more for each copy under a fresh number, and the
\* mail counts no step twice, in turns of any length, replayed at any point.
THEOREM NeverOverstates == Spec => []NeverOverstated
<1>1. IInv => NeverOverstated
  <2> SUFFICES ASSUME IInv
               PROVE  NeverOverstated
    OBVIOUS
  <2> DEFINE made == {calls[i].step : i \in DOMAIN calls}
  <2>1. calls \in Seq(Call) /\ Len(calls) \in Nat /\ DOMAIN calls = 1 .. Len(calls)
    BY LenProperties DEF IInv, Types
  <2>2. \A i \in 1 .. Len(calls) : calls[i].step \in 1 .. Len(calls)
    <3> SUFFICES ASSUME NEW i \in 1 .. Len(calls)
                 PROVE  calls[i].step \in 1 .. Len(calls)
      OBVIOUS
    <3>1. calls[i] \in Call
      BY <2>1, ElementOfSeq
    <3>2. calls[i].step \in Nat \ {0} /\ calls[i].step <= i
      BY <3>1 DEF Call, IInv, World, Callable
    <3> QED BY <2>1, <3>2
  <2>3. IsFiniteSet(made)
    <3>1. made \subseteq 1 .. Len(calls)
      BY <2>1, <2>2
    <3>2. IsFiniteSet(1 .. Len(calls))
      BY <2>1, FS_Interval
    <3> QED BY <3>1, <3>2, FS_Subset
  <2>4. steps \subseteq made /\ (sawTurnStart => steps = made)
    BY <2>1 DEF IInv, Kept, Stepped
  <2> HIDE DEF made
  <2>5. Cardinality(steps) <= Cardinality(made)
    BY <2>3, <2>4, FS_Subset
  <2>6. PrintsUsage(ledger) => /\ ledger.samples <= Samples
                               /\ ledger.tokens <= CountedTokens
                               /\ ledger.cache <= CountedCaches
    BY DEF IInv, Kept, Summed, PrintsUsage
  <2> QED BY <2>4, <2>5, <2>6 DEF NeverOverstated, made
<1> QED BY <1>1, InductiveInvariant, PTL

\* A mail calls a turn's usage complete only when every call of the turn is in the
\* figures, and always when besides nothing was retried, unseen, out of range or over a
\* cap; what is not in them is counted as missing or as a retry.
THEOREM CompletelyTold == Spec => []CompleteIsComplete
<1>1. IInv => CompleteIsComplete
  <2> SUFFICES ASSUME IInv
               PROVE  CompleteIsComplete
    OBVIOUS
  <2> DEFINE all == 1 .. Len(calls)
             left == ledger.startedSteps \ ledger.settledSteps
             Failed == {i \in all : calls[i].outcome = "failed"}
             Opened == {i \in all : calls[i].outcome = "open"}
  <2>1. /\ ledger.missing \in Nat /\ ledger.retries \in Nat
        /\ IsFiniteSet(left) /\ Cardinality(left) \in Nat
    <3>1. ledger \in Ledger /\ IsFiniteSet(ledger.startedSteps)
      BY DEF IInv, Types
    <3>2. IsFiniteSet(left)
      BY <3>1, FS_Subset
    <3> QED BY <3>1, <3>2, FS_CardinalityType DEF Ledger
  <2>2. MissingCount(ledger) = ledger.missing + Cardinality(left)
    BY DEF MissingCount
  <2>3. /\ IsFiniteSet(Reported) /\ IsFiniteSet(Unknown) /\ IsFiniteSet(Failed)
        /\ Cardinality(Unknown) \in Nat /\ Cardinality(Failed) \in Nat
        /\ IsFiniteSet(Retried) /\ Cardinality(Retried) \in Nat
        /\ Failed \subseteq Retried /\ Cardinality(Failed) <= Cardinality(Retried)
    <3>1. /\ IsFiniteSet(Reported) /\ IsFiniteSet(Unknown) /\ Cardinality(Unknown) \in Nat
          /\ IsFiniteSet(Retried) /\ Cardinality(Retried) \in Nat
      BY SetsAreFinite DEF IInv
    <3>2. Failed \subseteq Retried
      BY DEF IInv, World, Callable, Retried
    <3>3. IsFiniteSet(Failed)
      BY <3>1, <3>2, FS_Subset
    <3>4. Cardinality(Failed) \in Nat /\ Cardinality(Failed) <= Cardinality(Retried)
      BY <3>1, <3>2, <3>3, FS_Subset, FS_CardinalityType
    <3> QED BY <3>1, <3>2, <3>3, <3>4
  <2>4. \A i \in all : calls[i].outcome \in {"open", "message", "attempt", "failed"}
    <3> SUFFICES ASSUME NEW i \in all
                 PROVE  calls[i].outcome \in {"open", "message", "attempt", "failed"}
      OBVIOUS
    <3>1. calls[i] \in Call
      BY ElementOfSeq DEF IInv, Types
    <3> QED BY <3>1 DEF Call
  <2>5. all \ Reported \subseteq Unknown \cup Failed \cup Opened
    BY <2>4 DEF Reported, Unknown, Settled
  <2>6. Opened \subseteq {Len(calls)} /\ Opened \cap Reported = {} /\ Failed \cap Reported = {}
        /\ Unknown \cap Reported = {}
    <3>1. \A i \in all : Callable(i)
      BY DEF IInv, World
    <3> QED BY <3>1 DEF Callable, Reported, Unknown
  <2>7. ASSUME NEW i \in Opened, calls[i].step \in ledger.settledSteps
        PROVE  \E j \in Retried : j \notin Failed
    <3>1. PICK j \in Settled : calls[j].step = calls[i].step
      BY <2>7 DEF IInv, Kept, Stepped
    <3>2. /\ j \in all /\ calls[j].outcome \in {"message", "attempt"}
          /\ i \in all /\ i = Len(calls) /\ calls[i].outcome = "open" /\ j # i
      BY <2>6, <3>1 DEF Settled
    <3>3. j < i
      BY <3>2
    <3>4. Ordered(i, j)
      BY <3>2, <3>3 DEF IInv, World
    <3>5. calls[j].retry # 0
      BY <3>1, <3>2, <3>4 DEF Ordered, SameStep
    <3> QED BY <3>2, <3>5 DEF Retried
  <2>8. sawTurnStart /\ ~ledger.capped =>
          /\ \A i \in Opened : calls[i].step \in left \/ calls[i].step \in ledger.settledSteps
          /\ Cardinality(left) + Cardinality(Retried) >= Cardinality(Failed) + Cardinality(Opened)
    <3> SUFFICES ASSUME sawTurnStart, ~ledger.capped
                 PROVE  /\ \A i \in Opened : \/ calls[i].step \in left
                                            \/ calls[i].step \in ledger.settledSteps
                        /\ Cardinality(left) + Cardinality(Retried) >=
                             Cardinality(Failed) + Cardinality(Opened)
      OBVIOUS
    <3>1. \A i \in Opened : calls[i].step \in left \/ calls[i].step \in ledger.settledSteps
      BY DEF IInv, Kept, Stepped
    <3>2. CASE Opened = {}
      <4>1. Cardinality(Opened) = 0
        BY <3>2, FS_EmptySet
      <4> HIDE DEF left, Opened, Failed
      <4> QED BY <2>1, <2>3, <3>1, <4>1
    <3>3. CASE Opened # {}
      <4>1. Opened = {Len(calls)}
        BY <2>6, <3>3
      <4>2. Cardinality(Opened) = 1
        BY <4>1, FS_Singleton
      <4>3. CASE left # {}
        <5>1. Cardinality(left) # 0
          BY <2>1, <4>3, FS_EmptySet
        <5> HIDE DEF left, Opened, Failed
        <5> QED BY <2>1, <2>3, <3>1, <4>2, <5>1
      <4>4. CASE left = {}
        <5>1. \E i \in Opened : calls[i].step \in ledger.settledSteps
          BY <3>1, <3>3, <4>4
        <5> HIDE DEF left, Opened
        <5>2. PICK j \in Retried : j \notin Failed
          BY <2>7, <5>1
        <5> HIDE DEF Failed
        <5>3. /\ IsFiniteSet(Failed \cup {j})
              /\ Cardinality(Failed \cup {j}) = Cardinality(Failed) + 1
          BY <2>3, <5>2, FS_AddElement
        <5>4. Failed \cup {j} \subseteq Retried
          BY <2>3, <5>2
        <5>5. Cardinality(Failed \cup {j}) <= Cardinality(Retried)
          BY <2>3, <5>4, FS_Subset
        <5> QED BY <2>1, <2>3, <3>1, <4>2, <5>3, <5>5
      <4> QED BY <4>3, <4>4
    <3> QED BY <3>2, <3>3
  <2> HIDE DEF all, left, Opened, Failed
  <2>9. Complete(ledger, sawTurnStart) =>
          /\ sawTurnStart /\ ~ledger.overflowed /\ ~ledger.capped
          /\ ledger.retries = 0 /\ ledger.missing = 0 /\ Cardinality(left) = 0
          /\ ledger.samples > 0
    BY <2>1, <2>2 DEF Complete
  <2>10. Complete(ledger, sawTurnStart) =>
           /\ Reported = all
           /\ ledger.tokens = CountedTokens
           /\ ledger.cache = IF CacheReported = {} THEN Absent ELSE CountedCaches
    <3> SUFFICES ASSUME Complete(ledger, sawTurnStart)
                 PROVE  /\ Reported = all
                        /\ ledger.tokens = CountedTokens
                        /\ ledger.cache = IF CacheReported = {} THEN Absent ELSE CountedCaches
      OBVIOUS
    <3>1. Cardinality(Unknown) = 0 /\ Cardinality(Retried) = 0
      BY <2>3, <2>9 DEF IInv, Kept, Missed
    <3>2. Unknown = {} /\ Retried = {} /\ Failed = {} /\ left = {}
      BY <2>1, <2>3, <2>9, <3>1, FS_EmptySet
    <3>3. Opened = {}
      BY <2>7, <2>8, <2>9, <3>2
    <3>4. Reported = all
      BY <2>5, <3>2, <3>3 DEF Reported, all
    <3> QED BY <2>9, <3>4 DEF IInv, Kept, Summed
  <2>11. sawTurnStart /\ ~ledger.capped =>
           MissingCount(ledger) + ledger.retries >= Cardinality(all \ Reported)
    <3> SUFFICES ASSUME sawTurnStart, ~ledger.capped
                 PROVE  MissingCount(ledger) + ledger.retries >= Cardinality(all \ Reported)
      OBVIOUS
    <3> DEFINE u == Cardinality(Unknown)
               f == Cardinality(Failed)
               o == Cardinality(Opened)
               UF == Unknown \cup Failed
               UFO == UF \cup Opened
    <3>1. IsFiniteSet(Opened) /\ o \in Nat
      <4>1. IsFiniteSet({Len(calls)})
        BY FS_Singleton
      <4>2. IsFiniteSet(Opened)
        BY <2>6, <4>1, FS_Subset
      <4> QED BY <4>2, FS_CardinalityType
    <3>2. IsFiniteSet(UF) /\ Cardinality(UF) \in Nat /\ Cardinality(UF) <= u + f
      <4>1. /\ IsFiniteSet(UF) /\ IsFiniteSet(Unknown \cap Failed)
            /\ Cardinality(UF) = u + f - Cardinality(Unknown \cap Failed)
        BY <2>3, FS_Union, FS_Intersection
      <4>2. Cardinality(Unknown \cap Failed) \in Nat /\ Cardinality(UF) \in Nat
        BY <4>1, FS_CardinalityType
      <4> HIDE DEF u, f, UF
      <4>3. u \in Nat /\ f \in Nat
        BY <2>3 DEF u, f
      <4> QED BY <4>1, <4>2, <4>3
    <3>3. IsFiniteSet(UFO) /\ Cardinality(UFO) \in Nat /\ Cardinality(UFO) <= u + f + o
      <4> HIDE DEF UF
      <4>1. /\ IsFiniteSet(UFO) /\ IsFiniteSet(UF \cap Opened)
            /\ Cardinality(UFO) = Cardinality(UF) + o - Cardinality(UF \cap Opened)
        BY <3>1, <3>2, FS_Union, FS_Intersection
      <4>2. Cardinality(UF \cap Opened) \in Nat /\ Cardinality(UFO) \in Nat
        BY <4>1, FS_CardinalityType
      <4> HIDE DEF u, f, o, UFO
      <4>3. u \in Nat /\ f \in Nat /\ o \in Nat
        BY <2>3, <3>1 DEF u, f, o
      <4> QED BY <3>2, <4>1, <4>2, <4>3
    <3>4. Cardinality(all \ Reported) <= Cardinality(UFO) /\ Cardinality(all \ Reported) \in Nat
      <4>1. all \ Reported \subseteq UFO
        BY <2>5
      <4>2. IsFiniteSet(all \ Reported)
        BY <3>3, <4>1, FS_Subset
      <4> QED BY <3>3, <4>1, <4>2, FS_Subset, FS_CardinalityType
    <3>5. /\ ledger.missing >= u /\ ledger.retries >= Cardinality(Retried)
          /\ Cardinality(left) + Cardinality(Retried) >= f + o
      BY <2>8 DEF IInv, Kept, Missed
    <3> DEFINE r == Cardinality(all \ Reported)
    <3>6. /\ u \in Nat /\ f \in Nat /\ o \in Nat /\ r \in Nat /\ r <= u + f + o
      BY <2>3, <3>1, <3>3, <3>4
    <3> HIDE DEF u, f, o, r, UF, UFO
    <3>7. ledger.missing + Cardinality(left) + ledger.retries >= r
      BY <2>1, <2>3, <3>5, <3>6
    <3> QED BY <2>2, <3>7 DEF r
  <2>12. /\ sawTurnStart /\ calls # <<>> /\ ~ledger.overflowed /\ ~ledger.capped
         /\ Reported = all /\ \A i \in all : calls[i].retry = 0
         => Complete(ledger, sawTurnStart)
    <3> SUFFICES ASSUME sawTurnStart, calls # <<>>, Reported = all, ~ledger.overflowed,
                        ~ledger.capped, \A i \in all : calls[i].retry = 0
                 PROVE  Complete(ledger, sawTurnStart)
      OBVIOUS
    <3>1. Unknown = {} /\ Retried = {}
      <4>1. Unknown \subseteq Reported /\ Retried \subseteq all
        BY DEF all, Unknown, Settled, Retried
      <4> QED BY <2>6, <4>1 DEF Retried
    <3>2. ledger.missing = 0 /\ ledger.retries = 0
      BY <2>1, <3>1 DEF IInv, Kept, Missed
    <3>3. left = {}
      <4> SUFFICES ASSUME NEW s \in ledger.startedSteps
                   PROVE  s \in ledger.settledSteps
        BY DEF left
      <4>1. PICK i \in all : calls[i].step = s
        BY DEF IInv, Kept, Stepped, all
      <4>2. i \in Settled
        BY <4>1 DEF Reported, IInv, World, Callable, Settled, all
      <4> QED BY <4>1, <4>2 DEF IInv, Kept, Stepped
    <3>4. Reported # {}
      <4>1. Len(calls) \in all
        BY LastIs DEF IInv, all
      <4> QED BY <4>1
    <3>5. ledger.samples > 0
      BY <3>4 DEF IInv, Kept, Summed
    <3>6. MissingCount(ledger) = 0
      BY <2>2, <3>2, <3>3, FS_EmptySet
    <3> QED BY <3>2, <3>5, <3>6 DEF Complete
  <2> QED BY <2>10, <2>11, <2>12 DEF CompleteIsComplete, all
<1> QED BY <1>1, InductiveInvariant, PTL
=============================================================================
