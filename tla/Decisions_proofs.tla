-------------------------- MODULE Decisions_proofs --------------------------
(***************************************************************************)
(* Proofs about Decisions for every input, where TLC only draws from small *)
(* sets.                                                                   *)
(***************************************************************************)
EXTENDS Decisions, Ordinals, TLAPS

-----------------------------------------------------------------------------
\* What was drawn.

Drawn ==
  /\ kind = "attempt" => input \in Attempts
  /\ kind = "verdict" => input \in Verdicts
  /\ kind = "call" => input \in Calls
  /\ kind = "document" => input \in Documents
  /\ kind = "header" => input \in Headers
  /\ kind = "message" => input \in Messages
  /\ kind = "event" => input \in TurnEvents
  /\ kind = "tool-result" => input \in ToolResults
  /\ kind = "reason" => input \in Reasons
  /\ kind = "mail" => input \in Mails
  /\ kind = "approval" => input \in Approvals
  /\ kind = "exchange" => input \in Exchanges
  /\ kind = "result" => input \in Results
  /\ kind = "description" => input \in Descriptions
  /\ kind = "emission" => input \in Emissions
  /\ kind = "card" => input \in Cards
  /\ kind = "draft" => input \in Controls
  /\ kind = "stored" => input \in StoredValues

LEMMA InputsAreDrawn == Spec => []Drawn
<1>1. Init => Drawn
  BY DEF Init, Drawn
<1>2. Drawn /\ [Next]_vars => Drawn'
  BY DEF Drawn, Next, Pick, vars
<1> QED BY <1>1, <1>2, PTL DEF Spec

-----------------------------------------------------------------------------
\* Loops over a sequence.

\* f is what a loop of m rounds that starts from base and does step makes of each round.
Loops(f, base, step, m) == f[0] = base /\ \A n \in 1 .. m : f[n] = step[<<n, f[n - 1]>>]

\* Every loop of m rounds over values of W makes something of each round.
LEMMA LoopExists ==
  ASSUME NEW W, NEW base \in W, NEW m \in Nat, NEW step \in [(1 .. m) \X W -> W]
  PROVE  \E f \in [0 .. m -> W] : Loops(f, base, step, m)
<1> DEFINE S == {n \in Nat : n <= m => \E f \in [0 .. n -> W] : Loops(f, base, step, n)}
<1>1. 0 \in S
  <2>1. [k \in 0 .. 0 |-> base] \in [0 .. 0 -> W] /\ Loops([k \in 0 .. 0 |-> base], base, step, 0)
    BY DEF Loops
  <2> QED BY <2>1
<1>2. ASSUME NEW n \in Nat, n \in S
      PROVE  n + 1 \in S
  <2> SUFFICES ASSUME n + 1 <= m
               PROVE  \E f \in [0 .. n + 1 -> W] : Loops(f, base, step, n + 1)
    OBVIOUS
  <2>1. PICK f \in [0 .. n -> W] : Loops(f, base, step, n)
    BY <1>2
  <2>2. f[n] \in W /\ step[<<n + 1, f[n]>>] \in W
    BY <2>1
  <2> DEFINE g == [k \in 0 .. n + 1 |-> IF k = n + 1 THEN step[<<n + 1, f[n]>>] ELSE f[k]]
  <2>3. g \in [0 .. n + 1 -> W]
    BY <2>1, <2>2
  <2>4. g[0] = base /\ g[n + 1] = step[<<n + 1, g[n]>>]
    BY <2>1 DEF Loops
  <2>5. \A k \in 1 .. n : g[k] = step[<<k, g[k - 1]>>]
    BY <2>1 DEF Loops
  <2>6. Loops(g, base, step, n + 1)
    <3> SUFFICES ASSUME NEW k \in 1 .. n + 1
                 PROVE  g[k] = step[<<k, g[k - 1]>>]
      BY <2>4 DEF Loops
    <3>1. k \in 1 .. n \/ (k = n + 1 /\ k - 1 = n)
      OBVIOUS
    <3> HIDE DEF g
    <3> QED BY <2>4, <2>5, <3>1
  <2> HIDE DEF g
  <2> QED BY <2>3, <2>6
<1> HIDE DEF S
<1>3. m \in S
  BY <1>1, <1>2, Induction
<1> QED BY <1>3 DEF S

\* Two loops that start alike and go on alike end alike.
LEMMA LoopsAgree ==
  ASSUME NEW m \in Nat, NEW f, NEW g, f[0] = g[0],
         \A n \in 1 .. m : f[n - 1] = g[n - 1] => f[n] = g[n]
  PROVE  f[m] = g[m]
<1> DEFINE N == {n \in Nat : n <= m => f[n] = g[n]}
<1>1. 0 \in N
  OBVIOUS
<1>2. ASSUME NEW n \in Nat, n \in N
      PROVE  n + 1 \in N
  BY <1>2
<1> HIDE DEF N
<1>3. m \in N
  BY <1>1, <1>2, Induction
<1> QED BY <1>3 DEF N

\* What Append adds and keeps.
LEMMA AppendIs ==
  ASSUME NEW T, NEW s \in Seq(T), NEW e
  PROVE  /\ Len(Append(s, e)) = Len(s) + 1 /\ Append(s, e)[Len(s) + 1] = e
         /\ \A i \in 1 .. Len(s) : Append(s, e)[i] = s[i]
         /\ e \in T => Append(s, e) \in Seq(T)
OBVIOUS

\* kept holds what a filter keeps of each prefix of s.
Keeps(kept, s, S) ==
  kept[0] = <<>> /\ \A n \in 1 .. Len(s) : kept[n] = IF s[n] \in S THEN Append(kept[n - 1], s[n]) ELSE kept[n - 1]

\* What Among makes of each prefix.
LEMMA KeptIs ==
  ASSUME NEW T, NEW s \in Seq(T), NEW S
  PROVE  \E kept \in [0 .. Len(s) -> Seq(T \cap S)] : Keeps(kept, s, S) /\ Among(s, S) = kept[Len(s)]
<1> DEFINE m == Len(s)
           W == Seq(T \cap S)
           step == [p \in (1 .. m) \X W |-> IF s[p[1]] \in S THEN Append(p[2], s[p[1]]) ELSE p[2]]
           kept == CHOOSE kept : kept = [n \in 0 .. m |-> IF n = 0 THEN <<>>
                                           ELSE IF s[n] \in S THEN Append(kept[n - 1], s[n]) ELSE kept[n - 1]]
<1>1. m \in Nat /\ \A i \in 1 .. m : s[i] \in T
  OBVIOUS
<1>2. step \in [(1 .. m) \X W -> W]
  BY <1>1, AppendIs
<1>3. <<>> \in W
  OBVIOUS
<1>4. \A n \in 1 .. m : \A v \in W : step[<<n, v>>] = IF s[n] \in S THEN Append(v, s[n]) ELSE v
  <2> HIDE DEF W
  <2> QED OBVIOUS
<1>5. PICK f \in [0 .. m -> W] : Loops(f, <<>>, step, m)
  <2> HIDE DEF W, step, m
  <2> QED BY <1>1, <1>2, <1>3, LoopExists
<1> HIDE DEF W, step, m
<1>6. f = [n \in 0 .. m |-> IF n = 0 THEN <<>> ELSE IF s[n] \in S THEN Append(f[n - 1], s[n]) ELSE f[n - 1]]
  <2>1. \A n \in 0 .. m : n = 0 \/ (n \in 1 .. m /\ n # 0 /\ n - 1 \in 0 .. m)
    BY <1>1
  <2>2. \A n \in 0 .. m : f[n] = IF n = 0 THEN <<>> ELSE IF s[n] \in S THEN Append(f[n - 1], s[n]) ELSE f[n - 1]
    BY <1>4, <1>5, <2>1 DEF Loops
  <2> QED BY <2>2
<1>7. kept = [n \in 0 .. m |-> IF n = 0 THEN <<>>
                ELSE IF s[n] \in S THEN Append(kept[n - 1], s[n]) ELSE kept[n - 1]]
  BY <1>6
<1>8. Among(s, S) = kept[m]
  BY DEF Among, m
<1> HIDE DEF kept
<1>9. kept[0] = <<>>
  BY <1>1, <1>7
<1>10. \A n \in 1 .. m : kept[n] = IF s[n] \in S THEN Append(kept[n - 1], s[n]) ELSE kept[n - 1]
  <2>1. \A n \in 1 .. m : n \in 0 .. m /\ n # 0
    BY <1>1
  <2> QED BY <1>7, <2>1
<1>11. kept = f
  <2>1. DOMAIN kept = 0 .. m
    BY <1>7
  <2> DEFINE N == {n \in Nat : n <= m => kept[n] = f[n]}
  <2>2. 0 \in N
    BY <1>5, <1>9 DEF Loops
  <2>3. ASSUME NEW n \in Nat, n \in N
        PROVE  n + 1 \in N
    <3> SUFFICES ASSUME n + 1 <= m
                 PROVE  kept[n + 1] = f[n + 1]
      OBVIOUS
    <3>1. n + 1 \in 1 .. m /\ (n + 1) - 1 = n /\ n \in 0 .. m
      BY <1>1
    <3>2. f[n + 1] = step[<<n + 1, f[n]>>] /\ f[n] \in W
      BY <1>5, <3>1 DEF Loops
    <3>3. f[n + 1] = IF s[n + 1] \in S THEN Append(f[n], s[n + 1]) ELSE f[n]
      BY <1>4, <3>1, <3>2
    <3>4. kept[n] = f[n]
      BY <2>3, <3>1, <1>1
    <3> QED BY <1>10, <3>1, <3>3, <3>4
  <2> HIDE DEF N
  <2>4. Nat \subseteq N
    BY <2>2, <2>3, Induction
  <2>5. \A n \in 0 .. m : kept[n] = f[n]
    BY <1>1, <2>4 DEF N
  <2> QED BY <2>1, <2>5, <1>7
<1>12. kept \in [0 .. m -> W] /\ Keeps(kept, s, S)
  BY <1>5, <1>9, <1>10, <1>11 DEF Keeps, m
<1> QED BY <1>8, <1>12 DEF W, m

\* Among holds what it should, and leaves alone what it should.
LEMMA AmongIs ==
  ASSUME NEW T, NEW s \in Seq(T), NEW S
  PROVE  /\ Among(s, S) \in Seq(T \cap S)
         /\ ToSet(Among(s, S)) = ToSet(s) \cap S
         /\ ToSet(s) \subseteq S => Among(s, S) = s
<1> DEFINE m == Len(s)
           W == Seq(T \cap S)
<1>1. m \in Nat /\ \A i \in 1 .. m : s[i] \in T
  OBVIOUS
<1>2. <<>> \in W
  OBVIOUS
<1> HIDE DEF W, m
<1>kept. PICK kept \in [0 .. m -> W] : Keeps(kept, s, S) /\ Among(s, S) = kept[m]
  BY KeptIs DEF m, W
<1>3. /\ kept[0] = <<>> /\ Among(s, S) = kept[m]
      /\ \A n \in 1 .. m : kept[n] = IF s[n] \in S THEN Append(kept[n - 1], s[n]) ELSE kept[n - 1]
  BY <1>kept DEF Keeps, m
<1> DEFINE Right(n) ==
             /\ kept[n] \in W
             /\ \A i \in 1 .. n : s[i] \in S => \E j \in 1 .. Len(kept[n]) : kept[n][j] = s[i]
             /\ \A j \in 1 .. Len(kept[n]) : \E i \in 1 .. n : kept[n][j] = s[i]
             /\ (\A i \in 1 .. n : s[i] \in S) =>
                  Len(kept[n]) = n /\ \A i \in 1 .. n : kept[n][i] = s[i]
           N == {n \in Nat : n <= m => Right(n)}
<1>4. 0 \in N
  <2>1. kept[0] = <<>>
    BY <1>1, <1>3
  <2> QED BY <1>2, <2>1
<1>5. ASSUME NEW n \in Nat, n \in N
       PROVE  n + 1 \in N
  <2> SUFFICES ASSUME n + 1 <= m
               PROVE  Right(n + 1)
    OBVIOUS
  <2>1. Right(n) /\ n + 1 \in 1 .. m /\ s[n + 1] \in T
    BY <1>1, <1>5
  <2> DEFINE before == kept[n]
             after == kept[n + 1]
             e == s[n + 1]
  <2>2. after = IF e \in S THEN Append(before, e) ELSE before
    <3>1. n + 1 \in 0 .. m /\ n + 1 # 0 /\ (n + 1) - 1 = n
      BY <1>1
    <3> QED BY <1>3, <3>1
  <2>3. /\ before \in W
        /\ \A i \in 1 .. n : s[i] \in S => \E j \in 1 .. Len(before) : before[j] = s[i]
        /\ \A j \in 1 .. Len(before) : \E i \in 1 .. n : before[j] = s[i]
        /\ (\A i \in 1 .. n : s[i] \in S) =>
             Len(before) = n /\ \A i \in 1 .. n : before[i] = s[i]
    BY <2>1
  <2>4. e \in T
    BY <2>1
  <2> HIDE DEF before, after
  <2>5. CASE e \in S
    <3>1. /\ Len(after) = Len(before) + 1 /\ after[Len(before) + 1] = e /\ after \in W
          /\ \A j \in 1 .. Len(before) : after[j] = before[j]
      <4> HIDE DEF e
      <4> QED BY <2>2, <2>3, <2>4, <2>5, AppendIs DEF W
    <3>2. Len(before) \in Nat
      BY <2>3 DEF W
    <3>3. \A i \in 1 .. n + 1 : s[i] \in S => \E j \in 1 .. Len(after) : after[j] = s[i]
      <4> SUFFICES ASSUME NEW i \in 1 .. n + 1, s[i] \in S
                   PROVE  \E j \in 1 .. Len(after) : after[j] = s[i]
        OBVIOUS
      <4>1. CASE i = n + 1
        BY <3>1, <3>2, <4>1
      <4>2. CASE i \in 1 .. n
        BY <2>3, <3>1, <3>2, <4>2
      <4> QED BY <4>1, <4>2
    <3>4. \A j \in 1 .. Len(after) : \E i \in 1 .. n + 1 : after[j] = s[i]
      <4> SUFFICES ASSUME NEW j \in 1 .. Len(after)
                   PROVE  \E i \in 1 .. n + 1 : after[j] = s[i]
        OBVIOUS
      <4>1. CASE j = Len(before) + 1
        BY <3>1, <4>1
      <4>2. CASE j \in 1 .. Len(before)
        BY <2>3, <3>1, <4>2
      <4> QED BY <3>1, <3>2, <4>1, <4>2
    <3>5. (\A i \in 1 .. n + 1 : s[i] \in S) => Len(after) = n + 1 /\ \A i \in 1 .. n + 1 : after[i] = s[i]
      <4> SUFFICES ASSUME \A i \in 1 .. n + 1 : s[i] \in S
                   PROVE  Len(after) = n + 1 /\ \A i \in 1 .. n + 1 : after[i] = s[i]
        OBVIOUS
      <4>1. Len(before) = n /\ \A i \in 1 .. n : before[i] = s[i]
        BY <2>3
      <4>2. \A i \in 1 .. n + 1 : i \in 1 .. n \/ i = n + 1
        OBVIOUS
      <4> QED BY <3>1, <4>1, <4>2
    <3> QED BY <3>1, <3>3, <3>4, <3>5 DEF after
  <2>6. CASE e \notin S
    <3>1. after = before
      BY <2>2, <2>6
    <3>2. \A i \in 1 .. n + 1 : i \in 1 .. n \/ i = n + 1
      OBVIOUS
    <3>3. \A i \in 1 .. n : i \in 1 .. n + 1
      OBVIOUS
    <3>4. \A i \in 1 .. n + 1 : s[i] \in S => \E j \in 1 .. Len(after) : after[j] = s[i]
      BY <2>3, <2>6, <3>1, <3>2
    <3>5. \A j \in 1 .. Len(after) : \E i \in 1 .. n + 1 : after[j] = s[i]
      BY <2>3, <3>1, <3>3
    <3>6. ~ \A i \in 1 .. n + 1 : s[i] \in S
      BY <2>6
    <3>7. after \in W
      BY <2>3, <3>1
    <3> QED BY <3>4, <3>5, <3>6, <3>7 DEF after
  <2> QED BY <2>5, <2>6
<1> HIDE DEF N
<1>6. m \in N
  BY <1>1, <1>4, <1>5, Induction
<1>7. Right(m)
  <2> HIDE DEF Right
  <2> QED BY <1>6 DEF N
<1> DEFINE all == kept[m]
<1>8. /\ all \in Seq(T \cap S)
      /\ \A i \in 1 .. Len(s) : s[i] \in S => \E j \in 1 .. Len(all) : all[j] = s[i]
      /\ \A j \in 1 .. Len(all) : \E i \in 1 .. Len(s) : all[j] = s[i]
      /\ (\A i \in 1 .. Len(s) : s[i] \in S) => Len(all) = Len(s) /\ \A i \in 1 .. Len(s) : all[i] = s[i]
  BY <1>7 DEF W, m
<1> HIDE DEF all, Right
<1>9. ToSet(all) = ToSet(s) \cap S
  <2>1. \A t : ToSet(t) = {t[i] : i \in DOMAIN t}
    BY DEF ToSet
  <2>2. DOMAIN all = 1 .. Len(all) /\ DOMAIN s = 1 .. Len(s)
    BY <1>8
  <2>3. ASSUME NEW e \in ToSet(all)
        PROVE  e \in ToSet(s) /\ e \in S
    <3>1. PICK j \in 1 .. Len(all) : e = all[j]
      BY <2>1, <2>2
    <3>2. all[j] \in T \cap S
      BY <1>8
    <3>3. PICK i \in 1 .. Len(s) : all[j] = s[i]
      BY <1>8
    <3> QED BY <2>1, <2>2, <3>1, <3>2, <3>3
  <2>4. ASSUME NEW e \in ToSet(s), e \in S
        PROVE  e \in ToSet(all)
    <3>1. PICK i \in 1 .. Len(s) : e = s[i]
      BY <2>1, <2>2
    <3>2. PICK j \in 1 .. Len(all) : all[j] = s[i]
      BY <1>8, <2>4, <3>1
    <3> QED BY <2>1, <2>2, <3>1, <3>2
  <2> QED BY <2>3, <2>4
<1>10. ToSet(s) \subseteq S => all = s
  <2>1. ToSet(s) \subseteq S => \A i \in 1 .. Len(s) : s[i] \in S
    BY DEF ToSet
  <2>2. \A t \in Seq(T) : Len(t) = Len(s) /\ (\A i \in 1 .. Len(s) : t[i] = s[i]) => t = s
    OBVIOUS
  <2>3. all \in Seq(T)
    BY <1>8
  <2> QED BY <1>8, <2>1, <2>2, <2>3
<1> QED BY <1>3, <1>8, <1>9, <1>10 DEF all

\* Without drops what it should, and leaves alone what it should.
LEMMA WithoutIs ==
  ASSUME NEW T, NEW s \in Seq(T), NEW S
  PROVE  /\ Without(s, S) \in Seq(T \ S)
         /\ ToSet(Without(s, S)) = ToSet(s) \ S
         /\ ToSet(s) \cap S = {} => Without(s, S) = s
<1>1. /\ Without(s, S) \in Seq(T \cap (ToSet(s) \ S))
      /\ ToSet(Without(s, S)) = ToSet(s) \cap (ToSet(s) \ S)
      /\ ToSet(s) \subseteq ToSet(s) \ S => Without(s, S) = s
  BY AmongIs DEF Without
<1>2. T \cap (ToSet(s) \ S) \subseteq T \ S
  OBVIOUS
<1>3. \A P, Q : P \subseteq Q => Seq(P) \subseteq Seq(Q)
  OBVIOUS
<1> QED BY <1>1, <1>2, <1>3

\* Which elements are wanted matters only of those that are there.
LEMMA AmongAgree ==
  ASSUME NEW T, NEW s \in Seq(T), NEW P, NEW Q, \A e \in ToSet(s) : e \in P <=> e \in Q
  PROVE  Among(s, P) = Among(s, Q)
<1>p. PICK p \in [0 .. Len(s) -> Seq(T \cap P)] : Keeps(p, s, P) /\ Among(s, P) = p[Len(s)]
  BY KeptIs
<1>1. /\ p[0] = <<>> /\ Among(s, P) = p[Len(s)]
      /\ \A n \in 1 .. Len(s) : p[n] = IF s[n] \in P THEN Append(p[n - 1], s[n]) ELSE p[n - 1]
  BY <1>p DEF Keeps
<1>q. PICK q \in [0 .. Len(s) -> Seq(T \cap Q)] : Keeps(q, s, Q) /\ Among(s, Q) = q[Len(s)]
  BY KeptIs
<1>2. /\ q[0] = <<>> /\ Among(s, Q) = q[Len(s)]
      /\ \A n \in 1 .. Len(s) : q[n] = IF s[n] \in Q THEN Append(q[n - 1], s[n]) ELSE q[n - 1]
  BY <1>q DEF Keeps
<1>3. \A n \in 1 .. Len(s) : s[n] \in P <=> s[n] \in Q
  BY DEF ToSet
<1>4. \A n \in 1 .. Len(s) : p[n - 1] = q[n - 1] => p[n] = q[n]
  BY <1>1, <1>2, <1>3
<1>5. Len(s) \in Nat /\ p[0] = q[0]
  BY <1>1, <1>2
<1> QED BY <1>1, <1>2, <1>4, <1>5, LoopsAgree

\* What InsertAt makes of a sequence.
LEMMA InsertAtIs ==
  ASSUME NEW T, NEW s \in Seq(T), NEW k \in 1 .. Len(s) + 1, NEW e \in T
  PROVE  /\ InsertAt(s, k, e) \in Seq(T)
         /\ Len(InsertAt(s, k, e)) = Len(s) + 1 /\ InsertAt(s, k, e)[k] = e
         /\ \A n \in 1 .. k - 1 : InsertAt(s, k, e)[n] = s[n]
         /\ \A n \in k .. Len(s) : InsertAt(s, k, e)[n + 1] = s[n]
<1>1. /\ SubSeq(s, 1, k - 1) \in Seq(T) /\ Len(SubSeq(s, 1, k - 1)) = k - 1
      /\ \A n \in 1 .. k - 1 : SubSeq(s, 1, k - 1)[n] = s[n]
  OBVIOUS
<1>2. /\ SubSeq(s, k, Len(s)) \in Seq(T) /\ Len(SubSeq(s, k, Len(s))) = Len(s) - k + 1
      /\ \A n \in 1 .. Len(s) - k + 1 : SubSeq(s, k, Len(s))[n] = s[n + k - 1]
  OBVIOUS
<1> DEFINE before == SubSeq(s, 1, k - 1)
           after == SubSeq(s, k, Len(s))
<1>3. InsertAt(s, k, e) = before \o <<e>> \o after
  BY DEF InsertAt
<1> HIDE DEF before, after
<1>4. before \o <<e>> \in Seq(T) /\ Len(before \o <<e>>) = k
      /\ (before \o <<e>>)[k] = e /\ \A n \in 1 .. k - 1 : (before \o <<e>>)[n] = s[n]
  BY <1>1 DEF before
<1> DEFINE head == before \o <<e>>
<1> HIDE DEF head
<1>5. /\ head \o after \in Seq(T) /\ Len(head \o after) = Len(s) + 1
      /\ \A n \in 1 .. k : (head \o after)[n] = head[n]
      /\ \A n \in k .. Len(s) : (head \o after)[n + 1] = after[n + 1 - k]
  <2>1. head \in Seq(T) /\ Len(head) = k
    BY <1>4 DEF head
  <2>2. after \in Seq(T) /\ Len(after) = Len(s) - k + 1
    BY <1>2 DEF after
  <2>3. Len(s) \in Nat
    OBVIOUS
  <2> QED BY <2>1, <2>2, <2>3
<1>6. \A n \in k .. Len(s) : after[n + 1 - k] = s[n]
  <2> SUFFICES ASSUME NEW n \in k .. Len(s)
               PROVE  after[n + 1 - k] = s[n]
    OBVIOUS
  <2>1. n + 1 - k \in 1 .. Len(s) - k + 1 /\ (n + 1 - k) + k - 1 = n
    OBVIOUS
  <2> QED BY <1>2, <2>1 DEF after
<1> QED BY <1>3, <1>4, <1>5, <1>6 DEF head

\* What is not wanted may be inserted anywhere.
LEMMA AmongSkips ==
  ASSUME NEW T, NEW s \in Seq(T), NEW k \in 1 .. Len(s) + 1, NEW e \in T, NEW S, e \notin S
  PROVE  Among(InsertAt(s, k, e), S) = Among(s, S)
<1> DEFINE u == InsertAt(s, k, e)
<1>1. /\ u \in Seq(T) /\ Len(u) = Len(s) + 1 /\ u[k] = e /\ Len(s) \in Nat
      /\ \A n \in 1 .. k - 1 : u[n] = s[n]
      /\ \A n \in k .. Len(s) : u[n + 1] = s[n]
  BY InsertAtIs
<1> HIDE DEF u
<1>p. PICK p \in [0 .. Len(s) -> Seq(T \cap S)] : Keeps(p, s, S) /\ Among(s, S) = p[Len(s)]
  BY KeptIs
<1>2. /\ p[0] = <<>> /\ Among(s, S) = p[Len(s)]
      /\ \A n \in 1 .. Len(s) : p[n] = IF s[n] \in S THEN Append(p[n - 1], s[n]) ELSE p[n - 1]
  BY <1>p DEF Keeps
<1>q. PICK q \in [0 .. Len(u) -> Seq(T \cap S)] : Keeps(q, u, S) /\ Among(u, S) = q[Len(u)]
  <2>1. u \in Seq(T)
    BY <1>1
  <2> QED BY <2>1, KeptIs
<1>3. /\ q[0] = <<>> /\ Among(u, S) = q[Len(u)]
      /\ \A n \in 1 .. Len(u) : q[n] = IF u[n] \in S THEN Append(q[n - 1], u[n]) ELSE q[n - 1]
  BY <1>q DEF Keeps
<1> DEFINE h == [n \in 0 .. Len(s) |-> IF n < k THEN q[n] ELSE q[n + 1]]
<1>4. q[k] = q[k - 1] /\ k \in Nat
  BY <1>1, <1>3
<1>5. h[0] = <<>>
  BY <1>1, <1>3, <1>4
<1>6. ASSUME NEW n \in 1 .. Len(s), h[n - 1] = p[n - 1]
      PROVE  h[n] = p[n]
  <2>1. n \in 1 .. Len(u) /\ n + 1 \in 1 .. Len(u) /\ (n + 1) - 1 = n /\ n - 1 \in 0 .. Len(s) /\ n \in 0 .. Len(s)
    BY <1>1
  <2>2. CASE n < k
    <3>1. h[n] = q[n] /\ h[n - 1] = q[n - 1] /\ u[n] = s[n]
      BY <1>1, <2>1, <2>2
    <3> QED BY <1>2, <1>3, <1>6, <2>1, <3>1
  <2>3. CASE n >= k
    <3>1. h[n] = q[n + 1] /\ h[n - 1] = q[n] /\ u[n + 1] = s[n]
      <4>1. u[n + 1] = s[n] /\ h[n] = q[n + 1]
        BY <1>1, <2>1, <2>3
      <4>2. n = k => h[n - 1] = q[n]
        BY <1>4, <2>1
      <4>3. n # k => h[n - 1] = q[n]
        BY <1>4, <2>1, <2>3
      <4> QED BY <4>1, <4>2, <4>3
    <3>2. q[n + 1] = IF u[n + 1] \in S THEN Append(q[n], u[n + 1]) ELSE q[n]
      BY <1>3, <2>1
    <3> QED BY <1>2, <1>6, <3>1, <3>2
  <2> QED BY <2>2, <2>3, <1>4
<1>7. h[Len(s)] = q[Len(u)]
  <2>1. CASE k = Len(s) + 1
    BY <1>1, <1>4, <2>1
  <2>2. CASE k # Len(s) + 1
    BY <1>1, <1>4, <2>2
  <2> QED BY <2>1, <2>2
<1> HIDE DEF h
<1>8. h[Len(s)] = p[Len(s)]
  <2>1. Len(s) \in Nat /\ h[0] = p[0]
    BY <1>1, <1>2, <1>5
  <2>2. \A n \in 1 .. Len(s) : h[n - 1] = p[n - 1] => h[n] = p[n]
    BY <1>6
  <2> QED BY <2>1, <2>2, LoopsAgree
<1> QED BY <1>2, <1>3, <1>7, <1>8 DEF u

-----------------------------------------------------------------------------
\* The reasons for silence about a turn.

LEMMA ReasonsRanked ==
  ASSUME NEW v \in Verdicts, NEW r \in 1 .. 7
  PROVE  Applies(RankedReasons[r], v.candidate, v.config, v.duplicate) <=>
           \/ r = 1 /\ ~v.config.enabled
           \/ r = 2 /\ v.candidate.sessionId \in v.config.mutedSessions
           \/ r = 3 /\ v.candidate.cwd # NoCwd /\ v.candidate.cwd \in v.config.mutedWorkspaces
           \/ r = 4 /\ ~EnabledByPolicy(v.candidate.status, v.config)
           \/ r = 5 /\ v.candidate.status # "error" /\ ~v.candidate.visible
           \/ r = 6 /\ v.candidate.durationMs # UnknownDuration
                    /\ v.candidate.durationMs < v.config.minTurnDurationMs
           \/ r = 7 /\ v.duplicate
<1> USE VerdictsAssumption
<1>0. RankedReasons[1] = "disabled" /\ RankedReasons[2] = "session-muted"
      /\ RankedReasons[3] = "workspace-muted" /\ RankedReasons[4] = "disabled-by-policy"
      /\ RankedReasons[5] = "no-visible-text" /\ RankedReasons[6] = "below-min-duration"
      /\ RankedReasons[7] = "duplicate"
  BY DEF RankedReasons
<1>1. CASE r = 1
  BY <1>0, <1>1 DEF Applies
<1>2. CASE r = 2
  BY <1>0, <1>2 DEF Applies
<1>3. CASE r = 3
  BY <1>0, <1>3 DEF Applies
<1>4. CASE r = 4
  BY <1>0, <1>4 DEF Applies, EnabledByPolicy, PolicySwitchFor, Statuses, TurnEndKinds
<1>5. CASE r = 5
  BY <1>0, <1>5 DEF Applies
<1>6. CASE r = 6
  <2> DEFINE d == v.candidate.durationMs
             m == v.config.minTurnDurationMs
  <2>1. d \in Nat \cup {-1} /\ m \in Nat
    BY DEF UnknownDuration
  <2>2. Applies("below-min-duration", v.candidate, v.config, v.duplicate) <=> d \in 0 .. (m - 1)
    BY DEF Applies
  <2> HIDE DEF d, m
  <2>3. d \in 0 .. (m - 1) <=> d # UnknownDuration /\ d < m
    BY <2>1 DEF UnknownDuration
  <2> QED BY <1>0, <1>6, <2>2, <2>3 DEF d, m
<1>7. CASE r = 7
  BY <1>0, <1>7 DEF Applies
<1> QED BY <1>1, <1>2, <1>3, <1>4, <1>5, <1>6, <1>7

\* Whatever the input, the reason given for silence about a turn is the strongest
\* there is; and productWarnings speaks up exactly when every mail is impossible.
LEMMA StrongestReason ==
  ASSUME NEW v \in Verdicts
  PROVE  LET verdict == DecideNotification(v.candidate, v.config, v.duplicate)
             applies(r) == Applies(RankedReasons[r], v.candidate, v.config, v.duplicate)
         IN  IF verdict = Notify THEN \A r \in 1 .. 7 : ~applies(r)
             ELSE \E r \in 1 .. 7 :
                    verdict = RankedReasons[r] /\ applies(r) /\ \A q \in 1 .. r - 1 : ~applies(q)
<1> DEFINE verdict == DecideNotification(v.candidate, v.config, v.duplicate)
           applies(r) == Applies(RankedReasons[r], v.candidate, v.config, v.duplicate)
<1>1. /\ applies(1) <=> ~v.config.enabled
      /\ applies(2) <=> v.candidate.sessionId \in v.config.mutedSessions
      /\ applies(3) <=> v.candidate.cwd # NoCwd /\ v.candidate.cwd \in v.config.mutedWorkspaces
      /\ applies(4) <=> ~EnabledByPolicy(v.candidate.status, v.config)
      /\ applies(5) <=> v.candidate.status # "error" /\ ~v.candidate.visible
      /\ applies(6) <=> v.candidate.durationMs # UnknownDuration
                       /\ v.candidate.durationMs < v.config.minTurnDurationMs
      /\ applies(7) <=> v.duplicate
  BY ReasonsRanked
<1>2. /\ verdict = IF applies(1) THEN "disabled" ELSE IF applies(2) THEN "session-muted"
                   ELSE IF applies(3) THEN "workspace-muted" ELSE IF applies(4) THEN "disabled-by-policy"
                   ELSE IF applies(5) THEN "no-visible-text" ELSE IF applies(6) THEN "below-min-duration"
                   ELSE IF applies(7) THEN "duplicate" ELSE "notify"
  <2> HIDE DEF applies
  <2> QED BY <1>1 DEF verdict, DecideNotification, ScopeSuppression, Notify
<1>3. /\ RankedReasons[1] = "disabled" /\ RankedReasons[2] = "session-muted"
      /\ RankedReasons[3] = "workspace-muted" /\ RankedReasons[4] = "disabled-by-policy"
      /\ RankedReasons[5] = "no-visible-text" /\ RankedReasons[6] = "below-min-duration"
      /\ RankedReasons[7] = "duplicate"
  BY DEF RankedReasons
<1> HIDE DEF verdict, applies
<1>4. IF verdict = Notify THEN \A r \in 1 .. 7 : ~applies(r)
      ELSE \E r \in 1 .. 7 :
             verdict = RankedReasons[r] /\ applies(r) /\ \A q \in 1 .. r - 1 : ~applies(q)
  BY <1>2, <1>3 DEF Notify
<1> QED BY <1>4 DEF verdict, applies

LEMMA WarningIsRight ==
  ASSUME NEW v \in Verdicts, v.config.enabled,
         NEW questions \in BOOLEAN, NEW approvals \in BOOLEAN
  PROVE  LET cfg == v.config
             turn(s) == [sessionId |-> FreeSession, cwd |-> NoCwd, status |-> s, visible |-> TRUE,
                         durationMs |-> UnknownDuration]
             ask(switch) == DecideAttention(FreeSession, NoCwd, switch, cfg, FALSE)
         IN  WarnsOfSilence(<<cfg.notifyCompleted, cfg.notifyErrors, cfg.notifyMaxTokens, questions, approvals>>)
               <=> /\ \A s \in Statuses : DecideNotification(turn(s), cfg, FALSE) # Notify
                   /\ Notify \notin {ask(questions), ask(approvals)}
<1> DEFINE cfg == v.config
           turn(s) == [sessionId |-> FreeSession, cwd |-> NoCwd, status |-> s, visible |-> TRUE,
                       durationMs |-> UnknownDuration]
           ask(switch) == DecideAttention(FreeSession, NoCwd, switch, cfg, FALSE)
           switches == <<cfg.notifyCompleted, cfg.notifyErrors, cfg.notifyMaxTokens, questions, approvals>>
<1>1. WarnsOfSilence(switches) <=>
        ~cfg.notifyCompleted /\ ~cfg.notifyErrors /\ ~cfg.notifyMaxTokens /\ ~questions /\ ~approvals
  <2>1. ToSet(switches) = {cfg.notifyCompleted, cfg.notifyErrors, cfg.notifyMaxTokens, questions, approvals}
    BY DEF ToSet
  <2> QED BY <2>1 DEF WarnsOfSilence
<1>2. ASSUME NEW s \in Statuses
      PROVE  DecideNotification(turn(s), cfg, FALSE) # Notify <=> ~EnabledByPolicy(s, cfg)
  BY VerdictsAssumption DEF DecideNotification, ScopeSuppression, Notify
<1>3. ASSUME NEW switch \in BOOLEAN
      PROVE  ask(switch) = Notify <=> switch
  BY VerdictsAssumption DEF DecideAttention, ScopeSuppression, Notify
<1>4. (\A s \in Statuses : ~EnabledByPolicy(s, cfg)) <=>
        ~cfg.notifyCompleted /\ ~cfg.notifyErrors /\ ~cfg.notifyMaxTokens
  BY VerdictsAssumption DEF EnabledByPolicy, PolicySwitchFor, Statuses, TurnEndKinds
<1> HIDE DEF turn, ask, switches
<1>5. WarnsOfSilence(switches) <=> /\ \A s \in Statuses : DecideNotification(turn(s), cfg, FALSE) # Notify
                                   /\ Notify \notin {ask(questions), ask(approvals)}
  BY <1>1, <1>2, <1>3, <1>4
<1> QED BY <1>5 DEF turn, ask, switches

\* The reason given for silence is the strongest there is, and a configuration is warned
\* of as mute exactly when it is, for every turn and every configuration
\* (decideNotification, productWarnings).
THEOREM StrongestReasonIsGiven == Spec => []SilenceHasTheStrongestReason
<1>1. Drawn => SilenceHasTheStrongestReason
  BY StrongestReason, WarningIsRight DEF Drawn, SilenceHasTheStrongestReason
<1> QED BY <1>1, InputsAreDrawn, PTL

-----------------------------------------------------------------------------
\* The waits between attempts.

\* f holds base, 3 times base, and so on up to position m.
Triples(f, base, m) == f[0] = base /\ \A k \in 1 .. m : f[k] = 3 * f[k - 1]

LEMMA TriplesExist ==
  ASSUME NEW base \in Nat, NEW m \in Nat
  PROVE  \E f \in [0 .. m -> Nat] : Triples(f, base, m)
<1> DEFINE S == {n \in Nat : \E f \in [0 .. n -> Nat] : Triples(f, base, n)}
<1>1. 0 \in S
  <2>1. [k \in 0 .. 0 |-> base] \in [0 .. 0 -> Nat] /\ Triples([k \in 0 .. 0 |-> base], base, 0)
    BY DEF Triples
  <2> QED BY <2>1
<1>2. ASSUME NEW n \in Nat, n \in S
      PROVE  n + 1 \in S
  <2>1. PICK f \in [0 .. n -> Nat] : Triples(f, base, n)
    BY <1>2
  <2> DEFINE g == [k \in 0 .. n + 1 |-> IF k = n + 1 THEN 3 * f[n] ELSE f[k]]
  <2>2. g \in [0 .. n + 1 -> Nat]
    BY <2>1
  <2>3. g[0] = base /\ g[n + 1] = 3 * g[n]
    BY <2>1 DEF Triples
  <2>4. \A k \in 1 .. n : g[k] = 3 * g[k - 1]
    BY <2>1 DEF Triples
  <2>5. Triples(g, base, n + 1)
    <3> SUFFICES ASSUME NEW k \in 1 .. n + 1
                 PROVE  g[k] = 3 * g[k - 1]
      BY <2>3 DEF Triples
    <3>1. k \in 1 .. n \/ (k = n + 1 /\ k - 1 = n)
      OBVIOUS
    <3> HIDE DEF g
    <3> QED BY <2>3, <2>4, <3>1
  <2> HIDE DEF g
  <2> QED BY <2>2, <2>5
<1> HIDE DEF S
<1>3. m \in S
  BY <1>1, <1>2, Induction
<1> QED BY <1>3 DEF S

LEMMA TriplesAgree ==
  ASSUME NEW base \in Nat, NEW m \in Nat, NEW f, NEW g, NEW n \in 0 .. m,
         Triples(f, base, m), Triples(g, base, n)
  PROVE  f[n] = g[n]
<1> DEFINE S == {k \in Nat : k <= n => f[k] = g[k]}
<1>1. 0 \in S
  BY DEF Triples
<1>2. ASSUME NEW k \in Nat, k \in S
      PROVE  k + 1 \in S
  <2> SUFFICES ASSUME k + 1 <= n
               PROVE  f[k + 1] = g[k + 1]
    OBVIOUS
  <2>1. k + 1 \in 1 .. m /\ k + 1 \in 1 .. n /\ (k + 1) - 1 = k /\ f[k] = g[k]
    BY <1>2
  <2> QED BY <2>1 DEF Triples
<1> HIDE DEF S
<1>3. n \in S
  BY <1>1, <1>2, Induction
<1> QED BY <1>3 DEF S

\* The n-th wait is the base, tripled n - 1 times, and at most the cap.
LEMMA WaitsAreTriples ==
  ASSUME NEW policy, NEW m \in Nat, NEW f, policy.baseDelayMs \in Nat, policy.maxDelayMs \in Nat,
         Triples(f, policy.baseDelayMs, m), NEW n \in 1 .. m
  PROVE  D!BackoffDelayMs(n, policy) = IF f[n - 1] < policy.maxDelayMs THEN f[n - 1] ELSE policy.maxDelayMs
<1> DEFINE base == policy.baseDelayMs
           e == IF n > 1 THEN n - 1 ELSE 0
           raw == CHOOSE raw : raw = [k \in 0 .. e |-> IF k = 0 THEN base ELSE 3 * raw[k - 1]]
<1>1. e = n - 1 /\ e \in Nat /\ e \in 0 .. m
  OBVIOUS
<1>2. PICK g \in [0 .. e -> Nat] : Triples(g, base, e)
  <2> HIDE DEF e
  <2> QED BY <1>1, TriplesExist
<1>3. g = [k \in 0 .. e |-> IF k = 0 THEN base ELSE 3 * g[k - 1]]
  <2> HIDE DEF e, base
  <2> QED BY <1>1, <1>2 DEF Triples
<1>4. raw = [k \in 0 .. e |-> IF k = 0 THEN base ELSE 3 * raw[k - 1]]
  <2> HIDE DEF e, base
  <2> QED BY <1>3
<1>5. Triples(raw, base, e)
  <2> HIDE DEF e, base, raw
  <2> QED BY <1>1, <1>4 DEF Triples
<1>6. raw[e] = f[n - 1]
  <2> HIDE DEF e, base, raw
  <2> QED BY <1>1, <1>5, TriplesAgree DEF base
<1>7. D!BackoffDelayMs(n, policy) = IF raw[e] < policy.maxDelayMs THEN raw[e] ELSE policy.maxDelayMs
  BY DEF D!BackoffDelayMs
<1> HIDE DEF raw, e
<1> QED BY <1>6, <1>7

\* The waits start at the base, triple, and stay at the cap.
LEMMA WaitsGrow ==
  ASSUME NEW policy, policy.retryAttempts \in Nat, policy.baseDelayMs \in Nat, policy.maxDelayMs \in Nat
  PROVE  LET waits == D!BackoffSequence(policy)
             cap == policy.maxDelayMs
         IN  /\ Len(waits) = policy.retryAttempts
             /\ \A n \in 1 .. Len(waits) :
                  LET raw == IF n = 1 THEN policy.baseDelayMs ELSE 3 * waits[n - 1]
                  IN  waits[n] = IF raw <= cap THEN raw ELSE cap
<1> DEFINE m == policy.retryAttempts
           base == policy.baseDelayMs
           cap == policy.maxDelayMs
           waits == D!BackoffSequence(policy)
           raw(n) == IF n = 1 THEN base ELSE 3 * waits[n - 1]
<1>1. PICK f \in [0 .. m -> Nat] : Triples(f, base, m)
  BY TriplesExist
<1>2. Len(waits) = m /\ \A n \in 1 .. m : waits[n] = D!BackoffDelayMs(n, policy)
  BY DEF D!BackoffSequence
<1>3. \A n \in 1 .. m : waits[n] = IF f[n - 1] < cap THEN f[n - 1] ELSE cap
  BY <1>1, <1>2, WaitsAreTriples
<1> HIDE DEF m, base, cap, waits
<1>4. ASSUME NEW n \in 1 .. m
      PROVE  waits[n] = IF raw(n) <= cap THEN raw(n) ELSE cap
  <2>0. m \in Nat /\ base \in Nat /\ cap \in Nat
    BY DEF m, base, cap
  <2>1. CASE n = 1
    <3>1. f[n - 1] = base
      BY <1>1, <2>1 DEF Triples
    <3> QED BY <1>3, <2>0, <2>1, <3>1
  <2>2. CASE n # 1
    <3>1. n - 1 \in 1 .. m /\ (n - 1) - 1 = n - 2 /\ n - 2 \in 0 .. m
      BY <2>0, <2>2
    <3>2. waits[n - 1] = IF f[n - 2] < cap THEN f[n - 2] ELSE cap
      BY <1>3, <3>1
    <3>3. f[n - 1] = 3 * f[n - 2] /\ f[n - 2] \in Nat
      BY <1>1, <3>1 DEF Triples
    <3>4. waits[n] = IF 3 * f[n - 2] < cap THEN 3 * f[n - 2] ELSE cap
      BY <1>3, <3>3
    <3> QED BY <2>0, <2>2, <3>2, <3>3, <3>4
  <2> QED BY <2>1, <2>2
<1> QED BY <1>2, <1>4 DEF waits, m, base, cap

-----------------------------------------------------------------------------
\* One attempt.

LEMMA JudgedTruly ==
  ASSUME NEW a \in Attempts
  PROVE  LET server == a.server
             password == /\ a.credentials.mounted /\ a.credentials.answers
                         /\ a.credentials.value # D!NoValue
             lasting == \/ server.code \in D!PermanentCodes
                        \/ server.reply \in D!AuthReplyCodes
                        \/ server.reply >= 500
             temporary == server.code \in D!TransientCodes \/ server.reply \in 400 .. 499
             result == D!Deliver(a.credentials, server)
             test == D!SendTestEmail(a.configured, a.recipients, a.credentials, server)
         IN  /\ result.ok <=> password /\ server.accepts
             /\ D!DecideRetry(result.class, a.attempts, a.policy.retryAttempts)
                  <=> /\ password /\ ~server.accepts
                      /\ temporary /\ ~lasting
                      /\ a.attempts <= a.policy.retryAttempts
             /\ IF a.configured /\ a.recipients # {}
                THEN test.delivered = result.ok /\ test.category = result.category
                ELSE ~test.delivered /\ test.category = "config-incomplete"
<1> DEFINE server == a.server
           password == /\ a.credentials.mounted /\ a.credentials.answers
                       /\ a.credentials.value # D!NoValue
           lasting == \/ server.code \in D!PermanentCodes
                      \/ server.reply \in D!AuthReplyCodes
                      \/ server.reply >= 500
           temporary == server.code \in D!TransientCodes \/ server.reply \in 400 .. 499
           result == D!Deliver(a.credentials, server)
           test == D!SendTestEmail(a.configured, a.recipients, a.credentials, server)
           class == D!ClassifyError(server.code, server.reply)
           category == D!Category(server.code, server.reply)
<1> USE AttemptsAssumption
<1>1. class \in {"retry", "permanent"} /\ (class = "retry" <=> temporary /\ ~lasting)
  BY DEF D!ClassifyError, D!Category, D!PermanentCodes, D!TransientCodes, D!AuthReplyCodes,
         D!EnvelopeReplyCodes
<1>2. password <=> D!ResolveSmtpPassword(a.credentials) # D!NoValue
  BY DEF D!ResolveSmtpPassword
<1> HIDE DEF password, temporary, lasting, class, category
<1>3. result = IF ~password THEN D!Failed("permanent", "credential-missing")
               ELSE IF server.accepts THEN D!Delivered ELSE D!Failed(class, category)
  BY <1>2 DEF D!Deliver, class, category
<1> HIDE DEF result
<1>4. result.ok <=> password /\ server.accepts
  BY <1>3 DEF D!Failed, D!Delivered
<1>5. result.class = "retry" <=> password /\ ~server.accepts /\ temporary /\ ~lasting
  BY <1>1, <1>3 DEF D!Failed, D!Delivered
<1>6. D!DecideRetry(result.class, a.attempts, a.policy.retryAttempts)
        <=> /\ password /\ ~server.accepts
            /\ temporary /\ ~lasting
            /\ a.attempts <= a.policy.retryAttempts
  BY <1>5 DEF D!DecideRetry
<1>7. IF a.configured /\ a.recipients # {}
      THEN test.delivered = result.ok /\ test.category = result.category
      ELSE ~test.delivered /\ test.category = "config-incomplete"
  BY DEF D!SendTestEmail, result
<1> QED BY <1>4, <1>6, <1>7 DEF result, password, temporary, lasting

\* Every attempt is judged by what happened in it, and every policy waits as it says
\* (deliver, classifyError, decideRetry, backoffSequence, sendTestEmail).
THEOREM AttemptsAreWellJudged == Spec => []AttemptsAreJudgedTruly
<1>1. ASSUME NEW a \in Attempts
      PROVE  /\ a.policy.retryAttempts \in Nat /\ a.policy.baseDelayMs \in Nat
             /\ a.policy.maxDelayMs \in Nat
  BY AttemptsAssumption
<1>2. Drawn => AttemptsAreJudgedTruly
  <2> SUFFICES ASSUME Drawn, kind = "attempt"
               PROVE  AttemptsAreJudgedTruly
    BY DEF AttemptsAreJudgedTruly
  <2>1. input \in Attempts
    BY DEF Drawn
  <2>2. /\ input.policy.retryAttempts \in Nat /\ input.policy.baseDelayMs \in Nat
        /\ input.policy.maxDelayMs \in Nat
    BY <1>1, <2>1
  <2>3. /\ Len(D!BackoffSequence(input.policy)) = input.policy.retryAttempts
        /\ \A n \in 1 .. Len(D!BackoffSequence(input.policy)) :
             LET raw == IF n = 1 THEN input.policy.baseDelayMs ELSE 3 * D!BackoffSequence(input.policy)[n - 1]
             IN  D!BackoffSequence(input.policy)[n]
                   = IF raw <= input.policy.maxDelayMs THEN raw ELSE input.policy.maxDelayMs
    BY <2>2, WaitsGrow
  <2> QED BY <2>1, <2>3, JudgedTruly DEF AttemptsAreJudgedTruly
<1> QED BY <1>2, InputsAreDrawn, PTL

-----------------------------------------------------------------------------
\* The end of a turn.

\* A failure is one record of facts, in which only the message depends on the words.
LEMMA FactsAreOne ==
  ASSUME NEW e, e[1] = "record"
  PROVE  \E code :
           /\ code = IF A!SanitizeDetail(e[2].code) = A!Missing THEN <<"text", "UNKNOWN">> ELSE e[2].code
           /\ A!ExtractFailureFacts(e) =
                {[code |-> code, status |-> A!AsNumber(e[2].status),
                  retryAfter |-> A!NonNegative(e[2].retryAfter),
                  message |-> A!SanitizeDetail(e[2].message)]}
BY DEF A!ExtractFailureFacts

LEMMA WordsDecideNothing ==
  ASSUME NEW e, e[1] = "record", NEW m,
         e = <<"record", [code |-> e[2].code, message |-> e[2].message, status |-> e[2].status,
                          retryAfter |-> e[2].retryAfter]>>
  PROVE  LET f == <<"record", [e[2] EXCEPT !.message = m]>>
         IN  {[x EXCEPT !.message = A!Missing] : x \in A!ExtractFailureFacts(f)}
               = {[x EXCEPT !.message = A!Missing] : x \in A!ExtractFailureFacts(e)}
<1> DEFINE f == <<"record", [e[2] EXCEPT !.message = m]>>
           fact(code, words) ==
             [code |-> code, status |-> A!AsNumber(e[2].status),
              retryAfter |-> A!NonNegative(e[2].retryAfter), message |-> words]
           code == IF A!SanitizeDetail(e[2].code) = A!Missing THEN <<"text", "UNKNOWN">> ELSE e[2].code
<1>1. /\ f[1] = "record" /\ f[2].code = e[2].code /\ f[2].status = e[2].status
      /\ f[2].retryAfter = e[2].retryAfter /\ f[2].message = m
  <2>1. DOMAIN e[2] = {"code", "message", "status", "retryAfter"}
    <3> DEFINE r == [code |-> e[2].code, message |-> e[2].message, status |-> e[2].status,
                     retryAfter |-> e[2].retryAfter]
    <3>1. e[2] = r
      <4> HIDE DEF r
      <4>1. e = <<"record", r>>
        BY DEF r
      <4> QED BY <4>1
    <3>2. DOMAIN r = {"code", "message", "status", "retryAfter"}
      OBVIOUS
    <3> HIDE DEF r
    <3> QED BY <3>1, <3>2
  <2> QED BY <2>1
<1>2. A!ExtractFailureFacts(e) = {fact(code, A!SanitizeDetail(e[2].message))}
  BY FactsAreOne
<1>3. A!ExtractFailureFacts(f) = {fact(code, A!SanitizeDetail(m))}
  <2> HIDE DEF f
  <2> QED BY <1>1, FactsAreOne
<1> HIDE DEF code, f
<1>4. ASSUME NEW words, NEW X, X = {fact(code, words)}
      PROVE  {[x EXCEPT !.message = A!Missing] : x \in X} = {fact(code, A!Missing)}
  <2>1. [fact(code, words) EXCEPT !.message = A!Missing] = fact(code, A!Missing)
    OBVIOUS
  <2> HIDE DEF fact
  <2>2. \A x \in X : [x EXCEPT !.message = A!Missing] = fact(code, A!Missing)
    BY <1>4, <2>1
  <2>3. fact(code, words) \in X
    BY <1>4
  <2> QED BY <2>2, <2>3
<1> HIDE DEF fact
<1>5. /\ {[x EXCEPT !.message = A!Missing] : x \in A!ExtractFailureFacts(f)} = {fact(code, A!Missing)}
      /\ {[x EXCEPT !.message = A!Missing] : x \in A!ExtractFailureFacts(e)} = {fact(code, A!Missing)}
  BY <1>2, <1>3, <1>4
<1> QED BY <1>5 DEF f

\* What the kind of a reason makes of it.
LEMMA EndIs ==
  ASSUME NEW r
  PROVE  LET end == A!ReadTurnEnd(r)
             named == IF r[1] = "record" THEN A!ToTurnEndKind(r[2].kind) ELSE "unknown"
         IN  /\ end.kind = named
             /\ end.failure = IF named = "error" THEN A!ExtractFailureFacts(r[2].error) ELSE {}
             /\ named \notin {"error", "aborted"} => end.told = A!NoDetail
BY DEF A!ReadTurnEnd

LEMMA EndRead ==
  ASSUME NEW r \in Reasons
  PROVE  LET end == A!ReadTurnEnd(r)
             facts(q) == {[f EXCEPT !.message = A!Missing] : f \in A!ReadTurnEnd(q).failure}
             isError == r[1] = "record" /\ r[2].kind = <<"text", "error">> /\ r[2].error[1] = "record"
             reworded(m) == <<"record", [r[2] EXCEPT !.error = <<"record", [@[2] EXCEPT !.message = m]>>]>>
         IN  /\ end.kind # "unknown" => r[2].kind = <<"text", end.kind>>
             /\ end.failure # {} <=> isError
             /\ end.told.detail # A!Missing => end.kind \in {"error", "aborted"}
             /\ isError =>
                  /\ \A m : facts(reworded(m)) = facts(r)
                  /\ \A f \in end.failure :
                       /\ f.retryAfter # A!Missing => f.retryAfter[2] >= 0
                       /\ \A field \in {"status", "retryAfter", "message"} :
                            f[field] \in {A!Missing, r[2].error[2][field]}
<1> DEFINE end == A!ReadTurnEnd(r)
           facts(q) == {[f EXCEPT !.message = A!Missing] : f \in A!ReadTurnEnd(q).failure}
           isError == r[1] = "record" /\ r[2].kind = <<"text", "error">> /\ r[2].error[1] = "record"
           reworded(m) == <<"record", [r[2] EXCEPT !.error = <<"record", [@[2] EXCEPT !.message = m]>>]>>
           named == IF r[1] = "record" THEN A!ToTurnEndKind(r[2].kind) ELSE "unknown"
<1>1. r[1] = "record" =>
        /\ r = <<"record", [kind |-> r[2].kind, error |-> r[2].error, reason |-> r[2].reason]>>
        /\ r[2].kind[1] = "text" => r[2].kind = <<"text", r[2].kind[2]>>
        /\ r[2].error[1] = "record" =>
             r[2].error = <<"record", [code |-> r[2].error[2].code, message |-> r[2].error[2].message,
                                       status |-> r[2].error[2].status,
                                       retryAfter |-> r[2].error[2].retryAfter]>>
  BY ReasonsAssumption
<1>2. /\ end.kind = named
      /\ end.failure = IF named = "error" THEN A!ExtractFailureFacts(r[2].error) ELSE {}
      /\ named \notin {"error", "aborted"} => end.told = A!NoDetail
  BY EndIs
<1>3. /\ named # "unknown" => r[2].kind = <<"text", named>>
      /\ named = "error" <=> r[1] = "record" /\ r[2].kind = <<"text", "error">>
  BY <1>1 DEF A!ToTurnEndKind, A!EndKinds
<1> HIDE DEF end, named
<1>4. end.failure # {} <=> isError
  <2>1. r[2].error[1] # "record" => A!ExtractFailureFacts(r[2].error) = {}
    BY DEF A!ExtractFailureFacts
  <2>2. r[2].error[1] = "record" => A!ExtractFailureFacts(r[2].error) # {}
    BY DEF A!ExtractFailureFacts
  <2> QED BY <1>2, <1>3, <2>1, <2>2
<1>5. end.told.detail # A!Missing => end.kind \in {"error", "aborted"}
  BY <1>2 DEF A!NoDetail
<1>6. ASSUME isError, NEW m
      PROVE  facts(reworded(m)) = facts(r)
  <2> DEFINE f == <<"record", [r[2].error[2] EXCEPT !.message = m]>>
             q == reworded(m)
  <2>1. q[1] = "record" /\ q[2].kind = r[2].kind /\ q[2].error = f
    <3> HIDE DEF f
    <3>1. q = <<"record", [r[2] EXCEPT !.error = f]>>
      BY DEF f
    <3>2. DOMAIN r[2] = {"kind", "error", "reason"}
      <4> DEFINE body == [kind |-> r[2].kind, error |-> r[2].error, reason |-> r[2].reason]
      <4>1. DOMAIN body = {"kind", "error", "reason"}
        OBVIOUS
      <4>2. r = <<"record", body>>
        BY <1>1, <1>6
      <4> HIDE DEF body
      <4>3. r[2] = body
        BY <4>2
      <4> QED BY <4>1, <4>3
    <3> HIDE DEF q
    <3> QED BY <3>1, <3>2
  <2> HIDE DEF q, f
  <2>2. A!ReadTurnEnd(q).failure = A!ExtractFailureFacts(f)
    <3>1. A!ToTurnEndKind(q[2].kind) = "error"
      BY <1>6, <2>1 DEF A!ToTurnEndKind, A!EndKinds
    <3> QED BY <2>1, <3>1, EndIs
  <2>3. A!ReadTurnEnd(r).failure = A!ExtractFailureFacts(r[2].error)
    BY <1>2, <1>3, <1>6 DEF end
  <2>4. {[x EXCEPT !.message = A!Missing] : x \in A!ExtractFailureFacts(f)}
          = {[x EXCEPT !.message = A!Missing] : x \in A!ExtractFailureFacts(r[2].error)}
    BY <1>1, <1>6, WordsDecideNothing DEF f
  <2> QED BY <2>2, <2>3, <2>4 DEF q
<1>7. ASSUME isError, NEW f \in end.failure
      PROVE  /\ f.retryAfter # A!Missing => f.retryAfter[2] >= 0
             /\ \A field \in {"status", "retryAfter", "message"} :
                  f[field] \in {A!Missing, r[2].error[2][field]}
  <2> DEFINE e == r[2].error
  <2>1. f \in A!ExtractFailureFacts(e)
    BY <1>2, <1>3, <1>7
  <2>2. /\ f.status = A!AsNumber(e[2].status) /\ f.retryAfter = A!NonNegative(e[2].retryAfter)
        /\ f.message = A!SanitizeDetail(e[2].message)
    BY <1>7, <2>1, FactsAreOne
  <2>3. A!AsNumber(e[2].status) \in {A!Missing, e[2].status}
    BY DEF A!AsNumber
  <2>4. /\ A!NonNegative(e[2].retryAfter) \in {A!Missing, e[2].retryAfter}
        /\ A!NonNegative(e[2].retryAfter) # A!Missing => A!NonNegative(e[2].retryAfter)[2] >= 0
    BY DEF A!NonNegative
  <2>5. A!SanitizeDetail(e[2].message) \in {A!Missing, e[2].message}
    BY DEF A!SanitizeDetail, A!AsString
  <2> HIDE DEF e
  <2>6. /\ f["status"] \in {A!Missing, e[2]["status"]} /\ f["retryAfter"] \in {A!Missing, e[2]["retryAfter"]}
        /\ f["message"] \in {A!Missing, e[2]["message"]}
    BY <2>2, <2>3, <2>4, <2>5
  <2> QED BY <2>2, <2>4, <2>6 DEF e
<1>8. end.kind # "unknown" => r[2].kind = <<"text", end.kind>>
  BY <1>2, <1>3
<1> HIDE DEF isError, facts, reworded
<1>9. isError =>
        /\ \A m : facts(reworded(m)) = facts(r)
        /\ \A f \in end.failure :
             /\ f.retryAfter # A!Missing => f.retryAfter[2] >= 0
             /\ \A field \in {"status", "retryAfter", "message"} :
                  f[field] \in {A!Missing, r[2].error[2][field]}
  BY <1>6, <1>7
<1> QED BY <1>4, <1>5, <1>8, <1>9 DEF end, isError, facts, reworded

\* The kind of a turn's end and the facts of its failure come from the reason's own kind
\* and code, whatever the message says (toInternalEvent, extractFailureFacts).
THEOREM EndsAreReadByCode == Spec => []EndsAreReadByTheirCode
<1>1. Drawn => EndsAreReadByTheirCode
  BY EndRead DEF Drawn, EndsAreReadByTheirCode
<1> QED BY <1>1, InputsAreDrawn, PTL

-----------------------------------------------------------------------------
\* What is read of a payload.

\* The readers filter as everyone does.
LEMMA AAmongIs ==
  ASSUME NEW s, NEW S
  PROVE  A!Among(s, S) = Among(s, S) /\ A!ToSet(s) = ToSet(s)
BY DEF A!Among, Among, A!ToSet, ToSet

\* A reader of a list finds a sequence.
LEMMA ListsAreSequences ==
  ASSUME NEW v, IsList(v)
  PROVE  \E T : A!AsSeq(v) \in Seq(T) /\ T = ToSet(A!AsSeq(v))
BY DEF IsList

LEMMA TextBlocksFilter ==
  ASSUME NEW blocks
  PROVE  A!TextBlocks(blocks) = Among(blocks, {b \in ToSet(blocks) : b.type = "text" /\ b.text[1] = "text"})
<1>1. A!ToSet(blocks) = ToSet(blocks)
  BY AAmongIs
<1>2. A!TextBlocks(blocks) = A!Among(blocks, {b \in ToSet(blocks) : b.type = "text" /\ b.text[1] = "text"})
  BY <1>1 DEF A!TextBlocks
<1> QED BY <1>2, AAmongIs

\* The text blocks are in the list, and each is one.
LEMMA TextBlocksAre ==
  ASSUME NEW T, NEW blocks \in Seq(T)
  PROVE  /\ A!TextBlocks(blocks) \in Seq(T)
         /\ ToSet(A!TextBlocks(blocks)) = {b \in ToSet(blocks) : b.type = "text" /\ b.text[1] = "text"}
<1> DEFINE S == {b \in ToSet(blocks) : b.type = "text" /\ b.text[1] = "text"}
<1>1. A!TextBlocks(blocks) = Among(blocks, S)
  BY TextBlocksFilter
<1>2. Among(blocks, S) \in Seq(T \cap S) /\ ToSet(Among(blocks, S)) = ToSet(blocks) \cap S
  <2> HIDE DEF S
  <2> QED BY AmongIs
<1>3. Seq(T \cap S) \subseteq Seq(T)
  OBVIOUS
<1>4. ToSet(blocks) \cap S = S
  OBVIOUS
<1> QED BY <1>1, <1>2, <1>3, <1>4

\* Every part of what a message says is its text or one of its text blocks.
LEMMA PartsAreSaid ==
  ASSUME NEW m, IsMessage(m), NEW i \in DOMAIN A!ReadUserText(m)
  PROVE  LET part == A!ReadUserText(m)[i]
         IN  \/ m.content = <<"text", part>> \/ m.text = <<"text", part>>
             \/ \E j \in DOMAIN A!AsSeq(m.content) :
                  m.content[2][j] = [type |-> "text", text |-> <<"text", part>>]
<1> DEFINE parts == A!ReadUserText(m)
           list == A!AsSeq(m.content)
<1>1. \A v, types : IsField(v, types) /\ v[1] = "text" => v = <<"text", v[2]>>
  BY DEF IsField, A!Missing, A!Junk
<1>2. \A x : DOMAIN <<x>> = {1} /\ <<x>>[1] = x
  OBVIOUS
<1>3. CASE m.content[1] = "text"
  <2>1. parts = <<m.content[2]>>
    BY <1>3 DEF A!ReadUserText
  <2>2. m.content = <<"text", m.content[2]>>
    BY <1>1, <1>3 DEF IsMessage
  <2> QED BY <1>2, <2>1, <2>2
<1>4. CASE m.content[1] = "list"
  <2> DEFINE blocks == A!TextBlocks(m.content[2])
  <2>1. parts = [j \in DOMAIN blocks |-> blocks[j].text[2]] /\ list = m.content[2]
    BY <1>4 DEF A!ReadUserText, A!AsSeq
  <2>2. list \in Seq(ToSet(list))
    BY DEF IsMessage, IsList
  <2>3. ToSet(blocks) = {b \in ToSet(list) : b.type = "text" /\ b.text[1] = "text"}
    <3> HIDE DEF list
    <3> QED BY <2>1, <2>2, TextBlocksAre
  <2> HIDE DEF blocks, list
  <2>4. i \in DOMAIN blocks /\ parts[i] = blocks[i].text[2]
    BY <2>1
  <2>5. blocks[i] \in ToSet(blocks)
    BY <2>4 DEF ToSet
  <2>6. PICK j \in DOMAIN list : blocks[i] = list[j]
    BY <2>3, <2>5 DEF ToSet
  <2>7. blocks[i].type = "text" /\ blocks[i].text[1] = "text" /\ blocks[i] \in ToSet(list)
    BY <2>3, <2>5
  <2>8. blocks[i] = [type |-> "text", text |-> blocks[i].text] /\ blocks[i].text = <<"text", blocks[i].text[2]>>
    <3>1. blocks[i] = [type |-> blocks[i].type, text |-> blocks[i].text] /\ IsField(blocks[i].text, {"text"})
      BY <2>7 DEF IsMessage, list
    <3> QED BY <1>1, <2>7, <3>1
  <2>9. m.content[2][j] = [type |-> "text", text |-> <<"text", parts[i]>>]
    BY <2>1, <2>4, <2>6, <2>8
  <2> QED BY <2>6, <2>9 DEF list
<1>5. CASE m.content[1] \notin {"text", "list"} /\ m.text[1] = "text"
  <2>1. parts = <<m.text[2]>>
    BY <1>5 DEF A!ReadUserText
  <2>2. m.text = <<"text", m.text[2]>>
    BY <1>1, <1>5 DEF IsMessage
  <2> QED BY <1>2, <2>1, <2>2
<1>6. CASE m.content[1] \notin {"text", "list"} /\ m.text[1] # "text"
  <2>1. parts = <<>>
    BY <1>6 DEF A!ReadUserText
  <2> QED BY <2>1
<1> QED BY <1>3, <1>4, <1>5, <1>6

\* Words that are taken for a human's were said in a message whose source says so.
LEMMA PromptsAreSaid ==
  ASSUME NEW d \in Messages, A!IsDirectPrompt(A!ReadPrompt(d))
  PROVE  LET prompt == A!ReadPrompt(d)
             nested == IF d.message[1] = "message" THEN {d.message[2]} ELSE {}
             says(m, part) == \/ m.content = <<"text", part>> \/ m.text = <<"text", part>>
                              \/ \E i \in DOMAIN A!AsSeq(m.content) :
                                   m.content[2][i] = [type |-> "text", text |-> <<"text", part>>]
         IN  \E m \in {d} \cup nested :
               /\ m.source = <<"text", "user">>
               /\ \A i \in DOMAIN prompt.parts : says(m, prompt.parts[i])
               /\ m \in nested => d.source = A!Missing /\ d.text = A!Missing
<1> DEFINE prompt == A!ReadPrompt(d)
           message == A!ResolveUserMessage(d)
           nested == IF d.message[1] = "message" THEN {d.message[2]} ELSE {}
           says(m, part) == \/ m.content = <<"text", part>> \/ m.text = <<"text", part>>
                            \/ \E i \in DOMAIN A!AsSeq(m.content) :
                                 m.content[2][i] = [type |-> "text", text |-> <<"text", part>>]
<1>1. prompt.source = A!AsString(message.source) /\ prompt.parts = A!ReadUserText(message)
  BY DEF A!ReadPrompt
<1>2. message.source = <<"text", "user">>
  <2>1. prompt.source = <<"text", "user">>
    BY DEF A!IsDirectPrompt
  <2>2. A!Missing # <<"text", "user">>
    BY DEF A!Missing
  <2> HIDE DEF prompt, message
  <2> QED BY <1>1, <2>1, <2>2 DEF A!AsString
<1>3. IsMessage(d) /\ IsField(d.message, {"message"})
      /\ (d.message[1] = "message" => IsMessage(d.message[2]) /\ d.message[2] # d)
  BY PayloadsAssumption
<1>4. \/ message = d
      \/ /\ d.message \notin {A!Missing, A!Junk} /\ message = d.message[2]
         /\ d.source = A!Missing /\ d.text = A!Missing
  BY DEF A!ResolveUserMessage
<1>5. d.message \notin {A!Missing, A!Junk} => d.message[1] = "message"
  BY <1>3 DEF IsField
<1> HIDE DEF message, prompt
<1>6. IsMessage(message) /\ message \in {d} \cup nested
      /\ (message \in nested => d.source = A!Missing /\ d.text = A!Missing)
  BY <1>3, <1>4, <1>5
<1>7. \A i \in DOMAIN prompt.parts : says(message, prompt.parts[i])
  BY <1>1, <1>6, PartsAreSaid
<1> HIDE DEF nested, says
<1>8. \E m \in {d} \cup nested :
        /\ m.source = <<"text", "user">>
        /\ \A i \in DOMAIN prompt.parts : says(m, prompt.parts[i])
        /\ m \in nested => d.source = A!Missing /\ d.text = A!Missing
  BY <1>2, <1>6, <1>7
<1> QED BY <1>8 DEF nested, says, prompt

\* A block of another type shows nowhere.
LEMMA HiddenStaysHidden ==
  ASSUME NEW T, NEW blocks \in Seq(T), NEW i \in 0 .. Len(blocks), NEW hidden, hidden.type # "text"
  PROVE  A!VisibleText(InsertAt(blocks, i + 1, hidden)) = A!VisibleText(blocks)
<1> DEFINE U == T \cup {hidden}
           more == InsertAt(blocks, i + 1, hidden)
           Texts(list) == {b \in ToSet(list) : b.type = "text" /\ b.text[1] = "text"}
<1>1. blocks \in Seq(U) /\ hidden \in U /\ i + 1 \in 1 .. Len(blocks) + 1
  OBVIOUS
<1>2. more \in Seq(U) /\ Among(more, Texts(blocks)) = Among(blocks, Texts(blocks))
  <2>1. hidden \notin Texts(blocks)
    OBVIOUS
  <2> DEFINE k == i + 1
  <2>2. k \in 1 .. Len(blocks) + 1
    OBVIOUS
  <2> HIDE DEF U, Texts, k
  <2>3. InsertAt(blocks, k, hidden) \in Seq(U)
    BY <1>1, <2>2, InsertAtIs
  <2>4. Among(InsertAt(blocks, k, hidden), Texts(blocks)) = Among(blocks, Texts(blocks))
    BY <1>1, <2>1, <2>2, AmongSkips
  <2> QED BY <2>3, <2>4 DEF k
<1>3. \A e \in ToSet(more) : e = hidden \/ e \in ToSet(blocks)
  <2> SUFFICES ASSUME NEW n \in DOMAIN more
               PROVE  more[n] = hidden \/ more[n] \in ToSet(blocks)
    BY DEF ToSet
  <2>1. /\ Len(more) = Len(blocks) + 1 /\ more[i + 1] = hidden
        /\ \A k \in 1 .. i : more[k] = blocks[k]
        /\ \A k \in i + 1 .. Len(blocks) : more[k + 1] = blocks[k]
    <3>1. /\ Len(more) = Len(blocks) + 1 /\ more[i + 1] = hidden
          /\ \A k \in 1 .. (i + 1) - 1 : more[k] = blocks[k]
          /\ \A k \in i + 1 .. Len(blocks) : more[k + 1] = blocks[k]
      <4> HIDE DEF U
      <4> QED BY <1>1, InsertAtIs
    <3>2. (i + 1) - 1 = i
      OBVIOUS
    <3> QED BY <3>1, <3>2
  <2> HIDE DEF more
  <2>2. n \in 1 .. Len(more)
    BY <1>2
  <2>3. n \in 1 .. i \/ n = i + 1 \/ n - 1 \in i + 1 .. Len(blocks)
    BY <2>1, <2>2
  <2>4. \A k \in 1 .. Len(blocks) : blocks[k] \in ToSet(blocks)
    BY DEF ToSet
  <2>5. CASE n - 1 \in i + 1 .. Len(blocks)
    BY <2>1, <2>4, <2>5
  <2> QED BY <2>1, <2>3, <2>4, <2>5
<1>4. Among(more, Texts(more)) = Among(more, Texts(blocks))
  <2>1. \A e \in ToSet(more) : e \in Texts(more) <=> e \in Texts(blocks)
    BY <1>3
  <2> HIDE DEF more, Texts, U
  <2> QED BY <1>2, <2>1, AmongAgree
<1>5. A!TextBlocks(more) = A!TextBlocks(blocks)
  <2>1. A!TextBlocks(more) = Among(more, Texts(more)) /\ A!TextBlocks(blocks) = Among(blocks, Texts(blocks))
    <3> HIDE DEF more
    <3> QED BY TextBlocksFilter
  <2> HIDE DEF more, Texts
  <2> QED BY <1>2, <1>4, <2>1
<1> QED BY <1>5 DEF A!VisibleText

\* A usage that is read was reported, in the event or in its stream.
LEMMA UsageIsReported ==
  ASSUME NEW e \in TurnEvents, A!ReadUsage(e.type, e.data) # A!Missing
  PROVE  LET usage == A!ReadUsage(e.type, e.data)
         IN  \/ (usage = e.data.usage /\ e.type = "assistant/message")
             \/ usage \in ToSet(A!AsSeq(e.data.stream))
<1> DEFINE usage == A!ReadUsage(e.type, e.data)
           stream == A!AsSeq(e.data.stream)
           S == {v \in ToSet(stream) : A!CollectUsage(v) # A!Missing}
           reports == Among(stream, S)
<1>1. CASE e.type = "assistant/message" /\ A!CollectUsage(e.data.usage) # A!Missing
  BY <1>1 DEF A!ReadUsage, A!CollectUsage
<1>2. CASE ~(e.type = "assistant/message" /\ A!CollectUsage(e.data.usage) # A!Missing)
  <2>1. usage = A!ReadStreamUsage(e.data.stream)
    BY <1>2 DEF A!ReadUsage
  <2>2. usage = IF reports = <<>> THEN A!Missing ELSE A!Last(reports)
    <3>1. {v \in A!ToSet(stream) : A!CollectUsage(v) # A!Missing} = S
      BY AAmongIs
    <3>2. usage = IF A!Among(stream, S) = <<>> THEN A!Missing ELSE A!Last(A!Among(stream, S))
      <4> HIDE DEF S
      <4> QED BY <2>1, <3>1 DEF A!ReadStreamUsage
    <3> HIDE DEF S
    <3> QED BY <3>2, AAmongIs
  <2>3. stream \in Seq(ToSet(stream))
    BY PayloadsAssumption DEF IsList
  <2>4. reports \in Seq(ToSet(stream) \cap S) /\ ToSet(reports) = ToSet(stream) \cap S
    <3> HIDE DEF stream, S
    <3> QED BY <2>3, AmongIs
  <2> HIDE DEF reports, stream, S
  <2>5. reports # <<>> /\ usage = reports[Len(reports)]
    BY <2>2 DEF A!Last
  <2>6. Len(reports) \in DOMAIN reports
    BY <2>4, <2>5
  <2>7. usage \in ToSet(reports)
    BY <2>5, <2>6 DEF ToSet
  <2> QED BY <2>4, <2>7 DEF stream
<1> QED BY <1>1, <1>2
\* Lineage makes no subagent.
LEMMA LineageIsNoOrigin ==
  ASSUME NEW h \in Headers
  PROVE  /\ \A p \in {A!Missing, <<"text", "parent">>} :
              A!IsSubagent([h EXCEPT !.parentSession = p]) <=> A!IsSubagent(h)
         /\ A!IsSubagent(h) =>
              \/ h.origin = <<"text", "subagent">>
              \/ h.delegationDepth[1] = "number" /\ h.delegationDepth[2] >= 1
<1>1. \A p : /\ [h EXCEPT !.parentSession = p].origin = h.origin
             /\ [h EXCEPT !.parentSession = p].delegationDepth = h.delegationDepth
  BY PayloadsAssumption
<1>2. h.delegationDepth[1] = "number" => h.delegationDepth[2] \in Int
  BY PayloadsAssumption
<1> QED BY <1>1, <1>2 DEF A!IsSubagent

\* Only the first block of a result, or an error, tells that a tool failed.
LEMMA FirstBlockDecides ==
  ASSUME NEW r \in ToolResults
  PROVE  LET fails == A!ToolResultFails(r)
             blocks == A!AsSeq(r.content)
         IN  /\ fails => r.error # A!Missing \/ <<"flag", TRUE>> \in ToSet(blocks)
             /\ r.error = A!Missing /\ blocks # <<>> =>
                  \A b \in {A!Junk, <<"flag", TRUE>>, <<"flag", FALSE>>} :
                    /\ A!ToolResultFails([r EXCEPT !.content = <<"list", Append(blocks, b)>>]) = fails
                    /\ A!ToolResultFails([r EXCEPT !.content = <<"list", <<b>> \o blocks>>]) <=> b = <<"flag", TRUE>>
<1> DEFINE blocks == A!AsSeq(r.content)
           T == ToSet(blocks)
           Flagged(s) == s # <<>> /\ s[1] = <<"flag", TRUE>>
           With(s) == [r EXCEPT !.content = <<"list", s>>]
<1>1. blocks \in Seq(T) /\ r = [content |-> r.content, error |-> r.error]
  BY PayloadsAssumption DEF IsList
<1>2. A!ToolResultFails(r) <=> r.error # A!Missing \/ Flagged(blocks)
  BY DEF A!ToolResultFails
<1>3. A!ToolResultFails(r) \in BOOLEAN /\ \A s : A!ToolResultFails(With(s)) \in BOOLEAN
  BY DEF A!ToolResultFails
<1>4. ASSUME NEW s
      PROVE  A!ToolResultFails(With(s)) <=> r.error # A!Missing \/ Flagged(s)
  <2>1. With(s).error = r.error /\ With(s).content = <<"list", s>>
    BY <1>1
  <2>2. A!AsSeq(<<"list", s>>) = s
    BY DEF A!AsSeq
  <2> HIDE DEF With
  <2> QED BY <2>1, <2>2 DEF A!ToolResultFails
<1> HIDE DEF blocks, With
<1>5. Flagged(blocks) => <<"flag", TRUE>> \in T
  <2>1. blocks # <<>> => 1 \in DOMAIN blocks
    BY <1>1
  <2>2. \A i \in DOMAIN blocks : blocks[i] \in T
    BY DEF ToSet
  <2> QED BY <2>1, <2>2
<1> HIDE DEF T
<1>6. ASSUME blocks # <<>>, NEW b
      PROVE  (Flagged(Append(blocks, b)) <=> Flagged(blocks)) /\ (Flagged(<<b>> \o blocks) <=> b = <<"flag", TRUE>>)
  <2> DEFINE U == T \cup {b}
  <2>1. blocks \in Seq(U) /\ b \in U
    BY <1>1
  <2> HIDE DEF U
  <2>2. Append(blocks, b) # <<>> /\ Append(blocks, b)[1] = blocks[1]
    BY <1>6, <2>1
  <2>3. <<b>> \o blocks # <<>> /\ (<<b>> \o blocks)[1] = b
    BY <2>1
  <2> QED BY <1>6, <2>2, <2>3
<1>7. ASSUME r.error = A!Missing, blocks # <<>>, NEW b
      PROVE  /\ A!ToolResultFails(With(Append(blocks, b))) = A!ToolResultFails(r)
             /\ A!ToolResultFails(With(<<b>> \o blocks)) <=> b = <<"flag", TRUE>>
  <2> HIDE DEF Flagged
  <2>1. A!ToolResultFails(With(Append(blocks, b))) <=> A!ToolResultFails(r)
    BY <1>2, <1>4, <1>6, <1>7
  <2>2. A!ToolResultFails(With(<<b>> \o blocks)) <=> b = <<"flag", TRUE>>
    BY <1>4, <1>6, <1>7
  <2> QED BY <1>3, <2>1, <2>2
<1> QED BY <1>2, <1>5, <1>7 DEF blocks, With, T

\* A request is known by its own id, if it has one of use, else by its tool.
LEMMA RequestsAreKnown ==
  ASSUME NEW a \in Approvals, UsableApproval(a.data), NEW tool
  PROVE  LET identity == A!ApprovalIdentity(a.data[2].id, tool)
         IN  IF a.data[2].id \in {A!Missing, A!Junk, <<"text", "">>} THEN identity = <<"tool", tool>>
             ELSE identity = <<"id", a.data[2].id[2]>>
<1> DEFINE v == a.data[2].id
<1>1. IsField(v, {"text", "number"})
  BY PayloadsAssumption DEF UsableApproval
<1> HIDE DEF v
<1>2. v[1] = "text" \/ v[1] = "number" => v # A!Missing
  BY DEF A!Missing
<1>3. CASE v \in {A!Missing, A!Junk}
  <2>1. v[1] # "text" /\ v[1] # "number"
    BY <1>3 DEF A!Missing, A!Junk
  <2>2. A!AsString(v) = A!Missing /\ A!AsNumber(v) = A!Missing
    BY <2>1 DEF A!AsString, A!AsNumber
  <2> QED BY <1>3, <2>2 DEF A!ApprovalIdentity, v
<1>4. CASE v = <<"text", v[2]>>
  <2>1. v[1] = "text" /\ v # A!Missing /\ v # A!Junk
    BY <1>2, <1>4 DEF A!Junk
  <2>2. v = <<"text", "">> <=> v[2] = ""
    <3> DEFINE w == v[2]
    <3>1. v = <<"text", w>>
      BY <1>4
    <3> HIDE DEF w
    <3>2. v = <<"text", "">> <=> w = ""
      BY <3>1
    <3> QED BY <3>2 DEF w
  <2> QED BY <2>1, <2>2 DEF A!ApprovalIdentity, A!AsString, A!AsNumber, v
<1>5. CASE v = <<"number", v[2]>>
  <2>1. v[1] = "number" /\ v # A!Missing /\ v # A!Junk /\ v # <<"text", "">>
    <3> DEFINE w == v[2]
    <3>1. v = <<"number", w>>
      BY <1>5
    <3> HIDE DEF w
    <3> QED BY <3>1 DEF A!Junk, A!Missing
  <2> QED BY <2>1 DEF A!ApprovalIdentity, A!AsString, A!AsNumber, v
<1> QED BY <1>1, <1>3, <1>4, <1>5 DEF IsField

\* No payload passes for what it is not: lineage makes no subagent, an agent's words
\* are no human's, a reasoning block never shows, usage is what was reported, and
\* only an error or the first block makes a tool fail (runtime-adapter.ts).
THEOREM PayloadsAreStrictlyRead == Spec => []PayloadsAreReadStrictly
<1>1. ASSUME Drawn
      PROVE  PayloadsAreReadStrictly
  <2>1. kind = "header" => input \in Headers
    BY <1>1 DEF Drawn
  <2>2. kind = "message" => input \in Messages
    BY <1>1 DEF Drawn
  <2>3. kind = "event" => input \in TurnEvents
    BY <1>1 DEF Drawn
  <2>4. kind = "tool-result" => input \in ToolResults
    BY <1>1 DEF Drawn
  <2>5. kind = "approval" => input \in Approvals
    BY <1>1 DEF Drawn
  <2>6. ASSUME input \in TurnEvents
        PROVE  LET blocks == A!AsSeq(input.data.content)
                   usage == A!ReadUsage(input.type, input.data)
                   hidden == [type |-> "reasoning", text |-> <<"text", "why">>]
                   turn == A!TurnOf(input.type, input.data)
               IN  /\ turn \in {A!Missing, input.data.turn} /\ turn[1] \in {"missing", "number"}
                   /\ \A i \in 0 .. Len(blocks) :
                        A!VisibleText(InsertAt(blocks, i + 1, hidden)) = A!VisibleText(blocks)
                   /\ usage # A!Missing =>
                        \/ (usage = input.data.usage /\ input.type = "assistant/message")
                        \/ usage \in ToSet(A!AsSeq(input.data.stream))
    <3>1. A!TurnOf(input.type, input.data) \in {A!Missing, input.data.turn}
          /\ A!TurnOf(input.type, input.data)[1] \in {"missing", "number"}
      BY DEF A!TurnOf, A!AsNumber, A!Missing
    <3> DEFINE blocks == A!AsSeq(input.data.content)
               hidden == [type |-> "reasoning", text |-> <<"text", "why">>]
    <3>2. blocks \in Seq(ToSet(blocks))
      BY <2>6, PayloadsAssumption DEF IsList
    <3>3. hidden.type # "text"
      OBVIOUS
    <3> HIDE DEF blocks, hidden
    <3>4. \A i \in 0 .. Len(blocks) : A!VisibleText(InsertAt(blocks, i + 1, hidden)) = A!VisibleText(blocks)
      BY <3>2, <3>3, HiddenStaysHidden
    <3> QED BY <2>6, <3>1, <3>4, UsageIsReported DEF blocks, hidden
  <2>7. CASE kind = "header"
    BY <2>1, <2>7, LineageIsNoOrigin DEF PayloadsAreReadStrictly
  <2>8. CASE kind = "message"
    BY <2>2, <2>8, PromptsAreSaid DEF PayloadsAreReadStrictly
  <2>9. CASE kind = "event"
    BY <2>3, <2>6, <2>9 DEF PayloadsAreReadStrictly
  <2>10. CASE kind = "tool-result"
    BY <2>4, <2>10, FirstBlockDecides DEF PayloadsAreReadStrictly
  <2>11. CASE kind = "approval"
    BY <2>5, <2>11, RequestsAreKnown DEF PayloadsAreReadStrictly
  <2>12. CASE kind \notin {"header", "message", "event", "tool-result", "approval"}
    BY <2>12 DEF PayloadsAreReadStrictly
  <2> QED BY <2>7, <2>8, <2>9, <2>10, <2>11, <2>12
<1> QED BY <1>1, InputsAreDrawn, PTL

-----------------------------------------------------------------------------
\* The answers of the Host, and what the card makes of them.

\* Only an explicit success with a readable value counts as one.
LEMMA OnlySuccessCounts ==
  ASSUME NEW result, NEW value
  PROVE  LET heard == E!Project(result, value)
         IN  /\ heard.ok \in BOOLEAN
             /\ heard.ok <=> /\ result[1] = "record" /\ result[2].ok = E!Flag(TRUE)
                             /\ value # E!Missing
             /\ heard.ok => heard.value = value
BY DEF E!Project, E!Ok, E!Refused

Outcome(endpoint, response) ==
  IF endpoint = E!StatusEndpoint THEN E!ReadRuntimeStatus(response, "r1") ELSE E!RequestTestEmail(response, "r1")
Read(endpoint, value) ==
  IF endpoint = E!StatusEndpoint THEN E!ReadStatusValue(value) ELSE E!ReadTestEmailValue(value)

\* What the card hears of a call is what it can read of a success, under its own envelope.
LEMMA Heard ==
  ASSUME NEW endpoint \in {E!StatusEndpoint, E!TestEmailEndpoint}, NEW response
  PROVE  LET heard == Outcome(endpoint, response)
             result == response.result
         IN  /\ heard.ok \in BOOLEAN
             /\ heard.ok <=> /\ response.status = 200 /\ response.rpcId = "r1"
                             /\ result[1] = "record" /\ result[2].ok = E!Flag(TRUE)
                             /\ Read(endpoint, result[2].value) # E!Missing
             /\ heard.ok => heard.value = Read(endpoint, result[2].value)
<1> DEFINE called == E!CallEndpoint(response, "r1")
<1>1. Outcome(endpoint, response) = E!Project(called, Read(endpoint, E!Value(called)))
  BY DEF Outcome, Read, E!ReadRuntimeStatus, E!RequestTestEmail
<1>2. called = IF response.status = 200 /\ response.rpcId = "r1" THEN response.result
               ELSE E!Failure("transport")
  BY DEF E!CallEndpoint, E!Rejected
<1>3. E!Failure("transport")[2].ok # E!Flag(TRUE)
  BY DEF E!Failure, E!Flag
<1>4. called[1] = "record" => E!Value(called) = called[2].value
  BY DEF E!Value
<1> DEFINE value == Read(endpoint, E!Value(called))
           heard == E!Project(called, value)
<1>5. /\ heard.ok \in BOOLEAN
      /\ heard.ok <=> called[1] = "record" /\ called[2].ok = E!Flag(TRUE) /\ value # E!Missing
      /\ heard.ok => heard.value = value
  <2> HIDE DEF called, value
  <2> QED BY OnlySuccessCounts
<1> HIDE DEF called, heard
<1>6. CASE response.status = 200 /\ response.rpcId = "r1"
  BY <1>1, <1>2, <1>4, <1>5, <1>6 DEF heard
<1>7. CASE ~(response.status = 200 /\ response.rpcId = "r1")
  <2>1. ~heard.ok
    BY <1>2, <1>3, <1>5, <1>7
  <2> QED BY <1>1, <1>5, <1>7, <2>1 DEF heard
<1> QED BY <1>6, <1>7

\* What is read of a value was in it.
LEMMA StatusRead ==
  ASSUME NEW raw
  PROVE  LET shown == E!ReadStatusValue(raw)
             queue == shown[2].queue
         IN  shown # E!Missing =>
               /\ raw[1] = "record" /\ shown = <<"record", shown[2]>>
               /\ DOMAIN shown[2] = {"active", "smtpConfigured", "credentialRef", "queue", "configError"}
               /\ \A field \in {"active", "smtpConfigured"} :
                    shown[2][field] = E!Flag(E!At(raw[2], field) = E!Flag(TRUE))
               /\ shown[2].credentialRef = E!At(raw[2], "credentialRef")
               /\ shown[2].configError = E!Text(E!At(raw[2], "configError"))
               /\ queue # E!Missing =>
                    /\ DOMAIN queue[2] = E!QueueFields
                    /\ \A field \in E!QueueFields : /\ queue[2][field] = raw[2].queue[2][field]
                                                   /\ E!Count(raw[2].queue[2][field]) # E!Missing
<1> DEFINE at(field) == E!At(raw[2], field)
           queue == at("queue")
           whole == queue[1] = "record" /\ \A field \in E!QueueFields : E!Count(E!At(queue[2], field)) # E!Missing
           numbers == [field \in E!QueueFields |-> queue[2][field]]
           shown == E!ReadStatusValue(raw)
<1> SUFFICES ASSUME shown # E!Missing
             PROVE  /\ raw[1] = "record" /\ shown = <<"record", shown[2]>>
                    /\ DOMAIN shown[2] = {"active", "smtpConfigured", "credentialRef", "queue", "configError"}
                    /\ \A field \in {"active", "smtpConfigured"} :
                         shown[2][field] = E!Flag(at(field) = E!Flag(TRUE))
                    /\ shown[2].credentialRef = at("credentialRef")
                    /\ shown[2].configError = E!Text(at("configError"))
                    /\ shown[2].queue # E!Missing =>
                         /\ DOMAIN shown[2].queue[2] = E!QueueFields
                         /\ \A field \in E!QueueFields :
                              /\ shown[2].queue[2][field] = raw[2].queue[2][field]
                              /\ E!Count(raw[2].queue[2][field]) # E!Missing
  OBVIOUS
<1> DEFINE body == [active |-> E!Flag(at("active") = E!Flag(TRUE)),
                    smtpConfigured |-> E!Flag(at("smtpConfigured") = E!Flag(TRUE)),
                    credentialRef |-> at("credentialRef"),
                    queue |-> IF whole THEN <<"record", numbers>> ELSE E!Missing,
                    configError |-> E!Text(at("configError"))]
<1>1. raw[1] = "record" /\ shown = <<"record", body>>
  BY DEF E!ReadStatusValue
<1>2. shown[2] = body
  <2> HIDE DEF shown, body
  <2> QED BY <1>1
<1>3. whole => /\ queue = raw[2].queue
               /\ \A field \in E!QueueFields : E!Count(raw[2].queue[2][field]) # E!Missing
  <2>1. whole => queue = raw[2].queue
    BY DEF E!At, E!Missing
  <2>2. E!Count(E!Missing) = E!Missing
    BY DEF E!Count, E!Missing
  <2>3. \A r, field : E!At(r, field) = r[field] \/ E!At(r, field) = E!Missing
    BY DEF E!At
  <2> HIDE DEF queue
  <2> QED BY <2>1, <2>2, <2>3
<1>4. DOMAIN body = {"active", "smtpConfigured", "credentialRef", "queue", "configError"}
  OBVIOUS
<1>5. /\ body["active"] = E!Flag(at("active") = E!Flag(TRUE))
      /\ body["smtpConfigured"] = E!Flag(at("smtpConfigured") = E!Flag(TRUE))
      /\ body.credentialRef = at("credentialRef") /\ body.configError = E!Text(at("configError"))
      /\ body.queue = IF whole THEN <<"record", numbers>> ELSE E!Missing
  OBVIOUS
<1>6. /\ <<"record", numbers>>[2] = numbers /\ DOMAIN numbers = E!QueueFields
      /\ \A field \in E!QueueFields : numbers[field] = queue[2][field]
  <2>1. \A v : <<"record", v>>[2] = v
    OBVIOUS
  <2> QED BY <2>1
<1> HIDE DEF shown, body, at, whole, numbers
<1>7. body.queue # E!Missing =>
        /\ DOMAIN body.queue[2] = E!QueueFields
        /\ \A field \in E!QueueFields :
             body.queue[2][field] = raw[2].queue[2][field] /\ E!Count(raw[2].queue[2][field]) # E!Missing
  BY <1>3, <1>5, <1>6
<1> QED BY <1>1, <1>2, <1>4, <1>5, <1>7

LEMMA TestEmailRead ==
  ASSUME NEW raw
  PROVE  LET shown == E!ReadTestEmailValue(raw)
         IN  shown # E!Missing =>
               /\ raw[1] = "record" /\ shown = <<"record", shown[2]>>
               /\ DOMAIN shown[2] = {"delivered", "recipientCount", "category", "message"}
               /\ shown[2].delivered = E!At(raw[2], "delivered")
               /\ shown[2].recipientCount = E!At(raw[2], "recipientCount")
               /\ shown[2].category = E!Text(E!At(raw[2], "category"))
               /\ shown[2].message = E!Text(E!At(raw[2], "message"))
BY DEF E!ReadTestEmailValue, E!At, E!Missing, E!Count

LEMMA FlagsAreTold ==
  ASSUME NEW b \in BOOLEAN
  PROVE  E!Flag(b)[1] = "flag" /\ E!Flag(b)[2] = b /\ (E!Flag(b) = E!Flag(TRUE)) = b
BY DEF E!Flag

\* What the Host reports of a state is a status the card can read, and reads as it is.
LEMMA StatusIsTold ==
  ASSUME NEW x \in Exchanges
  PROVE  LET host == x.host
             shown == E!ReadStatusValue(E!Status(host))
         IN  /\ shown # E!Missing
             /\ shown[2].active[2] = host.mounted
             /\ shown[2].queue[1] = "record" <=> host.mounted
             /\ shown[2].configError = E!Missing <=> host.effective.errors = {}
             /\ host.mounted =>
                  /\ shown[2].queue[2].delivered[2] + shown[2].queue[2].failed[2] = host.queue.processed
                  /\ shown[2].queue[2].depth[2] = host.queue.depth
<1> DEFINE host == x.host
           config == host.effective
           least(n) == IF n < 0 THEN 0 ELSE n
           numbers == [depth |-> <<"number", host.queue.depth>>, size |-> <<"number", config.queueSize>>,
                       delivered |-> <<"number", least(host.queue.processed - host.queue.failed)>>,
                       failed |-> <<"number", host.queue.failed>>]
           queue == IF ~host.mounted THEN E!Missing ELSE <<"record", numbers>>
           body == [active |-> E!Flag(host.mounted), smtpConfigured |-> E!Flag(config.smtpConfigured),
                    credentialRef |-> <<"text", config.credentialRef>>, queue |-> queue,
                    configError |-> IF config.errors = {} THEN E!Missing ELSE <<"text", "errors">>]
           raw == E!Status(host)
           shown == E!ReadStatusValue(raw)
<1>1. /\ host.mounted \in BOOLEAN /\ config.queueSize \in Nat /\ host.queue.depth \in Nat
      /\ host.queue.processed \in Nat /\ host.queue.failed \in Nat
      /\ host.queue.failed <= host.queue.processed
  BY ExchangesAssumption
<1>2. raw = <<"record", body>>
  BY DEF E!Status
<1>3. raw[1] = "record" /\ raw[2] = body
  <2> HIDE DEF raw, body
  <2> QED BY <1>2
<1>4. /\ E!At(body, "active") = E!Flag(host.mounted)
      /\ E!At(body, "credentialRef") = <<"text", config.credentialRef>>
      /\ E!At(body, "queue") = queue
      /\ E!At(body, "configError") = IF config.errors = {} THEN E!Missing ELSE <<"text", "errors">>
  <2> HIDE DEF queue, config
  <2> QED BY DEF E!At
<1>5. host.mounted =>
        /\ queue[1] = "record" /\ queue[2] = numbers
        /\ \A field \in E!QueueFields : E!Count(E!At(numbers, field)) # E!Missing
        /\ [field \in E!QueueFields |-> numbers[field]] = numbers
  <2>1. least(host.queue.processed - host.queue.failed) \in Nat
    BY <1>1
  <2> DEFINE delivered == least(host.queue.processed - host.queue.failed)
  <2>2. /\ E!At(numbers, "depth") = <<"number", host.queue.depth>>
        /\ E!At(numbers, "size") = <<"number", config.queueSize>>
        /\ E!At(numbers, "delivered") = <<"number", delivered>>
        /\ E!At(numbers, "failed") = <<"number", host.queue.failed>>
    <3> HIDE DEF least, config
    <3> QED BY DEF E!At
  <2>3. \A n \in Nat : E!Count(<<"number", n>>) # E!Missing
    BY DEF E!Count, E!Missing
  <2>4. host.mounted => queue = <<"record", numbers>>
    OBVIOUS
  <2>5. host.mounted => queue[1] = "record" /\ queue[2] = numbers
    <3> HIDE DEF queue, numbers
    <3> QED BY <2>4
  <2>7. [field \in E!QueueFields |-> numbers[field]] = numbers
    <3>1. numbers = [field \in DOMAIN numbers |-> numbers[field]]
      OBVIOUS
    <3>2. DOMAIN numbers = {"depth", "size", "delivered", "failed"}
      OBVIOUS
    <3> HIDE DEF numbers
    <3> QED BY <3>1, <3>2 DEF E!QueueFields
  <2> HIDE DEF numbers, queue
  <2>6. \A field \in E!QueueFields : E!Count(E!At(numbers, field)) # E!Missing
    BY <1>1, <2>1, <2>2, <2>3 DEF E!QueueFields
  <2> QED BY <2>5, <2>6, <2>7
<1>6. ~host.mounted => queue[1] # "record"
  BY DEF E!Missing
<1> HIDE DEF raw, body, queue, numbers
<1> DEFINE at(field) == E!At(raw[2], field)
           whole == /\ at("queue")[1] = "record"
                    /\ \A field \in E!QueueFields : E!Count(E!At(at("queue")[2], field)) # E!Missing
           copied == <<"record", [field \in E!QueueFields |-> at("queue")[2][field]]>>
           read == [active |-> E!Flag(at("active") = E!Flag(TRUE)),
                    smtpConfigured |-> E!Flag(at("smtpConfigured") = E!Flag(TRUE)),
                    credentialRef |-> at("credentialRef"),
                    queue |-> IF whole THEN copied ELSE E!Missing,
                    configError |-> E!Text(at("configError"))]
<1>7. whole <=> host.mounted
  BY <1>3, <1>4, <1>5, <1>6
<1>8. E!Text(at("credentialRef")) # E!Missing
  BY <1>3, <1>4 DEF E!Text, E!Missing
<1>9. shown = <<"record", read>>
  BY <1>3, <1>8 DEF E!ReadStatusValue
<1>10. shown # E!Missing /\ shown[2] = read
  <2> HIDE DEF read, shown
  <2> QED BY <1>9 DEF E!Missing
<1>11. read.active[2] = host.mounted
  <2>1. (E!Flag(host.mounted) = E!Flag(TRUE)) = host.mounted
    BY <1>1, FlagsAreTold
  <2>2. read.active = E!Flag(at("active") = E!Flag(TRUE))
    OBVIOUS
  <2>3. read.active = E!Flag(host.mounted)
    BY <1>3, <1>4, <2>1, <2>2
  <2> HIDE DEF read
  <2> QED BY <1>1, <2>3, FlagsAreTold
<1>12. read.queue = queue
  <2>1. read.queue = IF whole THEN copied ELSE E!Missing
    OBVIOUS
  <2>2. host.mounted => copied = <<"record", numbers>>
    BY <1>3, <1>4, <1>5
  <2> HIDE DEF read, whole, copied
  <2> QED BY <1>7, <2>1, <2>2 DEF queue
<1>13. read.configError = E!Missing <=> config.errors = {}
  <2>1. read.configError = E!Text(at("configError"))
    OBVIOUS
  <2> HIDE DEF read
  <2> QED BY <1>3, <1>4, <2>1 DEF E!Text, E!Missing
<1>14. host.mounted =>
         /\ queue[2].delivered[2] + queue[2].failed[2] = host.queue.processed
         /\ queue[2].depth[2] = host.queue.depth
  <2>1. /\ numbers.depth = <<"number", host.queue.depth>>
        /\ numbers.delivered = <<"number", least(host.queue.processed - host.queue.failed)>>
        /\ numbers.failed = <<"number", host.queue.failed>>
    BY DEF numbers
  <2> QED BY <1>1, <1>5, <2>1
<1> HIDE DEF shown, read, config
<1>15. shown[2].queue[1] = "record" <=> host.mounted
  BY <1>5, <1>6, <1>10, <1>12
<1> QED BY <1>10, <1>11, <1>12, <1>13, <1>14, <1>15 DEF shown, raw, config

\* The outcome of a delivery test is an answer, and is shown as it is.
LEMMA TestIsTold ==
  ASSUME NEW x \in Exchanges
  PROVE  LET host == x.host
             shown == E!ReadTestEmailValue(E!TestEmail(host))
         IN  /\ shown # E!Missing
             /\ shown[2].delivered[2] = host.test.delivered
             /\ shown[2].category = E!Missing <=> host.test.delivered
<1> DEFINE host == x.host
           test == host.test
           body == [delivered |-> E!Flag(test.delivered), recipientCount |-> <<"number", test.recipientCount>>,
                    category |-> IF test.delivered THEN E!Missing ELSE <<"text", test.category>>,
                    message |-> IF test.delivered THEN E!Missing ELSE <<"text", "diagnostic">>]
           raw == E!TestEmail(host)
           shown == E!ReadTestEmailValue(raw)
<1>1. test.delivered \in BOOLEAN /\ test.recipientCount \in Nat
  BY ExchangesAssumption
<1>2. raw = <<"record", body>>
  BY DEF E!TestEmail
<1>3. raw[1] = "record" /\ raw[2] = body
  <2> HIDE DEF raw, body
  <2> QED BY <1>2
<1>4. /\ E!At(body, "delivered") = E!Flag(test.delivered) /\ body.delivered = E!Flag(test.delivered)
      /\ E!At(body, "recipientCount") = <<"number", test.recipientCount>>
      /\ E!At(body, "category") = IF test.delivered THEN E!Missing ELSE <<"text", test.category>>
  <2> HIDE DEF test
  <2> QED BY DEF E!At
<1> HIDE DEF raw, body
<1> DEFINE read == [delivered |-> raw[2].delivered, recipientCount |-> raw[2].recipientCount,
                    category |-> E!Text(E!At(raw[2], "category")), message |-> E!Text(E!At(raw[2], "message"))]
<1>5. E!At(raw[2], "delivered")[1] = "flag" /\ E!Count(E!At(raw[2], "recipientCount")) # E!Missing
  <2>1. E!At(raw[2], "delivered")[1] = "flag"
    BY <1>1, <1>3, <1>4, FlagsAreTold
  <2>2. \A n \in Nat : E!Count(<<"number", n>>) # E!Missing
    BY DEF E!Count, E!Missing
  <2>3. E!At(raw[2], "recipientCount") = <<"number", test.recipientCount>>
    BY <1>3, <1>4
  <2> HIDE DEF test
  <2> QED BY <1>1, <2>1, <2>2, <2>3
<1>6. shown = <<"record", read>>
  BY <1>3, <1>5 DEF E!ReadTestEmailValue
<1>7. shown # E!Missing /\ shown[2] = read
  <2> HIDE DEF read, shown
  <2> QED BY <1>6 DEF E!Missing
<1>8. read.delivered = raw[2].delivered /\ read.category = E!Text(E!At(raw[2], "category"))
  OBVIOUS
<1> HIDE DEF shown, read
<1>9. shown[2].delivered[2] = test.delivered
  BY <1>1, <1>3, <1>4, <1>7, <1>8, FlagsAreTold
<1>10. shown[2].category = E!Missing <=> test.delivered
  BY <1>1, <1>3, <1>4, <1>7, <1>8 DEF E!Text, E!Missing
<1> QED BY <1>7, <1>9, <1>10 DEF shown, raw

\* A call of an endpoint as the card makes it, and what the Host answers it with.
Asks(x) ==
  /\ x.request.verb = "POST" /\ x.request.contentType = "json" /\ x.request.body[1] = "record"
  /\ x.request.body[2] = [type |-> <<"text", "client-request">>, rpcId |-> <<"text", "r1">>,
                          method |-> <<"text", x.endpoint>>]

LEMMA TextsAreTexts ==
  ASSUME NEW t
  PROVE  /\ E!Text(<<"text", t>>) = <<"text", t>> /\ <<"text", t>> # E!Missing
         /\ <<"text", t>>[1] = "text" /\ <<"text", t>>[2] = t
BY DEF E!Text, E!Missing

\* A success is decoded as the success of that value.
LEMMA SuccessIsRead ==
  ASSUME NEW value
  PROVE  /\ E!Success(value)[1] = "record" /\ E!Success(value)[2].ok = E!Flag(TRUE)
         /\ E!Success(value)[2].value = value
<1> DEFINE body == [ok |-> E!Flag(TRUE), value |-> value, error |-> E!Missing]
<1>1. E!Success(value) = <<"record", body>>
  BY DEF E!Success
<1>2. body.ok = E!Flag(TRUE) /\ body.value = value
  OBVIOUS
<1> DEFINE success == E!Success(value)
<1>3. success[1] = "record" /\ success[2] = body
  <2> HIDE DEF body, success
  <2>1. success = <<"record", body>>
    BY <1>1 DEF success
  <2> QED BY <2>1
<1> HIDE DEF body
<1> QED BY <1>2, <1>3

\* What the Host has to say about an endpoint is readable, and is read as it is.
Says(x) == IF x.endpoint = E!StatusEndpoint THEN E!Status(x.host) ELSE E!TestEmail(x.host)

LEMMA AskedIsAnswered ==
  ASSUME NEW x \in Exchanges, Asks(x)
  PROVE  LET heard == Outcome(x.endpoint, E!HandlePost(x.host, x.request))
         IN  heard.ok /\ heard.value = Read(x.endpoint, Says(x))
<1> DEFINE request == x.request
           body == request.body
           fields == [type |-> <<"text", "client-request">>, rpcId |-> <<"text", "r1">>,
                      method |-> <<"text", x.endpoint>>]
           response == E!HandlePost(x.host, request)
<1>1. x.endpoint \in {E!StatusEndpoint, E!TestEmailEndpoint}
  BY ExchangesAssumption
<1>2. /\ body[1] = "record" /\ body[2] = fields
      /\ request.verb = "POST" /\ request.contentType = "json"
  BY DEF Asks
<1>3. /\ fields["type"] = <<"text", "client-request">> /\ fields["rpcId"] = <<"text", "r1">>
      /\ fields["method"] = <<"text", x.endpoint>>
  OBVIOUS
<1> HIDE DEF fields
<1>4. E!DecodesAsRequest(body)
  <2>1. <<"text", "r1">> # <<"text", "">>
    OBVIOUS
  <2>2. <<"text", x.endpoint>> # <<"text", "">>
    BY <1>1 DEF E!StatusEndpoint, E!TestEmailEndpoint
  <2>3. \A field \in {"rpcId", "method"} : E!Text(body[2][field]) \notin {E!Missing, <<"text", "">>}
    <3>1. E!Text(fields["rpcId"]) = <<"text", "r1">> /\ E!Text(fields["method"]) = <<"text", x.endpoint>>
      BY <1>3, TextsAreTexts
    <3>2. <<"text", "r1">> # E!Missing /\ <<"text", x.endpoint>> # E!Missing
      BY TextsAreTexts
    <3> HIDE DEF body
    <3> QED BY <1>2, <2>1, <2>2, <3>1, <3>2
  <2>4. body[2].type = <<"text", "client-request">>
    BY <1>2, <1>3
  <2> HIDE DEF body
  <2> QED BY <1>2, <2>3, <2>4 DEF E!DecodesAsRequest
<1>5. body # <<"unparsable">>
  BY <1>2
<1>6. body[2].rpcId[2] = "r1" /\ body[2].method[2] = x.endpoint
  BY <1>2, <1>3, TextsAreTexts
<1>7. response = [status |-> 200, rpcId |-> "r1", result |-> E!Dispatch(x.host, x.endpoint)]
  <2> HIDE DEF body
  <2> QED BY <1>2, <1>4, <1>5, <1>6 DEF E!HandlePost, body
<1>8. E!Dispatch(x.host, x.endpoint) = E!Success(Says(x))
  BY <1>1 DEF E!Dispatch, Says, E!StatusEndpoint, E!TestEmailEndpoint
<1>9. response.status = 200 /\ response.rpcId = "r1" /\ response.result = E!Success(Says(x))
  <2> DEFINE said == E!Dispatch(x.host, x.endpoint)
  <2> HIDE DEF response, said
  <2> QED BY <1>7, <1>8 DEF said
<1>10. Read(x.endpoint, Says(x)) # E!Missing
  BY <1>1, StatusIsTold, TestIsTold DEF Read, Says
<1> DEFINE result == response.result
<1>11. result[1] = "record" /\ result[2].ok = E!Flag(TRUE) /\ result[2].value = Says(x)
  <2> DEFINE said == Says(x)
             success == E!Success(said)
  <2>1. success[1] = "record" /\ success[2].ok = E!Flag(TRUE) /\ success[2].value = said
    <3> HIDE DEF said
    <3> QED BY SuccessIsRead
  <2>2. result = success
    BY <1>9
  <2> HIDE DEF response, result, success
  <2> QED BY <2>1, <2>2
<1> HIDE DEF response, result
<1> DEFINE heard == Outcome(x.endpoint, response)
<1>12. heard.ok <=> /\ response.status = 200 /\ response.rpcId = "r1"
                    /\ result[1] = "record" /\ result[2].ok = E!Flag(TRUE)
                    /\ Read(x.endpoint, result[2].value) # E!Missing
  BY <1>1, Heard DEF result
<1>13. heard.ok => heard.value = Read(x.endpoint, result[2].value)
  BY <1>1, Heard DEF result
<1>14. heard.ok /\ heard.value = Read(x.endpoint, Says(x))
  <2> HIDE DEF heard
  <2> QED BY <1>9, <1>10, <1>11, <1>12, <1>13
<1> QED BY <1>14 DEF response

\* Only a call of the endpoint is heard as one.
LEMMA HeardWasAsked ==
  ASSUME NEW x \in Exchanges,
         Outcome(x.endpoint, E!HandlePost(x.host, x.request)).ok,
         x.request.body[2].method = <<"text", x.endpoint>>
  PROVE  Asks(x)
<1> DEFINE request == x.request
           body == request.body
           response == E!HandlePost(x.host, request)
<1>1. x.endpoint \in {E!StatusEndpoint, E!TestEmailEndpoint}
  BY ExchangesAssumption
<1>2. response.status = 200 /\ response.rpcId = "r1"
  BY <1>1, Heard
<1>3. \A status \in {404, 415, 400} : response # E!TransportFailure(status)
  <2>1. \A status : E!TransportFailure(status).status = status
    BY DEF E!TransportFailure
  <2> HIDE DEF response
  <2> QED BY <1>2, <2>1
<1>4. request.verb = "POST" /\ request.contentType = "json" /\ E!DecodesAsRequest(body)
  BY <1>3 DEF E!HandlePost
<1>5. response.rpcId = body[2].rpcId[2]
  BY <1>3, <1>4 DEF E!HandlePost
<1>6. body[1] = "record" /\ body[2].type = <<"text", "client-request">> /\ E!Text(body[2].rpcId) # E!Missing
  BY <1>4 DEF E!DecodesAsRequest
<1>7. body[2].rpcId = <<"text", "r1">>
  <2>1. body[2].rpcId[1] = "text"
    BY <1>6 DEF E!Text
  <2>2. body[2].rpcId = <<"text", body[2].rpcId[2]>>
    BY <1>6, <2>1, ExchangesAssumption
  <2> QED BY <1>2, <1>5, <2>2
<1>8. body[2] = [type |-> <<"text", "client-request">>, rpcId |-> <<"text", "r1">>,
                 method |-> <<"text", x.endpoint>>]
  <2> DEFINE fields == body[2]
             own == [type |-> fields.type, rpcId |-> fields.rpcId, method |-> fields.method]
  <2>1. body = <<"record", own>>
    BY <1>6, ExchangesAssumption
  <2>2. fields = own
    <3> HIDE DEF own
    <3> QED BY <2>1
  <2>3. fields.type = <<"text", "client-request">> /\ fields.rpcId = <<"text", "r1">>
        /\ fields.method = <<"text", x.endpoint>>
    BY <1>6, <1>7
  <2> QED BY <2>2, <2>3
<1> QED BY <1>4, <1>6, <1>8 DEF Asks

\* A success the card hears carries no more than it shows.
LEMMA AnswersAreRead ==
  ASSUME NEW r \in Results
  PROVE  LET heard == Outcome(r.endpoint, [status |-> 200, rpcId |-> "r1", result |-> r.result])
             said == r.result[2].value[2]
             shown == heard.value[2]
         IN  heard.ok =>
               /\ r.result[2].ok = E!Flag(TRUE)
               /\ \A field \in DOMAIN shown \ {"queue"} :
                    \/ shown[field] \in {E!At(said, field), E!Missing}
                    \/ shown[field] = E!Flag(FALSE) /\ E!At(said, field) # E!Flag(TRUE)
               /\ r.endpoint = E!StatusEndpoint /\ shown.queue # E!Missing =>
                    /\ DOMAIN shown.queue[2] = E!QueueFields
                    /\ \A field \in E!QueueFields :
                         shown.queue[2][field] = said.queue[2][field] /\ E!Count(said.queue[2][field]) # E!Missing
<1> DEFINE response == [status |-> 200, rpcId |-> "r1", result |-> r.result]
           heard == Outcome(r.endpoint, response)
           value == r.result[2].value
           said == value[2]
           shown == heard.value[2]
<1> SUFFICES ASSUME heard.ok
             PROVE  /\ r.result[2].ok = E!Flag(TRUE)
                    /\ \A field \in DOMAIN shown \ {"queue"} :
                         \/ shown[field] \in {E!At(said, field), E!Missing}
                         \/ shown[field] = E!Flag(FALSE) /\ E!At(said, field) # E!Flag(TRUE)
                    /\ r.endpoint = E!StatusEndpoint /\ shown.queue # E!Missing =>
                         /\ DOMAIN shown.queue[2] = E!QueueFields
                         /\ \A field \in E!QueueFields :
                              /\ shown.queue[2][field] = said.queue[2][field]
                              /\ E!Count(said.queue[2][field]) # E!Missing
  OBVIOUS
<1>1. r.endpoint \in {E!StatusEndpoint, E!TestEmailEndpoint}
  BY AnswersAssumption
<1>2. response.result = r.result
  OBVIOUS
<1>3. /\ r.result[2].ok = E!Flag(TRUE) /\ Read(r.endpoint, value) # E!Missing
      /\ heard.value = Read(r.endpoint, value)
  <2> HIDE DEF response
  <2> QED BY <1>1, <1>2, Heard
<1>4. \A v : E!Text(v) \in {v, E!Missing}
  BY DEF E!Text
<1>5. CASE r.endpoint = E!StatusEndpoint
  <2>1. heard.value = E!ReadStatusValue(value) /\ heard.value # E!Missing
    BY <1>3, <1>5 DEF Read
  <2>2. /\ DOMAIN shown = {"active", "smtpConfigured", "credentialRef", "queue", "configError"}
        /\ \A field \in {"active", "smtpConfigured"} :
             shown[field] = E!Flag(E!At(said, field) = E!Flag(TRUE))
        /\ shown["credentialRef"] = E!At(said, "credentialRef")
        /\ shown["configError"] = E!Text(E!At(said, "configError"))
        /\ shown.queue # E!Missing =>
             /\ DOMAIN shown.queue[2] = E!QueueFields
             /\ \A field \in E!QueueFields :
                  shown.queue[2][field] = said.queue[2][field] /\ E!Count(said.queue[2][field]) # E!Missing
    <3> DEFINE read == heard.value
    <3>1. read = E!ReadStatusValue(value) /\ read # E!Missing
      BY <2>1
    <3> HIDE DEF heard, value, read
    <3>2. /\ DOMAIN read[2] = {"active", "smtpConfigured", "credentialRef", "queue", "configError"}
          /\ \A field \in {"active", "smtpConfigured"} :
               read[2][field] = E!Flag(E!At(value[2], field) = E!Flag(TRUE))
          /\ read[2].credentialRef = E!At(value[2], "credentialRef")
          /\ read[2].configError = E!Text(E!At(value[2], "configError"))
      BY <3>1, StatusRead
    <3>3. read[2].queue # E!Missing =>
            /\ DOMAIN read[2].queue[2] = E!QueueFields
            /\ \A field \in E!QueueFields :
                 read[2].queue[2][field] = value[2].queue[2][field] /\ E!Count(value[2].queue[2][field]) # E!Missing
      BY <3>1, StatusRead
    <3> QED BY <3>2, <3>3 DEF read
  <2> HIDE DEF shown, said, heard
  <2>3. ASSUME NEW field \in {"active", "smtpConfigured"}
        PROVE  \/ shown[field] = E!At(said, field)
               \/ shown[field] = E!Flag(FALSE) /\ E!At(said, field) # E!Flag(TRUE)
    <3>1. shown[field] = E!Flag(E!At(said, field) = E!Flag(TRUE))
      BY <2>2
    <3>2. CASE E!At(said, field) = E!Flag(TRUE)
      BY <3>1, <3>2
    <3>3. CASE E!At(said, field) # E!Flag(TRUE)
      <4>1. (E!At(said, field) = E!Flag(TRUE)) = FALSE
        BY <3>3
      <4> QED BY <3>1, <3>3, <4>1
    <3> QED BY <3>2, <3>3
  <2>4. \A field \in DOMAIN shown \ {"queue"} :
          \/ shown[field] \in {E!At(said, field), E!Missing}
          \/ shown[field] = E!Flag(FALSE) /\ E!At(said, field) # E!Flag(TRUE)
    BY <1>4, <2>2, <2>3
  <2> QED BY <1>3, <1>5, <2>2, <2>4
<1>6. CASE r.endpoint # E!StatusEndpoint
  <2>1. heard.value = E!ReadTestEmailValue(value) /\ heard.value # E!Missing
    BY <1>3, <1>6 DEF Read
  <2>2. /\ DOMAIN shown = {"delivered", "recipientCount", "category", "message"}
        /\ \A field \in {"delivered", "recipientCount"} : shown[field] = E!At(said, field)
        /\ \A field \in {"category", "message"} : shown[field] = E!Text(E!At(said, field))
    <3> HIDE DEF heard, value
    <3> QED BY <2>1, TestEmailRead
  <2> HIDE DEF shown, said, heard
  <2>3. \A field \in DOMAIN shown : shown[field] \in {E!At(said, field), E!Missing}
    BY <1>4, <2>2
  <2> QED BY <1>3, <1>6, <2>3
<1> QED BY <1>5, <1>6

\* A credential is reported as it is described, and a refusal is none.
LEMMA CredentialsAreRead ==
  ASSUME NEW d \in Descriptions
  PROVE  LET heard == E!DescribeCredential(d.answer, d.ref)
         IN  /\ heard.ok <=> d.answer[1] = "value" /\ d.ref \in DOMAIN d.answer[2]
             /\ heard.ok => \A field \in {"configured", "writable"} :
                  heard.value[field] <=> d.answer[2][d.ref][field] = E!Flag(TRUE)
             /\ E!WriteCredential(d.answer).ok <=> d.answer[1] = "value"
<1> DEFINE heard == E!DescribeCredential(d.answer, d.ref)
           entry == d.answer[2][d.ref]
           told == [configured |-> entry.configured = E!Flag(TRUE), writable |-> entry.writable = E!Flag(TRUE)]
<1>1. d.answer[1] \in {"throws", "error", "value"}
  BY AnswersAssumption
<1>2. E!WriteCredential(d.answer).ok <=> d.answer[1] = "value"
  BY <1>1 DEF E!WriteCredential, E!Ok, E!Refused
<1>3. CASE d.answer[1] = "value" /\ d.ref \in DOMAIN d.answer[2]
  <2>1. heard = E!Ok(told)
    BY <1>3 DEF E!DescribeCredential
  <2>2. E!Ok(told).ok = TRUE /\ E!Ok(told).value = told
    <3> HIDE DEF told
    <3> QED BY DEF E!Ok
  <2>3. \A field \in {"configured", "writable"} : told[field] = (entry[field] = E!Flag(TRUE))
    <3> HIDE DEF entry
    <3>1. told.configured = (entry.configured = E!Flag(TRUE))
      OBVIOUS
    <3>2. told.writable = (entry.writable = E!Flag(TRUE))
      OBVIOUS
    <3> HIDE DEF told
    <3> QED BY <3>1, <3>2
  <2> HIDE DEF told, heard, entry
  <2>4. heard.ok /\ \A field \in {"configured", "writable"} : heard.value[field] <=> entry[field] = E!Flag(TRUE)
    BY <2>1, <2>2, <2>3
  <2> QED BY <1>2, <1>3, <2>4 DEF heard, entry
<1>4. CASE ~(d.answer[1] = "value" /\ d.ref \in DOMAIN d.answer[2])
  <2>1. ~heard.ok
    BY <1>1, <1>4 DEF E!DescribeCredential, E!Refused
  <2> QED BY <1>2, <1>4, <2>1
<1> QED BY <1>3, <1>4

LEMMA CallsAreHeard ==
  ASSUME NEW x \in Exchanges
  PROVE  LET request == x.request
             host == x.host
             heard == Outcome(x.endpoint, E!HandlePost(host, request))
         IN  /\ Asks(x) => heard.ok
             /\ heard.ok /\ request.body[2].method = <<"text", x.endpoint>> => Asks(x)
             /\ Asks(x) /\ x.endpoint = E!TestEmailEndpoint =>
                  /\ heard.value[2].delivered[2] = host.test.delivered
                  /\ heard.value[2].category = E!Missing <=> host.test.delivered
             /\ Asks(x) /\ x.endpoint = E!StatusEndpoint =>
                  LET shown == heard.value[2]
                  IN  /\ shown.active[2] = host.mounted /\ (shown.queue[1] = "record" <=> host.mounted)
                      /\ shown.configError = E!Missing <=> host.effective.errors = {}
                      /\ host.mounted => /\ shown.queue[2].delivered[2] + shown.queue[2].failed[2] = host.queue.processed
                                         /\ shown.queue[2].depth[2] = host.queue.depth
<1> DEFINE heard == Outcome(x.endpoint, E!HandlePost(x.host, x.request))
<1>1. Asks(x) => heard.ok /\ heard.value = Read(x.endpoint, Says(x))
  BY AskedIsAnswered
<1>2. heard.ok /\ x.request.body[2].method = <<"text", x.endpoint>> => Asks(x)
  BY HeardWasAsked
<1>3. x.endpoint = E!StatusEndpoint => Read(x.endpoint, Says(x)) = E!ReadStatusValue(E!Status(x.host))
  BY DEF Read, Says
<1>4. x.endpoint = E!TestEmailEndpoint => Read(x.endpoint, Says(x)) = E!ReadTestEmailValue(E!TestEmail(x.host))
  BY DEF Read, Says, E!StatusEndpoint, E!TestEmailEndpoint
<1> HIDE DEF heard
<1>5. Asks(x) /\ x.endpoint = E!TestEmailEndpoint =>
        /\ heard.value[2].delivered[2] = x.host.test.delivered
        /\ heard.value[2].category = E!Missing <=> x.host.test.delivered
  BY <1>1, <1>4, TestIsTold
<1>6. Asks(x) /\ x.endpoint = E!StatusEndpoint =>
        LET shown == heard.value[2]
            host == x.host
        IN  /\ shown.active[2] = host.mounted /\ (shown.queue[1] = "record" <=> host.mounted)
            /\ shown.configError = E!Missing <=> host.effective.errors = {}
            /\ host.mounted => /\ shown.queue[2].delivered[2] + shown.queue[2].failed[2] = host.queue.processed
                               /\ shown.queue[2].depth[2] = host.queue.depth
  BY <1>1, <1>3, StatusIsTold
<1> QED BY <1>1, <1>2, <1>5, <1>6 DEF heard

\* For every state of the Host, every request and every answer the card shows what the
\* Host said: a success only of an endpoint's own call, and nothing the answer did not hold.
THEOREM TheCardIsToldTheTruth == Spec => []TheCardSaysWhatTheHostSaid
<1>1. Drawn => TheCardSaysWhatTheHostSaid
  <2> SUFFICES ASSUME Drawn PROVE TheCardSaysWhatTheHostSaid
    OBVIOUS
  <2>1. CASE kind = "exchange"
    BY <2>1, CallsAreHeard DEF Drawn, TheCardSaysWhatTheHostSaid, Outcome, Asks
  <2>2. CASE kind = "result"
    BY <2>2, AnswersAreRead DEF Drawn, TheCardSaysWhatTheHostSaid, Outcome
  <2>3. CASE kind = "description"
    BY <2>3, CredentialsAreRead DEF Drawn, TheCardSaysWhatTheHostSaid
  <2>4. CASE kind \notin {"exchange", "result", "description"}
    BY <2>4 DEF TheCardSaysWhatTheHostSaid
  <2> QED BY <2>1, <2>2, <2>3, <2>4
<1> QED BY <1>1, InputsAreDrawn, PTL
=============================================================================
