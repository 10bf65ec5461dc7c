------------------------ MODULE ListDecisions_proofs ------------------------
(***************************************************************************)
(* Proofs about the decisions that walk through a list: the recipients of a*)
(* configuration at its two boundaries, the controls of the card that edits*)
(* one, the questions of a call on their way into a mail, the text of a   *)
(* mail, and the operations on a buffer of records.  They rest on what a  *)
(* loop over a sequence makes of it.                                      *)
(***************************************************************************)
EXTENDS Decisions_proofs

-----------------------------------------------------------------------------
\* The two boundaries.

\* v holds each box of the first n entries of list once, in the spelling of one of them.
HoldsBoxes(v, list, n) ==
  /\ \A j \in 1 .. Len(v) : \E i \in 1 .. n : v[j] = list[i]
  /\ \A i \in 1 .. n : \E j \in 1 .. Len(v) : v[j][2] = list[i][2]
  /\ \A j, k \in 1 .. Len(v) : v[j][2] = v[k][2] => j = k

\* An entry whose box is held adds nothing.
LEMMA SeenIsHeld ==
  ASSUME NEW v, NEW list, NEW n \in Nat, HoldsBoxes(v, list, n),
         NEW h \in 1 .. Len(v), v[h][2] = list[n + 1][2]
  PROVE  HoldsBoxes(v, list, n + 1)
<1>1. \A i \in 1 .. n : i \in 1 .. n + 1
  OBVIOUS
<1>2. \A j \in 1 .. Len(v) : \E i \in 1 .. n + 1 : v[j] = list[i]
  BY <1>1 DEF HoldsBoxes
<1>3. ASSUME NEW i \in 1 .. n + 1
      PROVE  \E j \in 1 .. Len(v) : v[j][2] = list[i][2]
  <2>1. i \in 1 .. n \/ i = n + 1
    OBVIOUS
  <2> QED BY <2>1 DEF HoldsBoxes
<1> QED BY <1>2, <1>3 DEF HoldsBoxes

\* An entry whose box is not held is appended.
LEMMA NewIsAppended ==
  ASSUME NEW T, NEW v \in Seq(T), NEW list, NEW n \in Nat, HoldsBoxes(v, list, n),
         \A h \in 1 .. Len(v) : v[h][2] # list[n + 1][2]
  PROVE  HoldsBoxes(Append(v, list[n + 1]), list, n + 1)
<1> DEFINE e == list[n + 1]
           w == Append(v, e)
<1>1. /\ Len(w) = Len(v) + 1 /\ w[Len(v) + 1] = e /\ Len(v) \in Nat
      /\ \A j \in 1 .. Len(v) : w[j] = v[j]
  <2> HIDE DEF e
  <2> QED BY AppendIs
<1> HIDE DEF w
<1>2. \A j \in 1 .. Len(w) : j \in 1 .. Len(v) \/ j = Len(v) + 1
  BY <1>1
<1>3. ASSUME NEW j \in 1 .. Len(w)
      PROVE  \E i \in 1 .. n + 1 : w[j] = list[i]
  <2>1. CASE j \in 1 .. Len(v)
    <3>1. PICK i \in 1 .. n : v[j] = list[i]
      BY <2>1 DEF HoldsBoxes
    <3>2. w[j] = list[i] /\ i \in 1 .. n + 1
      BY <1>1, <2>1, <3>1
    <3> QED BY <3>2
  <2>2. CASE j = Len(v) + 1
    <3>1. w[j] = list[n + 1] /\ n + 1 \in 1 .. n + 1
      BY <1>1, <2>2
    <3> QED BY <3>1
  <2> QED BY <1>2, <2>1, <2>2
<1>4. ASSUME NEW i \in 1 .. n + 1
      PROVE  \E j \in 1 .. Len(w) : w[j][2] = list[i][2]
  <2>1. CASE i \in 1 .. n
    <3>1. PICK j \in 1 .. Len(v) : v[j][2] = list[i][2]
      BY <2>1 DEF HoldsBoxes
    <3>2. w[j][2] = list[i][2] /\ j \in 1 .. Len(w)
      BY <1>1, <3>1
    <3> QED BY <3>2
  <2>2. CASE i = n + 1
    <3>1. w[Len(v) + 1][2] = list[i][2] /\ Len(v) + 1 \in 1 .. Len(w)
      BY <1>1, <2>2
    <3> QED BY <3>1
  <2> QED BY <2>1, <2>2
<1>5. ASSUME NEW j \in 1 .. Len(w), NEW k \in 1 .. Len(w), w[j][2] = w[k][2]
      PROVE  j = k
  <2>1. \A h \in 1 .. Len(v) : w[h][2] # w[Len(v) + 1][2]
    BY <1>1
  <2>2. CASE j \in 1 .. Len(v) /\ k \in 1 .. Len(v)
    BY <1>1, <1>5, <2>2 DEF HoldsBoxes
  <2> QED BY <1>2, <1>5, <2>1, <2>2
<1> QED BY <1>3, <1>4, <1>5 DEF HoldsBoxes, w

\* Every box of the list is in what dedupe leaves, once, and nothing else is.
LEMMA DedupeIs ==
  ASSUME NEW T, NEW list \in Seq(T)
  PROVE  LET left == DedupeAddresses(list)
         IN  /\ left \in Seq(T) /\ ToSet(left) \subseteq ToSet(list)
             /\ \A e \in ToSet(list) : Cardinality({j \in 1 .. Len(left) : left[j][2] = e[2]}) = 1
<1> DEFINE m == Len(list)
           W == Seq(T)
           Seen(v, e) == \E i \in 1 .. Len(v) : v[i][2] = e[2]
           step == [p \in (1 .. m) \X W |-> IF Seen(p[2], list[p[1]]) THEN p[2] ELSE Append(p[2], list[p[1]])]
           upTo == CHOOSE upTo : upTo = [n \in 0 .. m |-> IF n = 0 THEN <<>>
                      ELSE IF Seen(upTo[n - 1], list[n]) THEN upTo[n - 1] ELSE Append(upTo[n - 1], list[n])]
<1>1. m \in Nat /\ \A i \in 1 .. m : list[i] \in T
  OBVIOUS
<1>2. step \in [(1 .. m) \X W -> W]
  <2> HIDE DEF Seen
  <2> QED BY <1>1, AppendIs
<1>3. <<>> \in W
  OBVIOUS
<1>4. \A n \in 1 .. m : \A v \in W : step[<<n, v>>] = IF Seen(v, list[n]) THEN v ELSE Append(v, list[n])
  <2> HIDE DEF W, Seen
  <2> QED OBVIOUS
<1>5. PICK f \in [0 .. m -> W] : Loops(f, <<>>, step, m)
  <2> HIDE DEF W, step, m
  <2> QED BY <1>1, <1>2, <1>3, LoopExists
<1>8. DedupeAddresses(list) = upTo[m]
  BY DEF DedupeAddresses, m
<1> HIDE DEF W, step, m, Seen
<1>6. f = [n \in 0 .. m |-> IF n = 0 THEN <<>>
             ELSE IF Seen(f[n - 1], list[n]) THEN f[n - 1] ELSE Append(f[n - 1], list[n])]
  <2>1. \A n \in 0 .. m : n = 0 \/ (n \in 1 .. m /\ n # 0 /\ n - 1 \in 0 .. m)
    BY <1>1
  <2>2. \A n \in 0 .. m : f[n] = IF n = 0 THEN <<>>
                                 ELSE IF Seen(f[n - 1], list[n]) THEN f[n - 1] ELSE Append(f[n - 1], list[n])
    BY <1>4, <1>5, <2>1 DEF Loops
  <2> QED BY <2>2
<1>7. upTo = [n \in 0 .. m |-> IF n = 0 THEN <<>>
                ELSE IF Seen(upTo[n - 1], list[n]) THEN upTo[n - 1] ELSE Append(upTo[n - 1], list[n])]
  BY <1>6
<1> HIDE DEF upTo
<1> DEFINE N == {n \in Nat : n <= m => upTo[n] \in W /\ HoldsBoxes(upTo[n], list, n)}
<1>9. 0 \in N
  <2>1. upTo[0] = <<>>
    BY <1>1, <1>7
  <2> QED BY <1>3, <2>1 DEF HoldsBoxes
<1>10. ASSUME NEW n \in Nat, n \in N
       PROVE  n + 1 \in N
  <2> SUFFICES ASSUME n + 1 <= m
               PROVE  upTo[n + 1] \in W /\ HoldsBoxes(upTo[n + 1], list, n + 1)
    OBVIOUS
  <2> DEFINE before == upTo[n]
             e == list[n + 1]
  <2>1. before \in W /\ HoldsBoxes(before, list, n) /\ e \in T
    BY <1>1, <1>10
  <2>2. upTo[n + 1] = IF Seen(before, e) THEN before ELSE Append(before, e)
    <3>1. n + 1 \in 0 .. m /\ n + 1 # 0 /\ (n + 1) - 1 = n
      BY <1>1
    <3> QED BY <1>7, <3>1
  <2> HIDE DEF before
  <2>3. CASE Seen(before, e)
    BY <2>1, <2>2, <2>3, SeenIsHeld DEF Seen
  <2>4. CASE ~Seen(before, e)
    <3>1. Append(before, e) \in W
      <4> HIDE DEF e
      <4> QED BY <2>1, AppendIs DEF W
    <3>2. HoldsBoxes(Append(before, e), list, n + 1)
      BY <2>1, <2>4, NewIsAppended DEF Seen, W
    <3> QED BY <2>2, <2>4, <3>1, <3>2
  <2> QED BY <2>3, <2>4
<1> HIDE DEF N
<1>11. m \in N
  BY <1>1, <1>9, <1>10, Induction
<1> DEFINE left == upTo[m]
<1>13. left \in Seq(T) /\ HoldsBoxes(left, list, Len(list))
  BY <1>1, <1>11 DEF N, W, m
<1> HIDE DEF left
<1>14. ASSUME NEW e \in ToSet(left)
       PROVE  e \in ToSet(list)
  <2>1. PICK j \in 1 .. Len(left) : e = left[j]
    BY <1>13 DEF ToSet
  <2>2. PICK i \in 1 .. Len(list) : left[j] = list[i]
    BY <1>13 DEF HoldsBoxes
  <2> QED BY <2>1, <2>2 DEF ToSet
<1>15. ASSUME NEW e \in ToSet(list)
       PROVE  Cardinality({j \in 1 .. Len(left) : left[j][2] = e[2]}) = 1
  <2>1. PICK i \in 1 .. Len(list) : e = list[i]
    BY DEF ToSet
  <2>2. PICK j \in 1 .. Len(left) : left[j][2] = list[i][2]
    BY <1>13 DEF HoldsBoxes
  <2>3. \A k \in 1 .. Len(left) : left[k][2] = e[2] <=> k = j
    BY <1>13, <2>1, <2>2 DEF HoldsBoxes
  <2>4. {k \in 1 .. Len(left) : left[k][2] = e[2]} = {j}
    BY <2>3
  <2> QED BY <2>4, FS_Singleton
<1> QED BY <1>8, <1>13, <1>14, <1>15 DEF left

\* Nothing is in two lists that join to the empty one.
LEMMA JoinIsEmpty ==
  ASSUME NEW T, NEW s \in Seq(T), NEW t \in Seq(T)
  PROVE  s \o t \in Seq(T) /\ (s \o t = <<>> => s = <<>> /\ t = <<>>)
OBVIOUS

\* A rule adds its field or nothing.
LEMMA IssueIsListed ==
  ASSUME NEW T, NEW field \in T, NEW wrong
  PROVE  (IF wrong THEN <<field>> ELSE <<>>) \in Seq(T)
<1>1. <<field>> \in Seq(T) /\ <<>> \in Seq(T)
  OBVIOUS
<1> QED BY <1>1

\* Only a document that names somebody, and nobody unreadable, has no issue.
LEMMA NoIssueSaysWhom ==
  ASSUME NEW d \in Documents, ReadEnabled(d), CheckProductConfig(d).issues = <<>>
  PROVE  /\ CheckProductConfig(d).recipients = NormalizeRecipients(d.to).accepted
         /\ NormalizeRecipients(d.to).refused = <<>>
         /\ NormalizeRecipients(d.to).accepted # <<>>
<1> DEFINE Fields == {"smtpHost", "smtpUser", "from", "to"}
           to == NormalizeRecipients(d.to)
           host == IF d.host \in {"blank", "spaced"} THEN <<"smtpHost">> ELSE <<>>
           user == IF d.user = "blank" THEN <<"smtpUser">> ELSE <<>>
           from == IF d.from # "address" THEN <<"from">> ELSE <<>>
           refusals == [i \in 1 .. Len(to.refused) |-> "to"]
           nobody == IF to.accepted = <<>> THEN <<"to">> ELSE <<>>
<1>1. CheckProductConfig(d) = [issues |-> host \o user \o from \o refusals \o nobody,
                               recipients |-> to.accepted]
  BY DEF CheckProductConfig
<1>2. d.to \in Seq(ToSet(d.to))
  BY DocumentsAssumption
<1>3. to.refused \in Seq(ToSet(d.to) \ (Addresses \cup {<<"blank">>}))
  BY <1>2, WithoutIs DEF NormalizeRecipients
<1>4. Len(to.refused) \in Nat
  <2> HIDE DEF to
  <2> QED BY <1>3
<1>5. /\ host \in Seq(Fields) /\ user \in Seq(Fields) /\ from \in Seq(Fields)
      /\ refusals \in Seq(Fields) /\ nobody \in Seq(Fields)
  <2>1. host \in Seq(Fields)
    BY IssueIsListed
  <2>2. user \in Seq(Fields)
    BY IssueIsListed
  <2>3. from \in Seq(Fields)
    BY IssueIsListed
  <2>4. nobody \in Seq(Fields)
    BY IssueIsListed
  <2>5. refusals \in Seq(Fields)
    <3> DEFINE n == Len(to.refused)
    <3> HIDE DEF n
    <3>1. n \in Nat
      BY <1>4 DEF n
    <3>2. [i \in 1 .. n |-> "to"] \in Seq(Fields)
      BY <3>1
    <3> QED BY <3>2 DEF n
  <2> HIDE DEF host, user, from, refusals, nobody
  <2> QED BY <2>1, <2>2, <2>3, <2>4, <2>5
<1> HIDE DEF host, user, from, refusals, nobody
<1>6. host \o user \in Seq(Fields)
  BY <1>5, JoinIsEmpty
<1>7. host \o user \o from \in Seq(Fields)
  BY <1>5, <1>6, JoinIsEmpty
<1>8. host \o user \o from \o refusals \in Seq(Fields)
  BY <1>5, <1>7, JoinIsEmpty
<1>9. host \o user \o from \o refusals = <<>> /\ nobody = <<>>
  BY <1>1, <1>5, <1>8, JoinIsEmpty
<1>10. refusals = <<>>
  BY <1>5, <1>7, <1>9, JoinIsEmpty
<1>11. to.accepted # <<>>
  BY <1>9 DEF nobody
<1>12. to.refused = <<>>
  <2> HIDE DEF to
  <2>1. Len(refusals) = Len(to.refused)
    BY <1>4 DEF refusals
  <2>2. Len(to.refused) = 0
    BY <1>10, <2>1
  <2> QED BY <1>3, <2>2
<1> QED BY <1>1, <1>11, <1>12

\* Whom the mails go to.
LEMMA RecipientsAreNamed ==
  ASSUME NEW d \in Documents
  PROVE  LET named == {e \in ToSet(d.to) : e \in Addresses}
             accepted == NormalizeRecipients(d.to).accepted
         IN  /\ \A a \in named :
                  Cardinality({i \in 1 .. Len(accepted) : accepted[i][2] = a[2]}) = 1
             /\ ToSet(accepted) \subseteq named
             /\ accepted # <<>> => named # {}
             /\ NormalizeRecipients(d.to).refused = <<>> =>
                  ToSet(d.to) \subseteq Addresses \cup {<<"blank">>}
<1> DEFINE named == {e \in ToSet(d.to) : e \in Addresses}
           reached == Among(d.to, Addresses)
           accepted == DedupeAddresses(reached)
           refused == Without(d.to, Addresses \cup {<<"blank">>})
<1>1. d.to \in Seq(ToSet(d.to))
  BY DocumentsAssumption
<1>2. reached \in Seq(ToSet(d.to) \cap Addresses) /\ ToSet(reached) = named
  BY <1>1, AmongIs
<1>3. /\ accepted \in Seq(ToSet(d.to) \cap Addresses) /\ ToSet(accepted) \subseteq ToSet(reached)
      /\ \A e \in ToSet(reached) : Cardinality({i \in 1 .. Len(accepted) : accepted[i][2] = e[2]}) = 1
  <2> HIDE DEF reached
  <2> QED BY <1>2, DedupeIs
<1>4. ToSet(refused) = ToSet(d.to) \ (Addresses \cup {<<"blank">>})
  BY <1>1, WithoutIs
<1>5. NormalizeRecipients(d.to).accepted = accepted /\ NormalizeRecipients(d.to).refused = refused
  BY DEF NormalizeRecipients
<1> HIDE DEF reached, accepted, refused
<1>6. accepted # <<>> => named # {}
  <2> SUFFICES ASSUME accepted # <<>>
               PROVE  named # {}
    OBVIOUS
  <2>1. 1 \in DOMAIN accepted
    BY <1>3
  <2>2. accepted[1] \in ToSet(accepted)
    BY <2>1 DEF ToSet
  <2> QED BY <1>2, <1>3, <2>2
<1>7. refused = <<>> => ToSet(d.to) \subseteq Addresses \cup {<<"blank">>}
  <2>1. ToSet(<<>>) = {}
    BY DEF ToSet
  <2> QED BY <1>4, <2>1
<1> HIDE DEF named
<1>8. /\ \A a \in named : Cardinality({i \in 1 .. Len(accepted) : accepted[i][2] = a[2]}) = 1
      /\ ToSet(accepted) \subseteq named
  BY <1>2, <1>3
<1> QED BY <1>5, <1>6, <1>7, <1>8 DEF named

\* The Host and the plugin agree about every document, and a runnable one names whom it reaches.
THEOREM TheBoundariesAgree == Spec => []BoundariesAgree
<1>1. Drawn => BoundariesAgree
  <2> SUFFICES ASSUME Drawn, kind = "document"
               PROVE  BoundariesAgree
    BY DEF BoundariesAgree
  <2> DEFINE check == CheckProductConfig(input)
             result == ResolveConfig(input)
             runs == result.enabled /\ result.errors = <<>>
             named == {e \in ToSet(input.to) : e \in Addresses}
  <2>1. input \in Documents
    BY DEF Drawn
  <2>2. CASE ~ReadEnabled(input)
    <3>1. ~result.enabled /\ result.errors = <<>>
      BY <2>2 DEF ResolveConfig
    <3> QED BY <2>2, <3>1 DEF BoundariesAgree
  <2>3. CASE ReadEnabled(input) /\ ~SchemaAccepts(input)
    <3>1. ~result.enabled /\ ~HostAccepts(input)
      BY <2>3 DEF ResolveConfig, HostAccepts
    <3> QED BY <3>1 DEF BoundariesAgree
  <2>4. CASE ReadEnabled(input) /\ SchemaAccepts(input)
    <3>1. result.enabled /\ result.errors = check.issues /\ result.recipients = check.recipients
      BY <2>4 DEF ResolveConfig
    <3>2. HostAccepts(input) <=> check.issues = <<>>
      BY <2>4 DEF HostAccepts
    <3> HIDE DEF check, result
    <3>3. HostAccepts(input) <=> runs
      BY <3>1, <3>2
    <3>4. ASSUME runs
          PROVE  /\ \A a \in named :
                      Cardinality({i \in 1 .. Len(result.recipients) : result.recipients[i][2] = a[2]}) = 1
                 /\ ToSet(result.recipients) \subseteq named /\ named # {}
                 /\ ToSet(input.to) \subseteq Addresses \cup {<<"blank">>}
      <4>1. /\ result.recipients = NormalizeRecipients(input.to).accepted
            /\ NormalizeRecipients(input.to).refused = <<>>
            /\ NormalizeRecipients(input.to).accepted # <<>>
        BY <2>1, <2>4, <3>1, <3>4, NoIssueSaysWhom DEF check
      <4> QED BY <2>1, <4>1, RecipientsAreNamed
    <3> QED BY <3>3, <3>4 DEF BoundariesAgree, result
  <2> QED BY <2>2, <2>3, <2>4
<1> QED BY <1>1, InputsAreDrawn, PTL

-----------------------------------------------------------------------------
\* The controls of the card.

\* CardView holds definitions of its own of what it extends.
LEMMA VWithoutIs ==
  ASSUME NEW T, NEW s \in Seq(T), NEW S
  PROVE  /\ V!Without(s, S) \in Seq(T \ S)
         /\ ToSet(V!Without(s, S)) = ToSet(s) \ S
         /\ ToSet(s) \cap S = {} => V!Without(s, S) = s
<1>1. V!Among(s, ToSet(s) \ S) = Among(s, ToSet(s) \ S)
  BY DEF V!Among, Among
<1>2. V!Without(s, S) = Without(s, S)
  BY <1>1 DEF V!Without, Without, V!ToSet, ToSet
<1>3. /\ Without(s, S) \in Seq(T \ S)
      /\ ToSet(Without(s, S)) = ToSet(s) \ S
      /\ ToSet(s) \cap S = {} => Without(s, S) = s
  BY WithoutIs
<1> QED BY <1>2, <1>3

\* What is left of a draft's entries is a list without blanks, which is left again of
\* the draft it is shown as.
LEMMA PiecesStay ==
  ASSUME NEW draft, IsDraft(draft), draft # <<"blank">>
  PROVE  LET pieces == V!Pieces(draft)
         IN  /\ pieces \in Seq(ToSet(pieces)) /\ <<"blank">> \notin ToSet(pieces)
             /\ V!Pieces(<<"entries", pieces>>) = pieces
<1> DEFINE pieces == V!Pieces(draft)
<1>1. pieces \in Seq(ToSet(pieces)) /\ <<"blank">> \notin ToSet(pieces)
  <2>1. CASE draft[1] = "entries"
    <3>1. draft[2] \in Seq(ToSet(draft[2]))
      BY <2>1 DEF IsDraft
    <3>2. pieces = V!Without(draft[2], {<<"blank">>})
      BY <2>1 DEF V!Pieces
    <3>3. pieces \in Seq(ToSet(draft[2]) \ {<<"blank">>}) /\ ToSet(pieces) = ToSet(draft[2]) \ {<<"blank">>}
      BY <3>1, <3>2, VWithoutIs
    <3> QED BY <3>3
  <2>2. CASE draft[1] # "entries"
    <3>1. PICK e : pieces = <<e>> /\ e # <<"blank">>
      <4>1. CASE draft[1] \in {"word", "text"}
        <5>1. pieces = <<<<"plain", draft[2]>>>>
          BY <4>1 DEF V!Pieces
        <5>2. <<"plain", draft[2]>>[1] # <<"blank">>[1]
          OBVIOUS
        <5> QED BY <5>1, <5>2
      <4>2. CASE draft[1] \notin {"word", "text"}
        BY <2>2, <4>2 DEF V!Pieces
      <4> QED BY <4>1, <4>2
    <3>2. ToSet(<<e>>) = {e} /\ <<e>> \in Seq({e})
      BY DEF ToSet
    <3> QED BY <3>1, <3>2
  <2> QED BY <2>1, <2>2
<1> HIDE DEF pieces
<1>2. V!Pieces(<<"entries", pieces>>) = V!Without(pieces, {<<"blank">>})
  BY DEF V!Pieces
<1>3. V!Without(pieces, {<<"blank">>}) = pieces
  BY <1>1, VWithoutIs
<1> QED BY <1>1, <1>2, <1>3 DEF pieces

\* Each field has one kind of control, that of its type in the schema, and the schema's bounds.
LEMMA FieldsHaveOneKind ==
  /\ V!BooleanFields = V!SchemaBooleans /\ DOMAIN V!CardBounds = DOMAIN V!SchemaBounds
  /\ V!TextFields = V!SchemaStrings /\ V!LineFields \cup V!AddressFields = V!SchemaArrays
  /\ V!AddressFields = {"to"} /\ "to" \notin V!LineFields
  /\ V!BooleanFields \cap DOMAIN V!CardBounds = {}
  /\ (V!LineFields \cup V!AddressFields) \cap (V!BooleanFields \cup DOMAIN V!CardBounds) = {}
  /\ \A f \in DOMAIN V!CardBounds : V!CardBounds[f] = V!SchemaBounds[f]
<1>1. /\ V!BooleanFields = V!SchemaBooleans
      /\ V!TextFields = V!SchemaStrings /\ V!LineFields \cup V!AddressFields = V!SchemaArrays
      /\ V!AddressFields = {"to"} /\ "to" \notin V!LineFields
  BY DEF V!BooleanFields, V!SchemaBooleans, V!TextFields, V!SchemaStrings, V!LineFields, V!AddressFields, V!SchemaArrays
<1>2. /\ DOMAIN V!CardBounds = {"minTurnDurationMs", "smtpPort", "maxBodyChars", "queueSize",
                               "retryAttempts", "retryBaseDelayMs", "maxDedupeEntries"}
      /\ DOMAIN V!SchemaBounds = DOMAIN V!CardBounds
  BY DEF V!CardBounds, V!SchemaBounds
<1>3. \A f \in DOMAIN V!CardBounds : V!CardBounds[f] = V!SchemaBounds[f]
  BY <1>2 DEF V!CardBounds, V!SchemaBounds
<1> QED BY <1>1, <1>2, <1>3 DEF V!BooleanFields, V!LineFields, V!AddressFields

\* Text that is shown and read again is the value that it was read as before.
LEMMA ReadsAgain ==
  ASSUME NEW f, NEW draft, IsDraft(draft), NEW value, V!ParseField(f, draft) = V!Writes(value)
  PROVE  V!ParseField(f, V!FormatField(f, value)) = V!Writes(value)
<1> DEFINE pieces == V!Pieces(draft)
           list == <<"entries", pieces>>
<1>0. /\ V!Clears.kind = "clear" /\ V!Refuses.kind = "invalid"
      /\ \A v, w : V!Writes(v).kind = "value" /\ (V!Writes(v) = V!Writes(w) => v = w)
  BY DEF V!Clears, V!Refuses, V!Writes
<1>1. draft # <<"blank">>
  BY <1>0 DEF V!ParseField
<1>2. CASE f \notin V!AddressFields \cup V!LineFields
  <2>1. V!ParseField(f, draft) = V!Writes(draft)
    BY <1>0, <1>1, <1>2 DEF V!ParseField, V!ParseNatural
  <2>2. value = draft /\ V!FormatField(f, value) = draft
    BY <1>0, <1>2, <2>1 DEF V!FormatField
  <2> QED BY <2>1, <2>2
<1>3. /\ pieces \in Seq(ToSet(pieces)) /\ V!Pieces(list) = pieces
      /\ list # <<"blank">>
  <2>1. list[1] # <<"blank">>[1]
    OBVIOUS
  <2> QED BY <1>1, <2>1, PiecesStay
<1>4. CASE f \in V!LineFields
  <2>1. V!ParseField(f, draft) = V!ParseLines(draft) /\ V!ParseField(f, list) = V!ParseLines(list)
    BY <1>1, <1>3, <1>4, FieldsHaveOneKind DEF V!ParseField
  <2>2. pieces # <<>>
    BY <1>0, <2>1 DEF V!ParseLines
  <2>3. CASE pieces = <<<<"plain", "[]">>>>
    <3>1. value = <<>>
      BY <1>0, <2>1, <2>2, <2>3 DEF V!ParseLines
    <3>2. V!FormatField(f, value) = <<"text", "[]">>
      BY <1>4, <3>1 DEF V!FormatField
    <3>3. <<"text", "[]">>[1] # <<"blank">>[1]
      OBVIOUS
    <3>4. V!ParseField(f, <<"text", "[]">>) = V!ParseLines(<<"text", "[]">>)
      BY <1>4, <3>3, FieldsHaveOneKind DEF V!ParseField
    <3>5. V!Pieces(<<"text", "[]">>) = pieces
      BY <2>3 DEF V!Pieces
    <3> QED BY <2>2, <2>3, <3>1, <3>2, <3>4, <3>5 DEF V!ParseLines
  <2>4. CASE pieces # <<<<"plain", "[]">>>>
    <3>1. value = pieces
      BY <1>0, <2>1, <2>2, <2>4 DEF V!ParseLines
    <3>2. V!FormatField(f, value) = list
      BY <1>4, <2>2, <3>1 DEF V!FormatField
    <3> QED BY <1>3, <2>1, <2>2, <2>4, <3>1, <3>2 DEF V!ParseLines
  <2> QED BY <2>3, <2>4
<1>5. CASE f \in V!AddressFields /\ f \notin V!LineFields
  <2>1. V!ParseField(f, draft) = V!ParseAddresses(draft) /\ V!ParseField(f, list) = V!ParseAddresses(list)
    BY <1>1, <1>3, <1>5, FieldsHaveOneKind DEF V!ParseField
  <2>2. pieces # <<>> /\ value = pieces /\ V!ParseAddresses(draft) = V!Writes(pieces)
    BY <1>0, <2>1 DEF V!ParseAddresses
  <2>3. V!FormatField(f, value) = list
    BY <1>5, <2>2 DEF V!FormatField
  <2>4. V!ParseAddresses(list) = V!ParseAddresses(draft)
    BY <1>3 DEF V!ParseAddresses
  <2> QED BY <2>1, <2>2, <2>3, <2>4
<1> QED BY <1>2, <1>4, <1>5

\* What a control refuses the schema would refuse, and what it writes the schema takes,
\* but for a credential reference.
LEMMA DraftsArePreviewed ==
  ASSUME NEW f \in SchemaFields, NEW draft, IsDraft(draft)
  PROVE  LET parsed == V!ParseField(f, draft)
         IN  /\ f \in V!AllFields
             /\ parsed.kind = "invalid" /\ f # "to" => ~V!SchemaTakes(f, draft)
             /\ parsed.kind = "value" /\ f # "smtpPasswordCredential" =>
                  V!SchemaTakes(f, parsed.value)
             /\ parsed.kind = "value" /\ f \notin V!SchemaArrays => parsed.value = draft
             /\ f = "to" /\ parsed.kind = "value" => \A e \in ToSet(parsed.value) : e[1] = "address"
<1> DEFINE parsed == V!ParseField(f, draft)
<1>0. /\ V!Clears.kind = "clear" /\ V!Refuses.kind = "invalid"
      /\ \A v : V!Writes(v).kind = "value" /\ V!Writes(v).value = v
  BY DEF V!Clears, V!Refuses, V!Writes
<1>1. f \in V!AllFields
  BY FieldsHaveOneKind DEF SchemaFields, V!AllFields
<1>2. CASE draft = <<"blank">>
  <2>1. parsed = V!Clears
    BY <1>2 DEF V!ParseField
  <2> QED BY <1>0, <1>1, <2>1
<1>3. CASE draft # <<"blank">> /\ f \in V!SchemaBooleans
  <2>1. parsed = IF draft \in {<<"word", "true">>, <<"word", "false">>} THEN V!Writes(draft) ELSE V!Refuses
    BY <1>3, FieldsHaveOneKind DEF V!ParseField
  <2>2. f \notin DOMAIN V!SchemaBounds /\ f # "to" /\ f # "smtpPasswordCredential"
    BY <1>3, FieldsHaveOneKind DEF V!SchemaBooleans
  <2>3. CASE draft \in {<<"word", "true">>, <<"word", "false">>}
    BY <1>0, <1>1, <2>1, <2>2, <2>3 DEF V!SchemaTakes
  <2>4. CASE draft \notin {<<"word", "true">>, <<"word", "false">>}
    BY <1>0, <1>1, <1>3, <2>1, <2>2, <2>4 DEF V!SchemaTakes
  <2> QED BY <2>3, <2>4
<1>4. CASE draft # <<"blank">> /\ f \in DOMAIN V!SchemaBounds
  <2>1. parsed = V!ParseNatural(V!SchemaBounds[f], draft) /\ f \notin V!SchemaBooleans
    BY <1>4, FieldsHaveOneKind DEF V!ParseField
  <2>2. f # "to" /\ f # "smtpPasswordCredential"
    BY <1>4 DEF V!SchemaBounds
  <2>3. CASE draft[1] = "number" /\ draft[2] \in V!SchemaBounds[f]
    <3>1. draft = <<"number", draft[2]>>
      BY <2>3 DEF IsDraft
    <3>2. V!SchemaTakes(f, draft) /\ parsed = V!Writes(draft)
      BY <1>4, <2>1, <2>2, <2>3, <3>1 DEF V!SchemaTakes, V!ParseNatural
    <3> QED BY <1>0, <1>1, <2>2, <3>2
  <2>4. CASE ~(draft[1] = "number" /\ draft[2] \in V!SchemaBounds[f])
    <3>1. \A n \in V!SchemaBounds[f] : draft # <<"number", n>>
      BY <2>4
    <3>2. ~V!SchemaTakes(f, draft) /\ parsed = V!Refuses
      BY <1>4, <2>1, <2>4, <3>1 DEF V!SchemaTakes, V!ParseNatural
    <3> QED BY <1>0, <1>1, <2>2, <3>2
  <2> QED BY <2>3, <2>4
<1>5. CASE draft # <<"blank">> /\ f \in V!SchemaStrings
  <2>0. DOMAIN V!SchemaBounds = {"minTurnDurationMs", "smtpPort", "maxBodyChars", "queueSize",
                                "retryAttempts", "retryBaseDelayMs", "maxDedupeEntries"}
    BY DEF V!SchemaBounds
  <2>1. f \notin V!SchemaBooleans /\ f \notin DOMAIN V!SchemaBounds /\ f \notin V!SchemaArrays /\ f # "to"
    BY <1>5, <2>0 DEF V!SchemaStrings, V!SchemaBooleans, V!SchemaArrays
  <2>2. parsed = V!Writes(draft)
    BY <1>5, <2>1, FieldsHaveOneKind DEF V!ParseField
  <2> QED BY <1>0, <1>1, <2>1, <2>2 DEF V!SchemaTakes
<1>6. CASE draft # <<"blank">> /\ f \in V!SchemaArrays
  <2>1. /\ f \notin V!SchemaBooleans /\ f \notin DOMAIN V!SchemaBounds
        /\ f # "smtpPasswordCredential"
    BY <1>6, FieldsHaveOneKind DEF V!SchemaArrays
  <2>2. V!SchemaTakes(f, parsed.value)
    BY <2>1 DEF V!SchemaTakes
  <2>3. CASE f = "to"
    <3>1. parsed = V!ParseAddresses(draft)
      BY <1>6, <2>1, <2>3, FieldsHaveOneKind DEF V!ParseField
    <3>2. ASSUME parsed.kind = "value"
          PROVE  \A e \in ToSet(parsed.value) : e[1] = "address"
      <4>1. parsed.value = V!Pieces(draft) /\ \A e \in V!ToSet(V!Pieces(draft)) : e[1] = "address"
        BY <1>0, <3>1, <3>2 DEF V!ParseAddresses
      <4> QED BY <4>1 DEF V!ToSet, ToSet
    <3> QED BY <1>1, <1>6, <2>2, <2>3, <3>2
  <2>4. CASE f # "to"
    <3>1. f \in V!LineFields
      BY <1>6, <2>4, FieldsHaveOneKind
    <3>2. parsed = V!ParseLines(draft)
      BY <1>6, <2>1, <3>1, FieldsHaveOneKind DEF V!ParseField
    <3>3. parsed.kind # "invalid"
      BY <1>0, <3>2 DEF V!ParseLines
    <3> QED BY <1>1, <1>6, <2>2, <2>4, <3>3
  <2> QED BY <2>3, <2>4
<1> HIDE DEF parsed
<1>7. draft = <<"blank">> \/ f \in V!SchemaBooleans \/ f \in DOMAIN V!SchemaBounds
        \/ f \in V!SchemaStrings \/ f \in V!SchemaArrays
  BY DEF SchemaFields
<1> QED BY <1>2, <1>3, <1>4, <1>5, <1>6, <1>7 DEF parsed

\* A stored value that is shown and saved again is written, or re-inherits where nothing is shown.
LEMMA StoredIsReadBack ==
  ASSUME NEW f \in SchemaFields, NEW value, FitsField(f, value)
  PROVE  LET again == V!ParseField(f, V!FormatField(f, value))
         IN  \/ again = V!Writes(value)
             \/ again = V!Clears /\ value \in {<<"blank">>, <<>>} /\ f \notin V!LineFields
             \/ value = <<<<"plain", "[]">>>> /\ again = V!Writes(<<>>)
<1> DEFINE list == <<"entries", value>>
<1>1. CASE f \notin V!SchemaArrays
  <2>1. V!FormatField(f, value) = value /\ f \notin V!LineFields /\ f \notin V!AddressFields
    BY <1>1, FieldsHaveOneKind DEF V!FormatField
  <2>2. CASE value = <<"blank">>
    BY <2>1, <2>2 DEF V!ParseField
  <2>3. CASE value # <<"blank">>
    <3>1. CASE f \in DOMAIN V!SchemaBounds
      <4>1. PICK n \in V!SchemaBounds[f] : value = <<"number", n>>
        BY <3>1 DEF FitsField, V!SchemaTakes
      <4>2. V!ParseField(f, value) = V!ParseNatural(V!SchemaBounds[f], value)
        BY <2>3, <3>1, FieldsHaveOneKind DEF V!ParseField
      <4>3. V!ParseNatural(V!SchemaBounds[f], value) = V!Writes(value)
        BY <4>1 DEF V!ParseNatural
      <4> QED BY <2>1, <4>2, <4>3
    <3>2. CASE f \in V!SchemaBooleans
      <4>1. V!ParseField(f, value) = V!Writes(value)
        BY <2>3, <3>2, FieldsHaveOneKind DEF V!ParseField, FitsField, V!SchemaTakes
      <4> QED BY <2>1, <4>1
    <3>3. CASE f \notin DOMAIN V!SchemaBounds /\ f \notin V!SchemaBooleans
      <4>1. V!ParseField(f, value) = V!Writes(value)
        BY <2>1, <2>3, <3>3, FieldsHaveOneKind DEF V!ParseField
      <4> QED BY <2>1, <4>1
    <3> QED BY <3>1, <3>2, <3>3
  <2> QED BY <2>2, <2>3
<1>2. CASE f \in V!SchemaArrays
  <2>1. value \in Seq(ToSet(value)) /\ <<"blank">> \notin ToSet(value)
    BY <1>2 DEF FitsField
  <2>2. V!Pieces(list) = value
    <3>1. V!Pieces(list) = V!Without(value, {<<"blank">>})
      BY DEF V!Pieces
    <3> QED BY <2>1, <3>1, VWithoutIs
  <2>3. list[1] # <<"blank">>[1] /\ <<"text", "[]">>[1] # <<"blank">>[1]
    OBVIOUS
  <2>4. f \notin V!BooleanFields /\ f \notin DOMAIN V!CardBounds
    BY <1>2, FieldsHaveOneKind
  <2>5. CASE f \in V!LineFields
    <3>1. \A d : d # <<"blank">> => V!ParseField(f, d) = V!ParseLines(d)
      BY <2>4, <2>5 DEF V!ParseField
    <3>2. CASE value = <<>>
      <4>1. V!FormatField(f, value) = <<"text", "[]">>
        BY <2>5, <3>2 DEF V!FormatField
      <4>2. V!Pieces(<<"text", "[]">>) = <<<<"plain", "[]">>>>
        BY DEF V!Pieces
      <4>3. <<<<"plain", "[]">>>> # <<>>
        OBVIOUS
      <4>4. V!ParseLines(<<"text", "[]">>) = V!Writes(<<>>)
        BY <4>2, <4>3 DEF V!ParseLines
      <4> QED BY <2>3, <3>1, <3>2, <4>1, <4>4
    <3>3. CASE value # <<>>
      <4>1. V!FormatField(f, value) = list
        BY <2>5, <3>3 DEF V!FormatField
      <4>2. V!ParseLines(list) = IF value = <<<<"plain", "[]">>>> THEN V!Writes(<<>>) ELSE V!Writes(value)
        BY <2>2, <3>3 DEF V!ParseLines
      <4> QED BY <2>3, <3>1, <4>1, <4>2
    <3> QED BY <3>2, <3>3
  <2>6. CASE f \notin V!LineFields
    <3>1. f = "to" /\ f \in V!AddressFields
      BY <1>2, <2>6, FieldsHaveOneKind
    <3>2. \A d : d # <<"blank">> => V!ParseField(f, d) = V!ParseAddresses(d)
      BY <2>4, <2>6, <3>1 DEF V!ParseField
    <3>3. CASE value = <<>>
      <4>1. V!FormatField(f, value) = <<"blank">>
        BY <2>6, <3>1, <3>3 DEF V!FormatField
      <4> QED BY <2>6, <3>3, <4>1 DEF V!ParseField
    <3>4. CASE value # <<>>
      <4>1. V!FormatField(f, value) = list
        BY <3>1, <3>4 DEF V!FormatField
      <4>2. \A e \in V!ToSet(value) : e[1] = "address"
        BY <3>1 DEF FitsField, ToSet, V!ToSet
      <4>3. V!ParseAddresses(list) = V!Writes(value)
        BY <2>2, <3>4, <4>2 DEF V!ParseAddresses
      <4> QED BY <2>3, <3>2, <4>1, <4>3
    <3> QED BY <3>3, <3>4
  <2> QED BY <2>5, <2>6
<1> QED BY <1>1, <1>2

\* Of every draft of the shapes of Fields and every stored value that the schema holds
\* and a save of the card may have left: a control refuses nothing that the schema takes
\* and, but for the pattern of a credential reference, writes nothing that it does not;
\* a stored value is shown as text that is read as the same value (client/fields.ts).
THEOREM TheHostIsPreviewed == Spec => []CardPreviewsTheHost
<1>1. Drawn => CardPreviewsTheHost
  <2> SUFFICES ASSUME Drawn
               PROVE  CardPreviewsTheHost
    OBVIOUS
  <2>1. CASE kind = "draft"
    <3>1. input.field \in SchemaFields /\ IsDraft(input.draft)
      BY <2>1, FieldsAssumption DEF Drawn
    <3> QED BY <2>1, <3>1, DraftsArePreviewed DEF CardPreviewsTheHost
  <2>2. CASE kind = "stored"
    <3>1. input.field \in SchemaFields /\ FitsField(input.field, input.value)
      BY <2>2, FieldsAssumption DEF Drawn
    <3> QED BY <2>2, <3>1, StoredIsReadBack DEF CardPreviewsTheHost
  <2>3. CASE kind \notin {"draft", "stored"}
    BY <2>3 DEF CardPreviewsTheHost
  <2> QED BY <2>1, <2>2, <2>3
<1> QED BY <1>1, InputsAreDrawn, PTL

-----------------------------------------------------------------------------
\* The card.

\* What each field is after a save that nothing keeps from landing.
LEMMA SavedIs ==
  ASSUME NEW card, IsCard(card), NEW base, ~V!HasInvalid(card)
  PROVE  LET after == V!Saved(card, base)
             wrote(f) == /\ f \in DOMAIN card.staged /\ card.staged[f] # V!Null
                         /\ V!ParseField(f, card.staged[f]) # V!Clears
         IN  /\ after.staged = <<>>
             /\ \A f \in DOMAIN card.section :
                  /\ f \in after.user <=> wrote(f) \/ (f \in card.user /\ f \notin DOMAIN card.staged)
                  /\ wrote(f) => V!ParseField(f, card.staged[f]) = V!Writes(after.section[f])
                  /\ f \in DOMAIN card.staged /\ ~wrote(f) => after.section[f] = base[f]
<1> DEFINE after == V!Saved(card, base)
           ops == V!PlanOps(card)
           written == {f \in DOMAIN ops : ops[f] # V!Clears}
           wrote(f) == /\ f \in DOMAIN card.staged /\ card.staged[f] # V!Null
                       /\ V!ParseField(f, card.staged[f]) # V!Clears
<1>0. \A f, d : V!ParseField(f, d) \in {V!Clears, V!Refuses} \/ \E v : V!ParseField(f, d) = V!Writes(v)
  BY DEF V!ParseField, V!ParseNatural, V!ParseLines, V!ParseAddresses
<1>1. \A f \in DOMAIN card.staged : ~V!Invalid(f, card.staged[f])
  <2>1. \A f \in DOMAIN card.staged : V!FieldState(card, f).invalid = V!Invalid(f, card.staged[f])
    BY DEF V!FieldState
  <2> QED BY <2>1 DEF V!HasInvalid
<1>2. /\ DOMAIN ops = DOMAIN card.staged
      /\ \A f \in DOMAIN ops :
           ops[f] = IF card.staged[f] = V!Null THEN V!Clears ELSE V!ParseField(f, card.staged[f])
  BY <1>1 DEF V!PlanOps
<1>3. /\ after.staged = <<>>
      /\ after.user = (card.user \ DOMAIN ops) \cup written
      /\ after.section = [f \in DOMAIN card.section |->
                            IF f \in written THEN ops[f].value
                            ELSE IF f \in DOMAIN ops THEN base[f] ELSE card.section[f]]
  <2> HIDE DEF ops, written
  <2>1. DOMAIN card = {"available", "writable", "expanded", "saving", "testing", "secretDraft",
                       "section", "user", "staged", "secret", "status"}
    BY DEF IsCard
  <2> QED BY <2>1 DEF V!Saved, ops, written
<1> HIDE DEF after, ops
<1>4. ASSUME NEW f \in DOMAIN card.section
      PROVE  /\ f \in written <=> wrote(f)
             /\ wrote(f) => V!ParseField(f, card.staged[f]) = V!Writes(ops[f].value)
  <2>1. f \in written <=> wrote(f)
    BY <1>2
  <2>2. ASSUME wrote(f)
        PROVE  V!ParseField(f, card.staged[f]) = V!Writes(ops[f].value)
    <3>1. ops[f] = V!ParseField(f, card.staged[f]) /\ ops[f] # V!Clears
      BY <1>2, <2>2
    <3>2. ops[f] # V!Refuses
      BY <1>1, <2>2, <3>1 DEF V!Invalid
    <3>3. PICK v : ops[f] = V!Writes(v)
      BY <1>0, <3>1, <3>2
    <3>4. V!Writes(v).value = v
      BY DEF V!Writes
    <3> QED BY <3>1, <3>3, <3>4
  <2> QED BY <2>1, <2>2
<1>5. ASSUME NEW f \in DOMAIN card.section
      PROVE  /\ f \in after.user <=> wrote(f) \/ (f \in card.user /\ f \notin DOMAIN card.staged)
             /\ wrote(f) => V!ParseField(f, card.staged[f]) = V!Writes(after.section[f])
             /\ f \in DOMAIN card.staged /\ ~wrote(f) => after.section[f] = base[f]
  <2>1. f \in written <=> wrote(f)
    BY <1>4
  <2>2. wrote(f) => V!ParseField(f, card.staged[f]) = V!Writes(ops[f].value)
    BY <1>4
  <2>3. wrote(f) => f \in DOMAIN card.staged
    OBVIOUS
  <2> HIDE DEF written, wrote
  <2> QED BY <1>2, <1>3, <2>1, <2>2, <2>3
<1> QED BY <1>3, <1>5 DEF after

\* What a field says before a save is what it says after it.
LEMMA FieldsComeTrue ==
  ASSUME NEW card, IsCard(card), NEW base, ~V!HasInvalid(card), NEW f \in DOMAIN card.section
  PROVE  LET after == V!Saved(card, base)
             emptied == {g \in DOMAIN card.staged : card.staged[g] # V!Null
                                                      /\ V!ParseField(g, card.staged[g]) = V!Clears}
             now == V!FieldState(card, f)
             then == V!FieldState(after, f)
         IN  /\ f \notin emptied => now.overridden = then.overridden
             /\ ~then.overridden /\ f \in DOMAIN card.staged => after.section[f] = base[f]
             /\ then.overridden /\ f \in DOMAIN card.staged =>
                  V!ParseField(f, then.text) = V!ParseField(f, now.text)
<1> DEFINE after == V!Saved(card, base)
           wrote == /\ f \in DOMAIN card.staged /\ card.staged[f] # V!Null
                    /\ V!ParseField(f, card.staged[f]) # V!Clears
           now == V!FieldState(card, f)
           then == V!FieldState(after, f)
<1>1. /\ after.staged = <<>>
      /\ f \in after.user <=> wrote \/ (f \in card.user /\ f \notin DOMAIN card.staged)
      /\ wrote => V!ParseField(f, card.staged[f]) = V!Writes(after.section[f])
      /\ f \in DOMAIN card.staged /\ ~wrote => after.section[f] = base[f]
  BY SavedIs
<1> HIDE DEF after
<1>2. then.text = V!FormatField(f, after.section[f]) /\ then.overridden = (f \in after.user)
  BY <1>1 DEF V!FieldState
<1>3. f \notin DOMAIN card.staged => now.overridden = (f \in card.user)
  BY DEF V!FieldState
<1>4. f \in DOMAIN card.staged =>
        /\ now.text = IF card.staged[f] = V!Null THEN <<"blank">> ELSE card.staged[f]
        /\ now.overridden = (card.staged[f] # V!Null)
  BY DEF V!FieldState
<1> HIDE DEF now, then
<1>5. ASSUME wrote
      PROVE  V!ParseField(f, then.text) = V!ParseField(f, now.text)
  <2>1. IsDraft(card.staged[f])
    BY <1>5 DEF IsCard
  <2>2. V!ParseField(f, then.text) = V!Writes(after.section[f])
    BY <1>1, <1>2, <1>5, <2>1, ReadsAgain
  <2> QED BY <1>1, <1>4, <1>5, <2>2
<1>6. f \in after.user <=> then.overridden
  BY <1>2
<1>7. ASSUME ~(f \in DOMAIN card.staged /\ card.staged[f] # V!Null /\ V!ParseField(f, card.staged[f]) = V!Clears)
      PROVE  now.overridden = then.overridden
  <2>1. CASE f \in DOMAIN card.staged
    <3>1. card.staged[f] # V!Null <=> f \in after.user
      BY <1>1, <1>7, <2>1
    <3> QED BY <1>2, <1>4, <2>1, <3>1
  <2>2. CASE f \notin DOMAIN card.staged
    <3>1. f \in card.user <=> f \in after.user
      BY <1>1, <2>2
    <3> QED BY <1>2, <1>3, <2>2, <3>1
  <2> QED BY <2>1, <2>2
<1>8. ~then.overridden /\ f \in DOMAIN card.staged => after.section[f] = base[f]
  BY <1>1, <1>6
<1>9. then.overridden /\ f \in DOMAIN card.staged => V!ParseField(f, then.text) = V!ParseField(f, now.text)
  BY <1>1, <1>5, <1>6
<1> QED BY <1>7, <1>8, <1>9 DEF after, now, then

\* What is in effect does not move with the drafts.
LEMMA DraftsAreNotInEffect ==
  ASSUME NEW card, IsCard(card)
  PROVE  LET clean == [card EXCEPT !.staged = <<>>, !.secretDraft = FALSE]
         IN  V!Summary(card) = V!Summary(clean) /\ V!StatusStrip(card) = V!StatusStrip(clean)
<1> DEFINE clean == [card EXCEPT !.staged = <<>>, !.secretDraft = FALSE]
<1>1. DOMAIN card = {"available", "writable", "expanded", "saving", "testing", "secretDraft",
                     "section", "user", "staged", "secret", "status"}
  BY DEF IsCard
<1>2. /\ clean.status = card.status /\ clean.section = card.section /\ clean.secret = card.secret
      /\ clean.saving = card.saving /\ clean.testing = card.testing
  BY <1>1
<1> HIDE DEF clean
<1> QED BY <1>2 DEF V!Summary, V!StatusStrip, V!InEffect, clean

\* When each button is offered, and that nothing is where no field can be edited.
LEMMA OffersAre ==
  ASSUME NEW card
  PROVE  LET offered == card.available /\ card.expanded /\ ~V!Locked(card)
         IN  /\ \A button \in {<<"send-test">>, <<"reset-all">>, <<"discard">>, <<"save">>} :
                  button \in V!Offers(card) <=>
                    /\ offered
                    /\ button = <<"send-test">> => ~card.testing
                    /\ button \in {<<"discard">>, <<"save">>} => V!Dirty(card)
                    /\ button = <<"save">> => ~V!HasInvalid(card)
             /\ ~offered => V!Offers(card) = {}
<1> DEFINE offered == card.available /\ card.expanded /\ ~V!Locked(card)
           Buttons == {<<"send-test">>, <<"reset-all">>, <<"discard">>, <<"save">>}
<1>1. ~offered => V!Offers(card) = {}
  BY DEF V!Offers, V!FieldOffers, V!SecretOffers, V!ButtonOffers
<1>2. ASSUME NEW button \in Buttons
      PROVE  button \notin V!FieldOffers(card) /\ button \notin V!SecretOffers(card)
  <2>1. button[1] \in {"send-test", "reset-all", "discard", "save"}
    OBVIOUS
  <2>2. \A o \in V!FieldOffers(card) : o[1] \in {"edit", "reset"}
    BY DEF V!FieldOffers
  <2>3. \A o \in V!SecretOffers(card) : o[1] \in {"secret", "clear-credential"}
    BY DEF V!SecretOffers
  <2> QED BY <2>1, <2>2, <2>3
<1>3. ASSUME NEW button \in Buttons, offered
      PROVE  button \in V!Offers(card) <=>
               /\ button = <<"send-test">> => ~card.testing
               /\ button \in {<<"discard">>, <<"save">>} => V!Dirty(card)
               /\ button = <<"save">> => ~V!HasInvalid(card)
  <2>1. button \in V!Offers(card) <=> button \in V!ButtonOffers(card)
    BY <1>2, <1>3 DEF V!Offers
  <2> QED BY <1>3, <2>1 DEF V!ButtonOffers
<1> QED BY <1>1, <1>3

\* All of it, of one card.
LEMMA PreviewIsTrue ==
  ASSUME NEW card, IsCard(card), NEW base
  PROVE  LET after == V!Saved(card, base)
             fields == DOMAIN card.section
             emptied == {f \in DOMAIN card.staged : card.staged[f] # V!Null /\ V!ParseField(f, card.staged[f]) = V!Clears}
             clean == [card EXCEPT !.staged = <<>>, !.secretDraft = FALSE]
         IN  /\ V!HasInvalid(card) \/
                  \A f \in fields :
                    LET now == V!FieldState(card, f)
                        then == V!FieldState(after, f)
                    IN  /\ f \notin emptied => now.overridden = then.overridden
                        /\ ~then.overridden /\ f \in DOMAIN card.staged => after.section[f] = base[f]
                        /\ then.overridden /\ f \in DOMAIN card.staged =>
                             V!ParseField(f, then.text) = V!ParseField(f, now.text)
             /\ V!Summary(card) = V!Summary(clean) /\ V!StatusStrip(card) = V!StatusStrip(clean)
             /\ card.available /\ card.expanded /\ card.writable =>
                  (<<"save">> \in V!Offers(card) <=> V!SaveProceeds(card))
             /\ V!Offers(card) # {} =>
                  V!Offers(card) \ {<<"send-test">>} = V!Offers([card EXCEPT !.testing = ~@]) \ {<<"send-test">>}
             /\ card.staged # <<>> /\ V!Offers(card) # {} => <<"discard">> \in V!Offers(card)
<1> DEFINE offered == card.available /\ card.expanded /\ ~V!Locked(card)
           tested == [card EXCEPT !.testing = ~@]
<1>1. DOMAIN card = {"available", "writable", "expanded", "saving", "testing", "secretDraft",
                     "section", "user", "staged", "secret", "status"}
  BY DEF IsCard
<1>2. card.available /\ card.expanded /\ card.writable =>
        (<<"save">> \in V!Offers(card) <=> V!SaveProceeds(card))
  <2>1. <<"save">>[1] # <<"send-test">>[1]
    OBVIOUS
  <2>2. <<"save">> \in V!Offers(card) <=> offered /\ V!Dirty(card) /\ ~V!HasInvalid(card)
    BY <2>1, OffersAre
  <2> QED BY <2>2 DEF V!SaveProceeds, V!Locked
<1>3. card.staged # <<>> /\ V!Offers(card) # {} => <<"discard">> \in V!Offers(card)
  <2>1. <<"discard">>[1] # <<"send-test">>[1] /\ <<"discard">>[1] # <<"save">>[1]
    OBVIOUS
  <2>2. <<"discard">> \in V!Offers(card) <=> offered /\ V!Dirty(card)
    BY <2>1, OffersAre
  <2>3. V!Offers(card) # {} => offered
    BY OffersAre
  <2>4. card.staged # <<>> => DOMAIN card.staged # {}
    <3>1. card.staged = [f \in DOMAIN card.staged |-> card.staged[f]]
      BY DEF IsCard
    <3> QED BY <3>1
  <2> QED BY <2>2, <2>3, <2>4 DEF V!Dirty
<1>4. ASSUME V!Offers(card) # {}
      PROVE  V!Offers(card) \ {<<"send-test">>} = V!Offers(tested) \ {<<"send-test">>}
  <2>1. offered
    BY <1>4, OffersAre
  <2>2. /\ tested.available = card.available /\ tested.expanded = card.expanded
        /\ tested.saving = card.saving /\ tested.writable = card.writable
        /\ tested.section = card.section /\ tested.staged = card.staged /\ tested.user = card.user
        /\ tested.secret = card.secret /\ tested.secretDraft = card.secretDraft
    BY <1>1
  <2> HIDE DEF tested
  <2>3. /\ V!Locked(tested) = V!Locked(card) /\ V!Dirty(tested) = V!Dirty(card)
        /\ \A f : V!FieldState(tested, f) = V!FieldState(card, f)
    BY <2>2 DEF V!Locked, V!Dirty, V!FieldState
  <2>4. V!HasInvalid(tested) = V!HasInvalid(card)
    BY <2>2, <2>3 DEF V!HasInvalid
  <2>5. V!FieldOffers(tested) = V!FieldOffers(card)
    <3>1. {g \in DOMAIN tested.section : V!FieldState(tested, g).overridden}
            = {g \in DOMAIN card.section : V!FieldState(card, g).overridden}
      BY <2>2, <2>3
    <3> QED BY <2>2, <2>3, <3>1 DEF V!FieldOffers
  <2>6. V!SecretOffers(tested) = V!SecretOffers(card)
    BY <2>2, <2>3 DEF V!SecretOffers
  <2>7. V!ButtonOffers(tested) \ {<<"send-test">>} = V!ButtonOffers(card) \ {<<"send-test">>}
    BY <2>3, <2>4 DEF V!ButtonOffers
  <2>8. /\ V!Offers(tested) = V!FieldOffers(tested) \cup V!SecretOffers(tested) \cup V!ButtonOffers(tested)
        /\ V!Offers(card) = V!FieldOffers(card) \cup V!SecretOffers(card) \cup V!ButtonOffers(card)
    BY <2>1, <2>2 DEF V!Offers
  <2> QED BY <2>5, <2>6, <2>7, <2>8
<1>5. V!HasInvalid(card) \/
        \A f \in DOMAIN card.section :
          LET now == V!FieldState(card, f)
              then == V!FieldState(V!Saved(card, base), f)
          IN  /\ f \notin {g \in DOMAIN card.staged : card.staged[g] # V!Null /\ V!ParseField(g, card.staged[g]) = V!Clears}
                   => now.overridden = then.overridden
              /\ ~then.overridden /\ f \in DOMAIN card.staged => V!Saved(card, base).section[f] = base[f]
              /\ then.overridden /\ f \in DOMAIN card.staged =>
                   V!ParseField(f, then.text) = V!ParseField(f, now.text)
  BY FieldsComeTrue
<1>6. V!Summary(card) = V!Summary([card EXCEPT !.staged = <<>>, !.secretDraft = FALSE])
      /\ V!StatusStrip(card) = V!StatusStrip([card EXCEPT !.staged = <<>>, !.secretDraft = FALSE])
  BY DraftsAreNotInEffect
<1> QED BY <1>2, <1>3, <1>4, <1>5, <1>6

\* What a card shows of a save before it is pressed is what the save leaves, for any
\* card, drafts and layer below.
THEOREM ThePreviewIsTrue == Spec => []ThePreviewComesTrue
<1>1. Drawn => ThePreviewComesTrue
  <2> SUFFICES ASSUME Drawn, kind = "card"
               PROVE  ThePreviewComesTrue
    BY DEF ThePreviewComesTrue
  <2>1. IsCard(input.card)
    BY CardsAssumption DEF Drawn
  <2> QED BY <2>1, PreviewIsTrue DEF ThePreviewComesTrue
<1> QED BY <1>1, InputsAreDrawn, PTL

-----------------------------------------------------------------------------
\* The questions of a call.

\* A raw question costs something natural, and no more than the limits of its texts.
LEMMA CostIs ==
  ASSUME NEW q, Usable(q), \A v \in {q[2].id, q[2].question} : v[1] = "text" => v[2] \in Nat
  PROVE  Cost(ParseQuestion(q)) \in 0 .. MaxTotalChars
<1> DEFINE id == q[2].id
           text == q[2].question
           a == Chars(CleanText(id, MaxIdChars))
           b == Chars(CleanText(text, MaxQuestionChars))
<1>1. /\ MaxIdChars \in Nat /\ MaxQuestionChars \in Nat /\ MaxTotalChars \in Nat
      /\ MaxIdChars + MaxQuestionChars <= MaxTotalChars
  BY ParserAssumption
<1>2. ASSUME NEW v, NEW limit \in Nat, v[1] = "text" => v[2] \in Nat, CleanText(v, limit) # Missing
      PROVE  Chars(CleanText(v, limit)) \in 0 .. limit
  <2>1. v[1] = "text" /\ v[2] \in Nat
    BY <1>2 DEF CleanText
  <2>2. CleanText(v, limit)[2] = IF v[2] < limit THEN v[2] ELSE limit
    BY <1>2 DEF CleanText
  <2> QED BY <1>2, <2>1, <2>2 DEF Chars
<1>3. a \in 0 .. MaxIdChars /\ b \in 0 .. MaxQuestionChars
  BY <1>1, <1>2 DEF Usable
<1>4. Cost(ParseQuestion(q)) = a + b
  BY DEF Cost, ParseQuestion
<1> HIDE DEF a, b
<1> QED BY <1>1, <1>3, <1>4

\* The positions of the questions of raw that can be used, up to the n-th.
UsableUpTo(raw, n) == {i \in 1 .. n : Usable(raw[i])}

\* Every usable question of raw costs something natural, and alone no more than all may.
Priced(raw) == \A i \in 1 .. Len(raw) : Usable(raw[i]) => Cost(ParseQuestion(raw[i])) \in 0 .. MaxTotalChars

\* What has been spent grows by each usable question, and only by those.
LEMMA SpentIs ==
  ASSUME NEW T, NEW raw \in Seq(T), Priced(raw)
  PROVE  LET spent == SpentUpTo(raw)
         IN  /\ spent[0] = 0 /\ \A i \in 0 .. Len(raw) : spent[i] \in Nat
             /\ \A i \in 1 .. Len(raw) :
                  spent[i] = spent[i - 1] + IF Usable(raw[i]) THEN Cost(ParseQuestion(raw[i])) ELSE 0
<1> DEFINE m == Len(raw)
           c == [i \in 1 .. m |-> IF Usable(raw[i]) THEN Cost(ParseQuestion(raw[i])) ELSE 0]
           step == [p \in (1 .. m) \X Nat |-> p[2] + c[p[1]]]
           spent == SpentUpTo(raw)
<1>1. m \in Nat /\ c \in [1 .. m -> Nat]
  <2>1. MaxTotalChars \in Nat
    BY ParserAssumption
  <2> QED BY <2>1 DEF Priced
<1>2. \A i \in 1 .. m : c[i] = IF Usable(raw[i]) THEN Cost(ParseQuestion(raw[i])) ELSE 0
  OBVIOUS
<1> HIDE DEF c, m
<1>3. step \in [(1 .. m) \X Nat -> Nat] /\ \A n \in 1 .. m : \A v \in Nat : step[<<n, v>>] = v + c[n]
  BY <1>1
<1> HIDE DEF step
<1>4. PICK f \in [0 .. m -> Nat] : Loops(f, 0, step, m)
  BY <1>1, <1>3, LoopExists
<1>5. \A n \in 0 .. m : n = 0 \/ (n \in 1 .. m /\ n # 0 /\ n - 1 \in 0 .. m)
  BY <1>1
<1>6. f = [n \in 0 .. m |-> IF n = 0 THEN 0
             ELSE f[n - 1] + IF Usable(raw[n]) THEN Cost(ParseQuestion(raw[n])) ELSE 0]
  <2>1. \A n \in 0 .. m : f[n] = IF n = 0 THEN 0
             ELSE f[n - 1] + IF Usable(raw[n]) THEN Cost(ParseQuestion(raw[n])) ELSE 0
    BY <1>2, <1>3, <1>4, <1>5 DEF Loops
  <2> QED BY <2>1
<1>7. spent = [n \in 0 .. m |-> IF n = 0 THEN 0
             ELSE spent[n - 1] + IF Usable(raw[n]) THEN Cost(ParseQuestion(raw[n])) ELSE 0]
  BY <1>6 DEF SpentUpTo, m
<1> HIDE DEF spent
<1>8. spent[0] = 0 /\ \A n \in 1 .. m : spent[n] = spent[n - 1] + c[n]
  BY <1>1, <1>2, <1>5, <1>7
<1> DEFINE N == {n \in Nat : n <= m => spent[n] \in Nat}
<1>9. 0 \in N
  BY <1>8
<1>10. ASSUME NEW n \in Nat, n \in N
       PROVE  n + 1 \in N
  <2> SUFFICES ASSUME n + 1 <= m
               PROVE  spent[n + 1] \in Nat
    OBVIOUS
  <2>1. spent[n] \in Nat /\ n + 1 \in 1 .. m /\ (n + 1) - 1 = n
    BY <1>1, <1>10
  <2> QED BY <1>1, <1>8, <2>1
<1> HIDE DEF N
<1>11. \A n \in 0 .. m : spent[n] \in Nat
  <2>1. Nat \subseteq N
    BY <1>9, <1>10, Induction
  <2> QED BY <1>1, <2>1 DEF N
<1> QED BY <1>2, <1>8, <1>11 DEF m, spent

\* One turn of the loop spends what a usable question costs, and carries it if all fits.
LEMMA TakeIs ==
  ASSUME NEW raw, NEW i, Usable(raw[i]), NEW c, NEW t, NEW b, NEW acc,
         acc = [carried |-> c, total |-> t, truncatedBySize |-> b]
  PROVE  LET total == t + Cost(ParseQuestion(raw[i]))
         IN  Take(raw, i, acc) =
               IF total > MaxTotalChars THEN [carried |-> c, total |-> total, truncatedBySize |-> TRUE]
               ELSE [carried |-> Append(c, i), total |-> total, truncatedBySize |-> b]
<1> DEFINE total == t + Cost(ParseQuestion(raw[i]))
<1>1. acc.carried = c /\ acc.total = t
  OBVIOUS
<1>2. Take(raw, i, acc) = IF total > MaxTotalChars
                          THEN [acc EXCEPT !.total = total, !.truncatedBySize = TRUE]
                          ELSE [acc EXCEPT !.total = total, !.carried = Append(@, i)]
  BY <1>1 DEF Take
<1>3. ASSUME NEW n
      PROVE  /\ [acc EXCEPT !.total = n, !.truncatedBySize = TRUE] = [carried |-> c, total |-> n, truncatedBySize |-> TRUE]
             /\ [acc EXCEPT !.total = n, !.carried = Append(@, i)]
                  = [carried |-> Append(c, i), total |-> n, truncatedBySize |-> b]
  <2> DEFINE spent == [carried |-> c, total |-> n, truncatedBySize |-> b]
  <2>1. [acc EXCEPT !.total = n] = spent
    OBVIOUS
  <2>2. [spent EXCEPT !.truncatedBySize = TRUE] = [carried |-> c, total |-> n, truncatedBySize |-> TRUE]
    <3>1. \A w : [spent EXCEPT !.truncatedBySize = w] = [carried |-> c, total |-> n, truncatedBySize |-> w]
      OBVIOUS
    <3> HIDE DEF spent
    <3> QED BY <3>1
  <2>3. [spent EXCEPT !.carried = Append(acc.carried, i)]
          = [carried |-> Append(acc.carried, i), total |-> n, truncatedBySize |-> b]
    OBVIOUS
  <2> HIDE DEF spent
  <2> QED BY <1>1, <2>1, <2>2, <2>3
<1> HIDE DEF total
<1> QED BY <1>2, <1>3 DEF total

\* What the loop has made of the first n questions: it carries those that fit, in
\* order, and knows whether one did not.
TookRightly(acc, raw, n) ==
  LET usable == UsableUpTo(raw, n)
      spent == SpentUpTo(raw)
      carried == acc.carried
  IN  /\ acc = [carried |-> carried, total |-> spent[n], truncatedBySize |-> acc.truncatedBySize]
      /\ carried \in Seq(Nat)
      /\ ToSet(carried) = {i \in usable : spent[i] <= MaxTotalChars}
      /\ \A i, j \in 1 .. Len(carried) : i < j => carried[i] < carried[j]
      /\ acc.truncatedBySize <=> \E i \in usable : spent[i] > MaxTotalChars

\* One more turn of the loop keeps it right.
LEMMA TakesRightly ==
  ASSUME NEW T, NEW raw \in Seq(T), Priced(raw), NEW n \in Nat, n + 1 <= Len(raw),
         NEW acc, TookRightly(acc, raw, n)
  PROVE  TookRightly(Take(raw, n + 1, acc), raw, n + 1)
<1> DEFINE k == n + 1
           spent == SpentUpTo(raw)
           usable == UsableUpTo(raw, n)
           carried == acc.carried
           after == Take(raw, k, acc)
<1>1. /\ k \in 1 .. Len(raw) /\ k - 1 = n /\ n \in 0 .. Len(raw)
      /\ \A i \in usable : i \in 0 .. Len(raw) /\ i < k
      /\ MaxTotalChars \in Nat
  BY ParserAssumption DEF UsableUpTo
<1>2. /\ \A i \in 0 .. Len(raw) : spent[i] \in Nat
      /\ spent[k] = spent[n] + IF Usable(raw[k]) THEN Cost(ParseQuestion(raw[k])) ELSE 0
  BY <1>1, SpentIs
<1>3. UsableUpTo(raw, k) = usable \cup (IF Usable(raw[k]) THEN {k} ELSE {})
  BY <1>1 DEF UsableUpTo
<1>4. /\ acc = [carried |-> carried, total |-> spent[n], truncatedBySize |-> acc.truncatedBySize]
      /\ carried \in Seq(Nat)
      /\ ToSet(carried) = {i \in usable : spent[i] <= MaxTotalChars}
      /\ \A i, j \in 1 .. Len(carried) : i < j => carried[i] < carried[j]
      /\ acc.truncatedBySize <=> \E i \in usable : spent[i] > MaxTotalChars
  BY DEF TookRightly
<1> HIDE DEF k, spent, usable
<1>5. CASE ~Usable(raw[k])
  <2>1. after = acc /\ spent[k] = spent[n]
    <3>1. spent[n] \in Nat
      BY <1>1, <1>2
    <3> QED BY <1>2, <1>5, <3>1 DEF Take
  <2>2. UsableUpTo(raw, k) = usable
    BY <1>3, <1>5
  <2> QED BY <1>4, <2>1, <2>2 DEF TookRightly, spent, k
<1>6. CASE Usable(raw[k]) /\ spent[k] > MaxTotalChars
  <2>1. after = [carried |-> carried, total |-> spent[k], truncatedBySize |-> TRUE]
    BY <1>2, <1>4, <1>6, TakeIs
  <2>2. UsableUpTo(raw, k) = usable \cup {k}
    BY <1>3, <1>6
  <2>3. {i \in usable \cup {k} : spent[i] <= MaxTotalChars} = {i \in usable : spent[i] <= MaxTotalChars}
    BY <1>1, <1>2, <1>6
  <2> HIDE DEF after
  <2>4. after.carried = carried /\ after.truncatedBySize = TRUE
    BY <2>1
  <2>5. TookRightly(after, raw, k)
    BY <1>4, <1>6, <2>1, <2>2, <2>3, <2>4 DEF TookRightly, spent
  <2> QED BY <2>5 DEF after, k
<1>7. CASE Usable(raw[k]) /\ ~(spent[k] > MaxTotalChars)
  <2> DEFINE longer == Append(carried, k)
  <2>1. after = [carried |-> longer, total |-> spent[k], truncatedBySize |-> acc.truncatedBySize]
    BY <1>2, <1>4, <1>7, TakeIs
  <2>2. UsableUpTo(raw, k) = usable \cup {k}
    BY <1>3, <1>7
  <2>3. k \in Nat /\ Len(carried) \in Nat
    BY <1>1, <1>4
  <2>4. /\ longer \in Seq(Nat) /\ Len(longer) = Len(carried) + 1 /\ longer[Len(carried) + 1] = k
        /\ \A i \in 1 .. Len(carried) : longer[i] = carried[i]
    BY <1>4, <2>3, AppendIs
  <2> HIDE DEF longer, after
  <2>5. ToSet(longer) = ToSet(carried) \cup {k}
    <3>1. \A t : ToSet(t) = {t[i] : i \in DOMAIN t}
      BY DEF ToSet
    <3>2. DOMAIN longer = 1 .. Len(carried) + 1 /\ DOMAIN carried = 1 .. Len(carried)
      BY <1>4, <2>4
    <3>3. \A i \in 1 .. Len(carried) + 1 : i \in 1 .. Len(carried) \/ i = Len(carried) + 1
      BY <2>3
    <3>4. \A i \in 1 .. Len(carried) : i \in 1 .. Len(carried) + 1
      BY <2>3
    <3>5. Len(carried) + 1 \in 1 .. Len(carried) + 1
      BY <2>3
    <3> QED BY <2>4, <3>1, <3>2, <3>3, <3>4, <3>5
  <2>6. {i \in usable \cup {k} : spent[i] <= MaxTotalChars} = {i \in usable : spent[i] <= MaxTotalChars} \cup {k}
    BY <1>1, <1>2, <1>7
  <2>7. \A i, j \in 1 .. Len(longer) : i < j => longer[i] < longer[j]
    <3>1. \A i \in 1 .. Len(carried) : carried[i] < k
      <4>1. \A i \in 1 .. Len(carried) : carried[i] \in ToSet(carried)
        BY <1>4 DEF ToSet
      <4> QED BY <1>1, <1>4, <4>1
    <3> SUFFICES ASSUME NEW i \in 1 .. Len(longer), NEW j \in 1 .. Len(longer), i < j
                 PROVE  longer[i] < longer[j]
      OBVIOUS
    <3>2. i \in 1 .. Len(carried)
      BY <2>3, <2>4
    <3>3. j = Len(carried) + 1 \/ j \in 1 .. Len(carried)
      BY <2>3, <2>4
    <3> QED BY <1>4, <2>4, <3>1, <3>2, <3>3
  <2>8. \A i \in {k} : ~(spent[i] > MaxTotalChars)
    BY <1>7
  <2>9. after.carried = longer /\ after.truncatedBySize = acc.truncatedBySize
    BY <2>1
  <2>10. TookRightly(after, raw, k)
    BY <1>4, <2>1, <2>2, <2>4, <2>5, <2>6, <2>7, <2>8, <2>9 DEF TookRightly, spent
  <2> QED BY <2>10 DEF after, k
<1> QED BY <1>5, <1>6, <1>7

\* The loop takes rightly of all the questions it looks at.
LEMMA TakeAllIsRight ==
  ASSUME NEW T, NEW raw \in Seq(T), Priced(raw)
  PROVE  TookRightly(TakeAll(raw), raw, IF Len(raw) < MaxQuestions THEN Len(raw) ELSE MaxQuestions)
<1> DEFINE m == IF Len(raw) < MaxQuestions THEN Len(raw) ELSE MaxQuestions
           W == {acc \in [carried : Seq(Nat), total : Nat, truncatedBySize : BOOLEAN] : TRUE}
           step == [p \in (1 .. m) \X W |-> Take(raw, p[1], p[2])]
           acc == CHOOSE acc : acc = [i \in 0 .. m |-> IF i = 0 THEN NothingCarried ELSE Take(raw, i, acc[i - 1])]
<1>1. m \in Nat /\ m <= Len(raw)
  BY ParserAssumption
<1>2. ASSUME NEW i \in 1 .. m, NEW a \in W
      PROVE  Take(raw, i, a) \in W
  <2>1. Usable(raw[i]) => Cost(ParseQuestion(raw[i])) \in Nat
    <3>1. i \in 1 .. Len(raw) /\ MaxTotalChars \in Nat
      BY <1>1, ParserAssumption
    <3> QED BY <3>1 DEF Priced
  <2> DEFINE total == a.total + Cost(ParseQuestion(raw[i]))
  <2>2. a = [carried |-> a.carried, total |-> a.total, truncatedBySize |-> a.truncatedBySize]
        /\ a.carried \in Seq(Nat) /\ a.total \in Nat /\ a.truncatedBySize \in BOOLEAN
    OBVIOUS
  <2>3. i \in Nat
    BY <1>1
  <2>4. Usable(raw[i]) => total \in Nat
    BY <2>1, <2>2
  <2>5. Take(raw, i, a) = IF ~Usable(raw[i]) THEN a
                          ELSE IF total > MaxTotalChars
                          THEN [carried |-> a.carried, total |-> total, truncatedBySize |-> TRUE]
                          ELSE [carried |-> Append(a.carried, i), total |-> total, truncatedBySize |-> a.truncatedBySize]
    <3>1. ~Usable(raw[i]) => Take(raw, i, a) = a
      BY DEF Take
    <3>2. ASSUME Usable(raw[i])
          PROVE  Take(raw, i, a) = IF total > MaxTotalChars
                   THEN [carried |-> a.carried, total |-> total, truncatedBySize |-> TRUE]
                   ELSE [carried |-> Append(a.carried, i), total |-> total, truncatedBySize |-> a.truncatedBySize]
      <4> DEFINE c == a.carried
                 t == a.total
                 b == a.truncatedBySize
      <4>1. a = [carried |-> c, total |-> t, truncatedBySize |-> b]
        BY <2>2
      <4> HIDE DEF c, t, b
      <4> QED BY <3>2, <4>1, TakeIs DEF c, t, b
    <3> QED BY <3>1, <3>2
  <2>6. Append(a.carried, i) \in Seq(Nat)
    BY <2>2, <2>3, AppendIs
  <2> HIDE DEF total
  <2> QED BY <2>2, <2>4, <2>5, <2>6
<1>3. NothingCarried \in W
  BY DEF NothingCarried
<1> HIDE DEF m, W
<1>4. step \in [(1 .. m) \X W -> W] /\ \A n \in 1 .. m : \A v \in W : step[<<n, v>>] = Take(raw, n, v)
  BY <1>2
<1> HIDE DEF step
<1>5. PICK f \in [0 .. m -> W] : Loops(f, NothingCarried, step, m)
  BY <1>1, <1>3, <1>4, LoopExists
<1>6. \A n \in 0 .. m : n = 0 \/ (n \in 1 .. m /\ n # 0 /\ n - 1 \in 0 .. m)
  BY <1>1
<1>7. f = [n \in 0 .. m |-> IF n = 0 THEN NothingCarried ELSE Take(raw, n, f[n - 1])]
  <2>1. \A n \in 0 .. m : f[n] = IF n = 0 THEN NothingCarried ELSE Take(raw, n, f[n - 1])
    BY <1>4, <1>5, <1>6 DEF Loops
  <2> QED BY <2>1
<1>8. acc = [n \in 0 .. m |-> IF n = 0 THEN NothingCarried ELSE Take(raw, n, acc[n - 1])]
  BY <1>7
<1>9. TakeAll(raw) = acc[m]
  BY DEF TakeAll, m
<1> HIDE DEF acc
<1> DEFINE N == {n \in Nat : n <= m => TookRightly(acc[n], raw, n)}
<1>10. 0 \in N
  <2>1. acc[0] = NothingCarried
    BY <1>1, <1>8
  <2>2. UsableUpTo(raw, 0) = {}
    BY DEF UsableUpTo
  <2>3. SpentUpTo(raw)[0] = 0
    BY SpentIs
  <2>4. ToSet(<<>>) = {}
    BY DEF ToSet
  <2>5. TookRightly(NothingCarried, raw, 0)
    BY <2>2, <2>3, <2>4 DEF TookRightly, NothingCarried
  <2> QED BY <2>1, <2>5
<1>11. ASSUME NEW n \in Nat, n \in N
       PROVE  n + 1 \in N
  <2> SUFFICES ASSUME n + 1 <= m
               PROVE  TookRightly(acc[n + 1], raw, n + 1)
    OBVIOUS
  <2>1. TookRightly(acc[n], raw, n) /\ n + 1 <= Len(raw)
    BY <1>1, <1>11
  <2>2. acc[n + 1] = Take(raw, n + 1, acc[n])
    BY <1>1, <1>8
  <2> QED BY <2>1, <2>2, TakesRightly
<1> HIDE DEF N
<1>12. m \in N
  BY <1>1, <1>10, <1>11, Induction
<1> QED BY <1>1, <1>9, <1>12 DEF N, m

\* There are as many values as positions when no two positions hold the same.
LEMMA DistinctAreCounted ==
  ASSUME NEW m \in Nat, NEW o, \A i, j \in 1 .. m : o[i] = o[j] => i = j,
         NEW U, U = {o[i] : i \in 1 .. m}
  PROVE  Cardinality(U) = m
<1> DEFINE f == [i \in 1 .. m |-> o[i]]
<1>1. IsFiniteSet(1 .. m) /\ Cardinality(1 .. m) = m
  BY FS_Interval
<1>2. f \in Surjection(1 .. m, U) /\ f \in Injection(1 .. m, U)
  BY DEF Surjection, Injection, IsInjective
<1> HIDE DEF f
<1>3. Cardinality(U) = Cardinality(1 .. m)
  BY <1>1, <1>2, FS_Surjection
<1> QED BY <1>1, <1>3

\* What a concatenation holds.
LEMMA ConcatIs ==
  ASSUME NEW T, NEW a \in Seq(T), NEW b \in Seq(T)
  PROVE  /\ a \o b \in Seq(T) /\ Len(a \o b) = Len(a) + Len(b) /\ Len(a) \in Nat /\ Len(b) \in Nat
         /\ \A j \in 1 .. Len(a) : (a \o b)[j] = a[j]
         /\ \A j \in 1 .. Len(b) : (a \o b)[Len(a) + j] = b[j]
         /\ a = <<>> => a \o b = b
OBVIOUS

\* A place between two offsets is some way behind the first, and conversely.
LEMMA Shifts ==
  ASSUME NEW a \in Nat, NEW b \in Nat, NEW c \in Nat, NEW d \in Nat, c = a + b, c <= d
  PROVE  /\ \A n \in a + 1 .. c : \E j \in 1 .. b : n = a + j
         /\ \A j \in 1 .. b : a + j \in a + 1 .. c /\ a + j \in 1 .. d
<1>1. \A n \in a + 1 .. c : n - a \in 1 .. b /\ n = a + (n - a)
  OBVIOUS
<1> QED BY <1>1

\* Offsets that grow by sizes are in order, and every place before the last one is
\* within one of the sizes.
LEMMA OffsetsCover ==
  ASSUME NEW m \in Nat, NEW at \in [0 .. m -> Nat], NEW size \in [1 .. m -> Nat], at[0] = 0,
         \A i \in 1 .. m : at[i] = at[i - 1] + size[i]
  PROVE  /\ \A i, k \in 0 .. m : i <= k => at[i] <= at[k]
         /\ \A n \in 1 .. at[m] : \E i \in 1 .. m : n \in at[i - 1] + 1 .. at[i]
<1> DEFINE N == {n \in Nat : n <= m => \A i \in 0 .. n : at[i] <= at[n]}
<1>1. 0 \in N
  OBVIOUS
<1>2. ASSUME NEW n \in Nat, n \in N
      PROVE  n + 1 \in N
  <2> SUFFICES ASSUME n + 1 <= m, NEW i \in 0 .. n + 1
               PROVE  at[i] <= at[n + 1]
    OBVIOUS
  <2>1. at[n] \in Nat /\ size[n + 1] \in Nat /\ at[n + 1] = at[n] + size[n + 1]
    OBVIOUS
  <2>2. i \in 0 .. n => at[i] <= at[n] /\ at[i] \in Nat
    BY <1>2
  <2> QED BY <2>1, <2>2
<1> HIDE DEF N
<1>3. \A n \in 0 .. m : \A i \in 0 .. n : at[i] <= at[n]
  <2>1. Nat \subseteq N
    BY <1>1, <1>2, Induction
  <2> QED BY <2>1 DEF N
<1>4. ASSUME NEW n \in 1 .. at[m]
      PROVE  \E i \in 1 .. m : n \in at[i - 1] + 1 .. at[i]
  <2> DEFINE P == {i \in 0 .. m : n <= at[i]}
  <2>1. m \in P /\ P \subseteq Nat
    OBVIOUS
  <2>2. PICK i \in P : \A k \in P : i <= k
    <3> HIDE DEF P
    <3> QED BY <2>1, LeastElement
  <2>3. i \in 0 .. m /\ n <= at[i] /\ i # 0
    OBVIOUS
  <2>4. i \in 1 .. m /\ i - 1 \in 0 .. m
    BY <2>3
  <2>5. ~(n <= at[i - 1])
    BY <2>2, <2>4
  <2> QED BY <2>3, <2>4, <2>5
<1> QED BY <1>3, <1>4

\* all is the parts one after the other, the i-th from the offset at[i - 1] on.
Laid(all, parts, at) ==
  /\ at \in [0 .. Len(parts) -> Nat] /\ at[0] = 0 /\ at[Len(parts)] = Len(all)
  /\ \A i \in 1 .. Len(parts) :
       /\ at[i] = at[i - 1] + Len(parts[i])
       /\ \A j \in 1 .. Len(parts[i]) : all[at[i - 1] + j] = parts[i][j]

\* g appends part after part.
Flattens(g, parts, m) == g[0] = <<>> /\ \A i \in 1 .. m : g[i] = g[i - 1] \o parts[i]

\* That lays the parts.
LEMMA PartsAreLaid ==
  ASSUME NEW T, NEW m \in Nat, NEW parts \in [1 .. m -> Seq(T)], NEW g, Flattens(g, parts, m)
  PROVE  /\ \A n \in 0 .. m : g[n] \in Seq(T)
         /\ \A i \in 1 .. m : /\ Len(g[i]) = Len(g[i - 1]) + Len(parts[i])
                              /\ \A j \in 1 .. Len(parts[i]) : g[m][Len(g[i - 1]) + j] = parts[i][j]
<1>0. g[0] = <<>> /\ \A i \in 1 .. m : g[i] = g[i - 1] \o parts[i]
  BY DEF Flattens
<1> DEFINE N == {n \in Nat : n <= m => g[n] \in Seq(T)}
<1>1. <<>> \in Seq(T)
  OBVIOUS
<1>2. 0 \in N
  BY <1>1, <1>0
<1>3. ASSUME NEW n \in Nat, n \in N
      PROVE  n + 1 \in N
  <2> SUFFICES ASSUME n + 1 <= m
               PROVE  g[n + 1] \in Seq(T)
    OBVIOUS
  <2>1. n + 1 \in 1 .. m /\ (n + 1) - 1 = n /\ n <= m
    OBVIOUS
  <2>2. g[n] \in Seq(T) /\ parts[n + 1] \in Seq(T)
    BY <1>3, <2>1
  <2>3. g[n + 1] = g[n] \o parts[n + 1]
    BY <1>0, <2>1
  <2> DEFINE a == g[n]
             b == parts[n + 1]
  <2>4. a \in Seq(T) /\ b \in Seq(T) /\ g[n + 1] = a \o b
    BY <2>2, <2>3
  <2> HIDE DEF a, b
  <2> QED BY <2>4, ConcatIs
<1> HIDE DEF N
<1>4. \A n \in 0 .. m : g[n] \in Seq(T)
  <2>1. Nat \subseteq N
    BY <1>2, <1>3, Induction
  <2> QED BY <2>1 DEF N
<1> DEFINE at == [n \in 0 .. m |-> Len(g[n])]
           size == [n \in 1 .. m |-> Len(parts[n])]
<1>5. ASSUME NEW i \in 1 .. m
      PROVE  /\ Len(g[i]) = Len(g[i - 1]) + Len(parts[i]) /\ Len(parts[i]) \in Nat /\ Len(g[i - 1]) \in Nat
             /\ \A j \in 1 .. Len(g[i - 1]) : g[i][j] = g[i - 1][j]
             /\ \A j \in 1 .. Len(parts[i]) : g[i][Len(g[i - 1]) + j] = parts[i][j]
  <2>1. i - 1 \in 0 .. m
    OBVIOUS
  <2> DEFINE a == g[i - 1]
             b == parts[i]
  <2>2. a \in Seq(T) /\ b \in Seq(T) /\ g[i] = a \o b
    BY <1>4, <1>0, <2>1
  <2> HIDE DEF a, b
  <2>3. /\ Len(g[i]) = Len(a) + Len(b) /\ Len(b) \in Nat /\ Len(a) \in Nat
        /\ \A j \in 1 .. Len(a) : g[i][j] = a[j]
        /\ \A j \in 1 .. Len(b) : g[i][Len(a) + j] = b[j]
    BY <2>2, ConcatIs
  <2> QED BY <2>3 DEF a, b
<1>6. /\ at \in [0 .. m -> Nat] /\ size \in [1 .. m -> Nat] /\ at[0] = 0
      /\ \A i \in 1 .. m : at[i] = at[i - 1] + size[i]
  <2>1. \A n \in 0 .. m : Len(g[n]) \in Nat
    BY <1>4
  <2>2. \A n \in 1 .. m : Len(parts[n]) \in Nat
    BY <1>5
  <2>3. Len(g[0]) = 0
    BY <1>0
  <2>4. \A i \in 1 .. m : i \in 0 .. m /\ i - 1 \in 0 .. m
    OBVIOUS
  <2>5. \A i \in 1 .. m : at[i] = Len(g[i]) /\ at[i - 1] = Len(g[i - 1]) /\ size[i] = Len(parts[i])
    BY <2>4
  <2>6. at[0] = 0
    BY <2>3
  <2>7. at \in [0 .. m -> Nat] /\ size \in [1 .. m -> Nat]
    BY <2>1, <2>2
  <2> HIDE DEF at, size
  <2> QED BY <1>5, <2>5, <2>6, <2>7
<1>7. \A i \in 0 .. m : at[i] = Len(g[i])
  OBVIOUS
<1>8. \A i \in 1 .. m : size[i] = Len(parts[i])
  OBVIOUS
<1> HIDE DEF at, size
<1>9. \A i, k \in 0 .. m : i <= k => at[i] <= at[k]
  BY <1>6, OffsetsCover
<1> DEFINE Kept(n) == \A i \in 1 .. n : \A j \in 1 .. size[i] : g[n][at[i - 1] + j] = parts[i][j]
           K == {n \in Nat : n <= m => Kept(n)}
<1> HIDE DEF Kept
<1>10. 0 \in K
  BY DEF Kept
<1>11. ASSUME NEW n \in Nat, n \in K
       PROVE  n + 1 \in K
  <2> SUFFICES ASSUME n + 1 <= m
               PROVE  Kept(n + 1)
    OBVIOUS
  <2> SUFFICES ASSUME NEW i \in 1 .. n + 1, NEW j \in 1 .. size[i]
               PROVE  g[n + 1][at[i - 1] + j] = parts[i][j]
    BY DEF Kept
  <2>1. Kept(n) /\ n + 1 \in 1 .. m /\ (n + 1) - 1 = n /\ n \in 0 .. m /\ i \in 1 .. m /\ i - 1 \in 0 .. m /\ i \in 0 .. m
    BY <1>11
  <2>2. /\ \A p \in 1 .. at[n] : g[n + 1][p] = g[n][p]
        /\ \A p \in 1 .. size[n + 1] : g[n + 1][at[n] + p] = parts[n + 1][p]
    <3> DEFINE k == n + 1
    <3>1. k \in 1 .. m /\ k - 1 = n
      BY <2>1
    <3>2. at[n] = Len(g[n]) /\ size[k] = Len(parts[k])
      BY <1>7, <1>8, <2>1
    <3> HIDE DEF k
    <3>3. /\ \A p \in 1 .. Len(g[n]) : g[k][p] = g[n][p]
          /\ \A p \in 1 .. Len(parts[k]) : g[k][Len(g[n]) + p] = parts[k][p]
      BY <1>5, <3>1
    <3> QED BY <3>2, <3>3 DEF k
  <2>3. CASE i = n + 1
    BY <2>1, <2>2, <2>3
  <2>4. CASE i # n + 1
    <3>1. i \in 1 .. n /\ i <= n
      BY <2>4
    <3>2. at[i] <= at[n] /\ at[i] = at[i - 1] + size[i] /\ at[i - 1] \in Nat /\ size[i] \in Nat /\ at[n] \in Nat
      BY <1>6, <1>9, <2>1, <3>1
    <3>3. at[i - 1] + j \in 1 .. at[n]
      <4> DEFINE a == at[i - 1]
                 b == size[i]
                 c == at[i]
                 d == at[n]
      <4>1. a \in Nat /\ b \in Nat /\ c \in Nat /\ d \in Nat /\ c = a + b /\ c <= d
        BY <3>2
      <4> HIDE DEF a, b, c, d
      <4>2. \A p \in 1 .. b : a + p \in 1 .. d
        BY <4>1, Shifts
      <4> QED BY <4>2 DEF a, b, d
    <3> QED BY <2>1, <2>2, <3>1, <3>3 DEF Kept
  <2> QED BY <2>3, <2>4
<1> HIDE DEF K
<1>12. m \in K
  BY <1>10, <1>11, Induction
<1>13. ASSUME NEW i \in 1 .. m, NEW j \in 1 .. Len(parts[i])
       PROVE  g[m][Len(g[i - 1]) + j] = parts[i][j]
  <2>1. i - 1 \in 0 .. m
    OBVIOUS
  <2>2. at[i - 1] = Len(g[i - 1]) /\ j \in 1 .. size[i]
    BY <1>7, <1>8, <2>1
  <2>3. Kept(m)
    BY <1>12 DEF K
  <2>4. g[m][at[i - 1] + j] = parts[i][j]
    BY <2>2, <2>3 DEF Kept
  <2> QED BY <2>2, <2>4
<1> QED BY <1>4, <1>5, <1>13

\* FlattenSeq lays the parts it is given.
LEMMA FlattenIs ==
  ASSUME NEW T, NEW parts \in Seq(Seq(T))
  PROVE  FlattenSeq(parts) \in Seq(T) /\ \E at : Laid(FlattenSeq(parts), parts, at)
<1> DEFINE m == Len(parts)
           W == Seq(T)
           step == [p \in (1 .. m) \X W |-> p[2] \o parts[p[1]]]
           flatten == CHOOSE flatten : flatten = [i \in 1 .. m |-> IF i = 1 THEN parts[i] ELSE flatten[i - 1] \o parts[i]]
<1>1. m \in Nat /\ parts \in [1 .. m -> W]
  OBVIOUS
<1>2. step \in [(1 .. m) \X W -> W] /\ \A n \in 1 .. m : \A v \in W : step[<<n, v>>] = v \o parts[n]
  <2>1. \A n \in 1 .. m : \A v \in W : v \o parts[n] \in W
    <3> SUFFICES ASSUME NEW n \in 1 .. m, NEW v \in W
                 PROVE  v \o parts[n] \in W
      OBVIOUS
    <3>1. parts[n] \in Seq(T) /\ v \in Seq(T)
      BY <1>1
    <3> DEFINE b == parts[n]
    <3> HIDE DEF b
    <3>2. v \o b \in Seq(T)
      BY <3>1, ConcatIs DEF b
    <3> QED BY <3>2 DEF b
  <2> HIDE DEF m, W
  <2> QED BY <2>1
<1>3. <<>> \in W /\ \A v \in W : <<>> \o v = v
  BY ConcatIs
<1> HIDE DEF m, step
<1>4. PICK f \in [0 .. m -> W] : Loops(f, <<>>, step, m)
  <2> HIDE DEF W
  <2> QED BY <1>1, <1>2, <1>3, LoopExists
<1> HIDE DEF W
<1>5. \A n \in 1 .. m : n \in 0 .. m /\ n - 1 \in 0 .. m /\ (n = 1 \/ n - 1 \in 1 .. m)
  BY <1>1
<1>6. f[0] = <<>> /\ \A i \in 1 .. m : f[i] = f[i - 1] \o parts[i]
  BY <1>2, <1>4, <1>5 DEF Loops
<1>7. f[m] = FlattenSeq(parts)
  <2>1. CASE m = 0
    <3>1. parts = <<>> /\ Len(parts) = 0
      BY <2>1 DEF m
    <3>2. FlattenSeq(parts) = parts
      BY <3>1 DEF FlattenSeq
    <3> QED BY <1>6, <2>1, <3>1, <3>2
  <2>2. CASE m # 0
    <3> DEFINE h == [i \in 1 .. m |-> f[i]]
    <3>1. \A i \in 1 .. m : h[i] = IF i = 1 THEN parts[i] ELSE h[i - 1] \o parts[i]
      <4> SUFFICES ASSUME NEW i \in 1 .. m
                   PROVE  f[i] = IF i = 1 THEN parts[i] ELSE h[i - 1] \o parts[i]
        OBVIOUS
      <4>1. i # 1 => h[i - 1] = f[i - 1]
        BY <1>5
      <4> HIDE DEF h
      <4>2. f[i] = f[i - 1] \o parts[i] /\ parts[i] \in W
        BY <1>1, <1>6
      <4>3. i = 1 => f[i - 1] = <<>>
        BY <1>6
      <4>4. i = 1 => f[i] = parts[i]
        BY <1>3, <4>2, <4>3
      <4> QED BY <4>1, <4>2, <4>4
    <3>2. h = [i \in 1 .. m |-> IF i = 1 THEN parts[i] ELSE h[i - 1] \o parts[i]]
      <4>1. h = [i \in 1 .. m |-> h[i]]
        OBVIOUS
      <4> HIDE DEF h
      <4> QED BY <3>1, <4>1
    <3>3. flatten = [i \in 1 .. m |-> IF i = 1 THEN parts[i] ELSE flatten[i - 1] \o parts[i]]
      <4> HIDE DEF h
      <4> QED BY <3>2
    <3>4. FlattenSeq(parts) = flatten[m]
      BY <2>2 DEF FlattenSeq, m
    <3> HIDE DEF flatten, h
    <3> DEFINE all == [n \in 0 .. m |-> IF n = 0 THEN <<>> ELSE flatten[n]]
    <3>5. all[0] = <<>> /\ all[m] = flatten[m] /\ \A n \in 1 .. m : all[n] = flatten[n]
      BY <1>1, <2>2
    <3> HIDE DEF all
    <3>6. ASSUME NEW n \in 1 .. m, all[n - 1] = f[n - 1]
          PROVE  all[n] = f[n]
      <4>1. f[n] = f[n - 1] \o parts[n] /\ parts[n] \in W /\ all[n] = flatten[n]
        BY <1>1, <1>6, <3>5
      <4>2. CASE n = 1
        <5>1. flatten[n] = parts[n]
          BY <3>3, <4>2
        <5>2. f[n - 1] = <<>>
          BY <1>6, <4>2
        <5> QED BY <1>3, <4>1, <5>1, <5>2
      <4>3. CASE n # 1
        <5>1. flatten[n] = flatten[n - 1] \o parts[n]
          BY <3>3, <4>3
        <5>2. all[n - 1] = flatten[n - 1]
          BY <1>5, <3>5, <4>3
        <5> QED BY <3>6, <4>1, <5>1, <5>2
      <4> QED BY <4>2, <4>3
    <3>7. all[m] = f[m]
      <4>1. m \in Nat
        BY <1>1
      <4>2. all[0] = f[0]
        BY <1>6, <3>5
      <4>3. \A n \in 1 .. m : all[n - 1] = f[n - 1] => all[n] = f[n]
        BY <3>6
      <4> QED BY <4>1, <4>2, <4>3, LoopsAgree
    <3> QED BY <3>4, <3>5, <3>7
  <2> QED BY <2>1, <2>2
<1>8. /\ \A n \in 0 .. m : f[n] \in Seq(T)
      /\ \A i \in 1 .. m : /\ Len(f[i]) = Len(f[i - 1]) + Len(parts[i])
                           /\ \A j \in 1 .. Len(parts[i]) : f[m][Len(f[i - 1]) + j] = parts[i][j]
  <2>1. m \in Nat /\ parts \in [1 .. m -> Seq(T)]
    BY <1>1 DEF W
  <2>2. Flattens(f, parts, m)
    BY <1>6 DEF Flattens
  <2> QED BY <2>1, <2>2, PartsAreLaid
<1> DEFINE at == [n \in 0 .. m |-> Len(f[n])]
<1>9. /\ at \in [0 .. m -> Nat] /\ \A n \in 0 .. m : at[n] = Len(f[n])
  <2>1. \A n \in 0 .. m : Len(f[n]) \in Nat
    BY <1>8
  <2> QED BY <2>1
<1>10. Len(f[0]) = 0 /\ 0 \in 0 .. m /\ m \in 0 .. m
  BY <1>1, <1>6
<1> HIDE DEF at
<1>11. Laid(f[m], parts, at)
  <2>1. at[0] = 0 /\ at[m] = Len(f[m])
    BY <1>9, <1>10
  <2>2. \A i \in 1 .. m : at[i] = Len(f[i]) /\ at[i - 1] = Len(f[i - 1])
    BY <1>5, <1>9
  <2>3. \A i \in 1 .. m : /\ at[i] = at[i - 1] + Len(parts[i])
                         /\ \A j \in 1 .. Len(parts[i]) : f[m][at[i - 1] + j] = parts[i][j]
    BY <1>8, <2>2
  <2> QED BY <1>9, <2>1, <2>3 DEF Laid, m
<1> QED BY <1>7, <1>8, <1>10, <1>11

\* When each part opens with a line of the marked ones and has no other, the marked
\* lines are those that open the parts, in their order.
LEMMA MarkedLinesOpen ==
  ASSUME NEW m \in Nat, NEW at \in [0 .. m -> Nat], NEW size \in [1 .. m -> Nat], at[0] = 0,
         \A i \in 1 .. m : at[i] = at[i - 1] + size[i] /\ size[i] >= 1,
         NEW marked \in SUBSET (1 .. at[m]),
         \A i \in 1 .. m : \A j \in 1 .. size[i] : at[i - 1] + j \in marked <=> j = 1
  PROVE  /\ marked = {at[i - 1] + 1 : i \in 1 .. m}
         /\ \A i, j \in 1 .. m : i < j => at[i - 1] + 1 < at[j - 1] + 1
<1>1. /\ \A i, k \in 0 .. m : i <= k => at[i] <= at[k]
      /\ \A n \in 1 .. at[m] : \E i \in 1 .. m : n \in at[i - 1] + 1 .. at[i]
  <2>1. \A i \in 1 .. m : at[i] = at[i - 1] + size[i]
    OBVIOUS
  <2> QED BY <2>1, OffsetsCover
<1>2. \A i \in 1 .. m : i \in 0 .. m /\ i - 1 \in 0 .. m
  OBVIOUS
<1>3. ASSUME NEW n \in marked
      PROVE  \E i \in 1 .. m : n = at[i - 1] + 1
  <2>1. n \in 1 .. at[m]
    OBVIOUS
  <2>2. PICK i \in 1 .. m : n \in at[i - 1] + 1 .. at[i]
    BY <1>1, <2>1
  <2>3. at[i - 1] \in Nat /\ size[i] \in Nat /\ at[i] = at[i - 1] + size[i]
    BY <1>2
  <2>4. PICK j \in 1 .. size[i] : n = at[i - 1] + j
    <3> DEFINE a == at[i - 1]
               b == size[i]
               c == at[i]
    <3>1. a \in Nat /\ b \in Nat /\ c \in Nat /\ c = a + b /\ c <= c /\ n \in a + 1 .. c
      BY <1>2, <2>2, <2>3
    <3> HIDE DEF a, b, c
    <3>2. \E j \in 1 .. b : n = a + j
      BY <3>1, Shifts
    <3> QED BY <3>2 DEF a, b
  <2> QED BY <2>4
<1>4. ASSUME NEW i \in 1 .. m
      PROVE  at[i - 1] + 1 \in marked
  <2>1. 1 \in 1 .. size[i]
    OBVIOUS
  <2> QED BY <2>1
<1>5. ASSUME NEW i \in 1 .. m, NEW j \in 1 .. m, i < j
      PROVE  at[i - 1] + 1 < at[j - 1] + 1
  <2>1. i <= j - 1 /\ j - 1 \in 0 .. m /\ i \in 0 .. m /\ i - 1 \in 0 .. m
    BY <1>5
  <2>2. at[i] <= at[j - 1] /\ at[i] = at[i - 1] + size[i] /\ size[i] >= 1
    BY <1>1, <2>1
  <2>3. at[i - 1] \in Nat /\ at[j - 1] \in Nat /\ size[i] \in Nat /\ at[i] \in Nat
    BY <2>1
  <2> QED BY <2>2, <2>3
<1> QED BY <1>3, <1>4, <1>5

\* Moving a set of places moves none onto another.
LEMMA ShiftedAreCounted ==
  ASSUME NEW n \in Nat, NEW U \in SUBSET (1 .. n), NEW p \in Nat
  PROVE  Cardinality({p + q : q \in U}) = Cardinality(U)
<1> DEFINE V2 == {p + q : q \in U}
           f == [q \in U |-> p + q]
<1>1. IsFiniteSet(U)
  <2>1. IsFiniteSet(1 .. n)
    BY FS_Interval
  <2> QED BY <2>1, FS_Subset
<1>2. f \in Surjection(U, V2) /\ f \in Injection(U, V2)
  BY DEF Surjection, Injection, IsInjective
<1> HIDE DEF f, V2
<1>3. Cardinality(V2) = Cardinality(U)
  BY <1>1, <1>2, FS_Surjection
<1> QED BY <1>3 DEF V2

\* The places of a block behind its first are those that no block opens before.
LEMMA WithinBlock ==
  ASSUME NEW m \in Nat, NEW at \in [0 .. m -> Nat], NEW size \in [1 .. m -> Nat], at[0] = 0,
         \A i \in 1 .. m : at[i] = at[i - 1] + size[i] /\ size[i] >= 1,
         NEW i \in 1 .. m, NEW j \in 1 .. at[m]
  PROVE  j > at[i - 1] + 1 /\ (\A a \in 1 .. m : at[a - 1] + 1 <= at[i - 1] + 1 \/ at[a - 1] + 1 > j)
           <=> \E q \in 2 .. size[i] : j = at[i - 1] + q
<1>1. /\ \A a, b \in 0 .. m : a <= b => at[a] <= at[b]
      /\ \E a \in 1 .. m : j \in at[a - 1] + 1 .. at[a]
  <2>1. \A a \in 1 .. m : at[a] = at[a - 1] + size[a]
    OBVIOUS
  <2>2. \A n \in 1 .. at[m] : \E a \in 1 .. m : n \in at[a - 1] + 1 .. at[a]
    BY <2>1, OffsetsCover
  <2>3. \A a, b \in 0 .. m : a <= b => at[a] <= at[b]
    BY <2>1, OffsetsCover
  <2> QED BY <2>2, <2>3
<1>2. \A a \in 1 .. m : /\ a \in 0 .. m /\ a - 1 \in 0 .. m /\ at[a] \in Nat /\ at[a - 1] \in Nat /\ size[a] \in Nat
                        /\ at[a] = at[a - 1] + size[a] /\ size[a] >= 1
  <2> SUFFICES ASSUME NEW a \in 1 .. m
               PROVE  a \in 0 .. m /\ a - 1 \in 0 .. m
    OBVIOUS
  <2> QED OBVIOUS
<1>3. ASSUME j > at[i - 1] + 1, \A a \in 1 .. m : at[a - 1] + 1 <= at[i - 1] + 1 \/ at[a - 1] + 1 > j
      PROVE  \E q \in 2 .. size[i] : j = at[i - 1] + q
  <2>1. PICK a \in 1 .. m : j \in at[a - 1] + 1 .. at[a]
    BY <1>1
  <2>2. at[a - 1] <= at[i - 1]
    <3> DEFINE p == at[a - 1]
               q == at[i - 1]
    <3>1. p + 1 <= q + 1 \/ p + 1 > j
      BY <1>3
    <3>2. p \in Nat /\ q \in Nat /\ j \in Nat
      BY <1>2
    <3>3. p + 1 <= j
      BY <2>1
    <3> HIDE DEF p, q
    <3>4. p <= q
      BY <3>1, <3>2, <3>3
    <3> QED BY <3>4 DEF p, q
  <2>3. a <= i
    <3> SUFFICES ASSUME i <= a - 1
                 PROVE  FALSE
      OBVIOUS
    <3>1. at[i] <= at[a - 1]
      BY <1>1, <1>2
    <3> QED BY <1>2, <2>2, <3>1
  <2>4. a = i
    <3> SUFFICES ASSUME a <= i - 1
                 PROVE  FALSE
      BY <2>3
    <3>1. at[a] <= at[i - 1]
      BY <1>1, <1>2
    <3> QED BY <1>2, <1>3, <2>1, <3>1
  <2> DEFINE x == at[i - 1]
             y == size[i]
             z == at[i]
  <2>5. x \in Nat /\ y \in Nat /\ z \in Nat /\ z = x + y /\ z <= z /\ j \in x + 1 .. z /\ j > x + 1
    BY <1>2, <1>3, <2>1, <2>4
  <2> HIDE DEF x, y, z
  <2>6. PICK q \in 1 .. y : j = x + q
    BY <2>5, Shifts
  <2>7. q \in 2 .. y
    BY <2>5, <2>6
  <2> QED BY <2>6, <2>7 DEF x, y
<1>4. ASSUME NEW q \in 2 .. size[i], j = at[i - 1] + q
      PROVE  /\ j > at[i - 1] + 1
             /\ \A a \in 1 .. m : at[a - 1] + 1 <= at[i - 1] + 1 \/ at[a - 1] + 1 > j
  <2>1. j > at[i - 1] + 1 /\ j <= at[i]
    BY <1>2, <1>4
  <2>2. ASSUME NEW a \in 1 .. m
        PROVE  at[a - 1] + 1 <= at[i - 1] + 1 \/ at[a - 1] + 1 > j
    <3>1. CASE a <= i
      <4>1. at[a - 1] <= at[i - 1]
        <5>1. a - 1 <= i - 1 /\ a - 1 \in 0 .. m /\ i - 1 \in 0 .. m
          BY <1>2, <3>1
        <5> QED BY <1>1, <5>1
      <4> QED BY <1>2, <4>1
    <3>2. CASE i <= a - 1
      <4>1. at[i] <= at[a - 1]
        BY <1>1, <1>2, <3>2
      <4> QED BY <1>2, <2>1, <4>1
    <3> QED BY <3>1, <3>2
  <2> QED BY <2>1, <2>2
<1> QED BY <1>3, <1>4

\* The lines of a mail are flattened as everything is.
LEMMA MFlattenIs ==
  ASSUME NEW parts
  PROVE  M!FlattenSeq(parts) = FlattenSeq(parts)
BY DEF M!FlattenSeq, FlattenSeq

\* The elements of all that are in S are those that open its parts, in their order.
Opens(all, parts, S, at) ==
  /\ Laid(all, parts, at)
  /\ {n \in 1 .. Len(all) : all[n] \in S} = {at[i - 1] + 1 : i \in 1 .. Len(parts)}
  /\ \A i, j \in 1 .. Len(parts) : i < j => at[i - 1] + 1 < at[j - 1] + 1

\* The lines that open the parts of a flat sequence: where they are, and how many.
LEMMA OpeningsAre ==
  ASSUME NEW T, NEW parts \in Seq(Seq(T)), NEW S,
         \A i \in 1 .. Len(parts) : /\ Len(parts[i]) >= 1
                                    /\ \A j \in 1 .. Len(parts[i]) : parts[i][j] \in S <=> j = 1
  PROVE  /\ FlattenSeq(parts) \in Seq(T)
         /\ \E at : Opens(FlattenSeq(parts), parts, S, at)
         /\ Cardinality({n \in 1 .. Len(FlattenSeq(parts)) : FlattenSeq(parts)[n] \in S}) = Len(parts)
<1> DEFINE all == FlattenSeq(parts)
           m == Len(parts)
           marked == {n \in 1 .. Len(all) : all[n] \in S}
           size == [i \in 1 .. m |-> Len(parts[i])]
<1>1. all \in Seq(T)
  BY FlattenIs
<1>2. PICK at : Laid(all, parts, at)
  BY FlattenIs
<1>3. m \in Nat /\ \A i \in 1 .. m : Len(parts[i]) \in Nat
  <2>1. \A i \in 1 .. m : parts[i] \in Seq(T)
    OBVIOUS
  <2> QED BY <2>1
<1>4. size \in [1 .. m -> Nat] /\ \A i \in 1 .. m : size[i] = Len(parts[i])
  BY <1>3
<1>5. \A i \in 1 .. m : /\ Len(parts[i]) >= 1
                        /\ \A j \in 1 .. Len(parts[i]) : parts[i][j] \in S <=> j = 1
  OBVIOUS
<1>6. /\ at \in [0 .. m -> Nat] /\ at[0] = 0 /\ at[m] = Len(all)
      /\ \A i \in 1 .. m : /\ at[i] = at[i - 1] + Len(parts[i])
                           /\ \A j \in 1 .. Len(parts[i]) : all[at[i - 1] + j] = parts[i][j]
  BY <1>2 DEF Laid
<1> HIDE DEF all, m, size
<1>7. \A i \in 1 .. m : at[i] = at[i - 1] + size[i] /\ size[i] >= 1
  BY <1>4, <1>5, <1>6
<1>8. \A i \in 1 .. m : \A j \in 1 .. size[i] : at[i - 1] + j \in marked <=> j = 1
  <2> SUFFICES ASSUME NEW i \in 1 .. m, NEW j \in 1 .. size[i]
               PROVE  at[i - 1] + j \in marked <=> j = 1
    OBVIOUS
  <2>1. all[at[i - 1] + j] = parts[i][j] /\ (parts[i][j] \in S <=> j = 1)
    BY <1>4, <1>5, <1>6
  <2>2. at[i - 1] + j \in 1 .. Len(all)
    <3>1. i \in 0 .. m /\ i - 1 \in 0 .. m /\ m \in 0 .. m /\ i <= m
      BY <1>3
    <3>2. at[i] <= at[m]
      <4>1. \A a, b \in 0 .. m : a <= b => at[a] <= at[b]
        <5>1. m \in Nat
          BY <1>3
        <5>2. at \in [0 .. m -> Nat] /\ at[0] = 0
          BY <1>6
        <5>3. size \in [1 .. m -> Nat]
          BY <1>4
        <5>4. \A a \in 1 .. m : at[a] = at[a - 1] + size[a]
          BY <1>7
        <5> QED BY <5>1, <5>2, <5>3, <5>4, OffsetsCover
      <4> QED BY <3>1, <4>1
    <3> DEFINE x == at[i - 1]
               y == size[i]
               z == at[i]
               w == at[m]
    <3>3. x \in Nat /\ y \in Nat /\ z \in Nat /\ w \in Nat /\ z = x + y /\ z <= w /\ j \in 1 .. y
      BY <1>4, <1>6, <1>7, <3>1, <3>2
    <3> HIDE DEF x, y, z, w
    <3>4. x + j \in 1 .. w
      BY <3>3, Shifts
    <3> QED BY <1>6, <3>4 DEF x, w
  <2> QED BY <2>1, <2>2
<1>9. marked \subseteq 1 .. at[m]
  BY <1>6
<1> HIDE DEF marked
<1>10. /\ marked = {at[i - 1] + 1 : i \in 1 .. m}
       /\ \A i, j \in 1 .. m : i < j => at[i - 1] + 1 < at[j - 1] + 1
  <2>1. m \in Nat
    BY <1>3
  <2>2. at \in [0 .. m -> Nat] /\ at[0] = 0
    BY <1>6
  <2>3. size \in [1 .. m -> Nat]
    BY <1>4
  <2>4. \A i \in 1 .. m : at[i] = at[i - 1] + size[i] /\ size[i] >= 1
    BY <1>7
  <2>5. marked \in SUBSET (1 .. at[m])
    BY <1>9
  <2>6. \A i \in 1 .. m : \A j \in 1 .. size[i] : at[i - 1] + j \in marked <=> j = 1
    BY <1>8
  <2> QED BY <2>1, <2>2, <2>3, <2>4, <2>5, <2>6, MarkedLinesOpen
<1>11. Cardinality(marked) = m
  <2> DEFINE o == [i \in 1 .. m |-> at[i - 1] + 1]
  <2>1. marked = {o[i] : i \in 1 .. m}
    BY <1>10
  <2>2. \A i, j \in 1 .. m : o[i] = o[j] => i = j
    <3> SUFFICES ASSUME NEW i \in 1 .. m, NEW j \in 1 .. m, i # j
                 PROVE  o[i] # o[j]
      OBVIOUS
    <3>1. i < j \/ j < i
      BY <1>3
    <3>2. at[i - 1] + 1 \in Nat /\ at[j - 1] + 1 \in Nat
      <4>1. i - 1 \in 0 .. m /\ j - 1 \in 0 .. m
        BY <1>3
      <4>2. at[i - 1] \in Nat /\ at[j - 1] \in Nat
        BY <1>6, <4>1
      <4> QED BY <4>2
    <3> QED BY <1>10, <3>1, <3>2
  <2>3. m \in Nat
    BY <1>3
  <2> HIDE DEF o, m, marked
  <2> QED BY <2>1, <2>2, <2>3, DistinctAreCounted
<1>12. Opens(all, parts, S, at)
  BY <1>2, <1>10 DEF Opens, m, marked
<1> QED BY <1>1, <1>11, <1>12 DEF all, m, marked

\* Sequences put side by side are a sequence of sequences over all they hold.
LEMMA SideBySide ==
  ASSUME NEW m \in Nat, NEW parts, parts = [k \in 1 .. m |-> parts[k]],
         \A k \in 1 .. m : parts[k] \in Seq(ToSet(parts[k]))
  PROVE  \E T : /\ parts \in Seq(Seq(T)) /\ Len(parts) = m
                /\ \A l \in T : \E k \in 1 .. m : l \in ToSet(parts[k])
<1> DEFINE T == UNION {ToSet(parts[k]) : k \in 1 .. m}
<1>1. \A k \in 1 .. m : ToSet(parts[k]) \subseteq T
  OBVIOUS
<1>2. \A l \in T : \E k \in 1 .. m : l \in ToSet(parts[k])
  OBVIOUS
<1> HIDE DEF T
<1>3. \A A1, B1 : A1 \subseteq B1 => Seq(A1) \subseteq Seq(B1)
  OBVIOUS
<1>4. \A k \in 1 .. m : parts[k] \in Seq(T)
  BY <1>1, <1>3
<1> DEFINE W == Seq(T)
<1>5. parts \in [1 .. m -> W]
  BY <1>4
<1> HIDE DEF W
<1>6. parts \in Seq(W) /\ Len(parts) = m
  BY <1>5
<1> QED BY <1>2, <1>6 DEF W

\* A sequence over anything is one over what it holds.
LEMMA OfItsOwn ==
  ASSUME NEW T, NEW s \in Seq(T)
  PROVE  s \in Seq(ToSet(s)) /\ \A l : l \in ToSet(s) <=> \E j \in 1 .. Len(s) : l = s[j]
<1>1. \A l : l \in ToSet(s) <=> \E j \in 1 .. Len(s) : l = s[j]
  BY DEF ToSet
<1>2. Len(s) \in Nat /\ s = [j \in 1 .. Len(s) |-> s[j]]
  OBVIOUS
<1>3. \A j \in 1 .. Len(s) : s[j] \in ToSet(s)
  BY <1>1
<1> DEFINE W == ToSet(s)
           m == Len(s)
<1>4. m \in Nat /\ s = [j \in 1 .. m |-> s[j]] /\ \A j \in 1 .. m : s[j] \in W
  BY <1>2, <1>3
<1> HIDE DEF W, m
<1>5. s \in Seq(W)
  <2>1. s \in [1 .. m -> W]
    BY <1>4
  <2> QED BY <1>4, <2>1
<1> QED BY <1>1, <1>5 DEF W

\* all is s, with b behind it if c holds.
Adds(all, s, b, c) ==
  /\ Len(all) \in Nat /\ Len(s) \in Nat
  /\ c => Len(all) = Len(s) + 1 /\ all[Len(all)] = b
  /\ ~c => Len(all) = Len(s)
  /\ \A j \in 1 .. Len(s) : all[j] = s[j]

\* What a part that may be absent adds.
LEMMA AddedPart ==
  ASSUME NEW T, NEW s \in Seq(T), NEW b \in T, NEW c
  PROVE  s \o M!Part(c, b) \in Seq(T) /\ Adds(s \o M!Part(c, b), s, b, c)
<1>1. CASE c
  <2>1. M!Part(c, b) = <<b>>
    BY <1>1 DEF M!Part
  <2>2. /\ s \o <<b>> \in Seq(T) /\ Len(s \o <<b>>) = Len(s) + 1 /\ (s \o <<b>>)[Len(s) + 1] = b
        /\ \A j \in 1 .. Len(s) : (s \o <<b>>)[j] = s[j]
    OBVIOUS
  <2> DEFINE all == s \o <<b>>
  <2>3. s \o M!Part(c, b) = all /\ all \in Seq(T) /\ Len(all) = Len(s) + 1 /\ all[Len(all)] = b
        /\ Len(all) \in Nat /\ Len(s) \in Nat /\ \A j \in 1 .. Len(s) : all[j] = s[j]
    BY <2>1, <2>2
  <2> HIDE DEF all
  <2> QED BY <1>1, <2>3 DEF Adds
<1>2. CASE ~c
  <2>1. M!Part(c, b) = <<>>
    BY <1>2 DEF M!Part
  <2>2. s \o M!Part(c, b) = s /\ Len(s) \in Nat
    BY <2>1
  <2> QED BY <1>2, <2>2 DEF Adds
<1> QED BY <1>1, <1>2

\* One line, and another that may follow.
LEMMA PairIs ==
  ASSUME NEW a, NEW b, NEW c
  PROVE  LET s == <<a>> \o M!Part(c, b)
         IN  /\ s \in Seq(ToSet(s)) /\ Len(s) \in {1, 2} /\ s[1] = a
             /\ \A j \in 2 .. Len(s) : s[j] = b
<1> DEFINE s == <<a>> \o M!Part(c, b)
           T == {a, b}
<1>1. <<a>> \in Seq(T) /\ Len(<<a>>) = 1 /\ <<a>>[1] = a /\ b \in T
  OBVIOUS
<1> HIDE DEF T
<1>2. /\ s \in Seq(T) /\ Len(s) \in {1, 2} /\ s[1] = a /\ (Len(s) = 2 => s[2] = b)
  <2> DEFINE h == <<a>>
  <2> HIDE DEF h
  <2>1. h \in Seq(T) /\ Len(h) = 1 /\ h[1] = a
    BY <1>1 DEF h
  <2>2. h \in Seq(T)
    BY <2>1
  <2>3. b \in T
    BY <1>1
  <2>4. h \o M!Part(c, b) \in Seq(T) /\ Adds(h \o M!Part(c, b), h, b, c)
    BY <2>2, <2>3, AddedPart
  <2>5. s = h \o M!Part(c, b)
    BY DEF h
  <2> HIDE DEF s
  <2> QED BY <2>1, <2>4, <2>5 DEF Adds
<1>3. s \in Seq(ToSet(s))
  BY <1>2, OfItsOwn
<1> HIDE DEF s
<1>4. \A j \in 2 .. Len(s) : s[j] = b
  BY <1>2
<1> QED BY <1>2, <1>3, <1>4 DEF s

\* The lines of a question's options are one per option, each with its description.
LEMMA OptionLinesAre ==
  ASSUME NEW item, NEW W, item.options \in Seq(W)
  PROVE  LET lines == M!OptionLines(item)
         IN  /\ lines \in Seq(ToSet(lines))
             /\ \A j \in 1 .. Len(lines) : lines[j][1] \in {"option", "description"}
             /\ Cardinality({j \in 1 .. Len(lines) : lines[j][1] = "option"}) = Len(item.options)
<1> DEFINE m == Len(item.options)
           first(k) == <<"option", k, item.options[k].label>>
           second(k) == <<"description", item.options[k].description>>
           part(k) == <<first(k)>> \o M!Part(M!Present(item.options[k].description), second(k))
           parts == [k \in 1 .. m |-> part(k)]
           lines == M!OptionLines(item)
<1>1. m \in Nat /\ DOMAIN item.options = 1 .. m
  OBVIOUS
<1>2. lines = FlattenSeq(parts)
  BY <1>1, MFlattenIs DEF M!OptionLines
<1>3. \A k : first(k)[1] = "option" /\ second(k)[1] = "description"
  OBVIOUS
<1> HIDE DEF first, second
<1>4. \A k : /\ part(k) \in Seq(ToSet(part(k))) /\ Len(part(k)) \in {1, 2} /\ part(k)[1] = first(k)
             /\ \A j \in 2 .. Len(part(k)) : part(k)[j] = second(k)
  BY PairIs
<1> HIDE DEF part, m, lines
<1>5. parts = [k \in 1 .. m |-> parts[k]] /\ \A k \in 1 .. m : parts[k] = part(k)
  OBVIOUS
<1> HIDE DEF parts
<1>6. PICK T : /\ parts \in Seq(Seq(T)) /\ Len(parts) = m
               /\ \A l \in T : \E k \in 1 .. m : l \in ToSet(parts[k])
  <2>1. parts = [k \in 1 .. m |-> parts[k]]
    BY <1>5
  <2>2. \A k \in 1 .. m : parts[k] \in Seq(ToSet(parts[k]))
    BY <1>4, <1>5
  <2>3. m \in Nat
    BY <1>1
  <2> QED BY <2>1, <2>2, <2>3, SideBySide
<1>7. ASSUME NEW k \in 1 .. m
      PROVE  /\ Len(parts[k]) >= 1 /\ parts[k] \in Seq(ToSet(parts[k]))
             /\ parts[k][1][1] = "option" /\ \A j \in 2 .. Len(parts[k]) : parts[k][j][1] = "description"
  BY <1>3, <1>4, <1>5
<1>8. \A l \in T : l[1] \in {"option", "description"}
  <2> SUFFICES ASSUME NEW l \in T
               PROVE  l[1] \in {"option", "description"}
    OBVIOUS
  <2>1. PICK k \in 1 .. m : l \in ToSet(parts[k])
    BY <1>6
  <2>2. PICK j \in 1 .. Len(parts[k]) : l = parts[k][j]
    BY <1>7, <2>1, OfItsOwn
  <2>3. j = 1 \/ j \in 2 .. Len(parts[k])
    BY <1>7
  <2> QED BY <1>7, <2>2, <2>3
<1> DEFINE S == {l \in T : l[1] = "option"}
<1>9. \A k \in 1 .. Len(parts) : /\ Len(parts[k]) >= 1
                                 /\ \A j \in 1 .. Len(parts[k]) : parts[k][j] \in S <=> j = 1
  <2> SUFFICES ASSUME NEW k \in 1 .. m
               PROVE  \A j \in 1 .. Len(parts[k]) : parts[k][j] \in S <=> j = 1
    BY <1>6, <1>7
  <2>1. \A j \in 1 .. Len(parts[k]) : parts[k][j] \in T
    BY <1>6
  <2>2. \A j \in 1 .. Len(parts[k]) : j = 1 \/ j \in 2 .. Len(parts[k])
    BY <1>7
  <2> QED BY <1>7, <2>1, <2>2
<1>10. lines \in Seq(T) /\ Cardinality({n \in 1 .. Len(lines) : lines[n] \in S}) = m
  <2> HIDE DEF S
  <2>1. parts \in Seq(Seq(T))
    BY <1>6
  <2>2. /\ FlattenSeq(parts) \in Seq(T)
        /\ Cardinality({n \in 1 .. Len(FlattenSeq(parts)) : FlattenSeq(parts)[n] \in S}) = Len(parts)
    BY <1>9, <2>1, OpeningsAre
  <2> QED BY <1>2, <1>6, <2>2
<1>11. {n \in 1 .. Len(lines) : lines[n] \in S} = {n \in 1 .. Len(lines) : lines[n][1] = "option"}
  BY <1>10
<1>12. lines \in Seq(ToSet(lines))
  BY <1>10, OfItsOwn
<1>13. \A j \in 1 .. Len(lines) : lines[j][1] \in {"option", "description"}
  BY <1>8, <1>10
<1> QED BY <1>10, <1>11, <1>12, <1>13 DEF lines, m

\* The lines of a question: the one that asks it, what may be said of it, and its options.
LEMMA ItemLinesAre ==
  ASSUME NEW items, NEW i, NEW W, items[i].options \in Seq(W)
  PROVE  LET lines == M!ItemLines(items, i)
         IN  /\ lines \in Seq(ToSet(lines)) /\ Len(lines) >= 1
             /\ lines[1][1] = "question" /\ lines[1][3] = items[i].question
             /\ \A j \in 2 .. Len(lines) :
                  lines[j][1] \in {"header", "select-one-or-more", "option", "description"}
             /\ Cardinality({j \in 1 .. Len(lines) : lines[j][1] = "option"}) = Len(items[i].options)
<1> DEFINE ask == <<"question", IF Len(items) > 1 THEN i ELSE 0, items[i].question>>
           named == <<"header", items[i].header>>
           choose == <<"select-one-or-more">>
           P == {ask, named, choose}
           one == <<ask>>
           two == one \o M!Part(M!Present(items[i].header), named)
           head == two \o M!Part(items[i].multiSelect, choose)
           options == M!OptionLines(items[i])
           lines == M!ItemLines(items, i)
<1>1. lines = head \o options
  BY DEF M!ItemLines
<1>2. ask[1] = "question" /\ ask[3] = items[i].question /\ named[1] = "header" /\ choose[1] = "select-one-or-more"
  OBVIOUS
<1>3. one \in Seq(P) /\ Len(one) = 1 /\ one[1] = ask /\ named \in P /\ choose \in P
  <2> HIDE DEF ask, named, choose
  <2> QED OBVIOUS
<1>4. \A l \in P : l = ask \/ l = named \/ l = choose
  OBVIOUS
<1> HIDE DEF ask, named, choose, P, one, options, lines
<1>5. two \in Seq(P) /\ Adds(two, one, named, M!Present(items[i].header))
  BY <1>3, AddedPart
<1> HIDE DEF two
<1>6. head \in Seq(P) /\ Adds(head, two, choose, items[i].multiSelect)
  BY <1>3, <1>5, AddedPart
<1> HIDE DEF head
<1>7. two[1] = ask /\ Len(two) >= 1 /\ \A j \in 2 .. Len(two) : two[j] = named
  BY <1>3, <1>5 DEF Adds
<1>8. head[1] = ask /\ Len(head) >= 1 /\ Len(head) \in Nat /\ \A j \in 2 .. Len(head) : head[j] \in {named, choose}
  BY <1>6, <1>7 DEF Adds
<1>9. /\ options \in Seq(ToSet(options))
      /\ \A j \in 1 .. Len(options) : options[j][1] \in {"option", "description"}
      /\ Cardinality({j \in 1 .. Len(options) : options[j][1] = "option"}) = Len(items[i].options)
  BY OptionLinesAre DEF options
<1> DEFINE T == P \cup ToSet(options)
<1>10. head \in Seq(T) /\ options \in Seq(T)
  <2>1. P \subseteq T /\ ToSet(options) \subseteq T
    OBVIOUS
  <2>2. \A A1, B1 : A1 \subseteq B1 => Seq(A1) \subseteq Seq(B1)
    OBVIOUS
  <2> HIDE DEF T
  <2> QED BY <1>6, <1>9, <2>1, <2>2
<1> HIDE DEF T
<1>11. /\ lines \in Seq(T) /\ Len(lines) = Len(head) + Len(options) /\ Len(options) \in Nat
       /\ \A j \in 1 .. Len(head) : lines[j] = head[j]
       /\ \A j \in 1 .. Len(options) : lines[Len(head) + j] = options[j]
  BY <1>1, <1>10, ConcatIs
<1>12. lines \in Seq(ToSet(lines))
  BY <1>11, OfItsOwn
<1> DEFINE n == Len(head)
           r == Len(options)
<1>13. n \in Nat /\ r \in Nat /\ n >= 1 /\ Len(lines) = n + r
       /\ (\A j \in 1 .. n : lines[j] = head[j]) /\ \A j \in 1 .. r : lines[n + j] = options[j]
  BY <1>8, <1>11
<1>14. \A j \in 1 .. r : options[j][1] \in {"option", "description"}
  BY <1>9
<1>15. \A j \in 2 .. n : head[j] \in {named, choose}
  BY <1>8
<1>16. Cardinality({j \in 1 .. r : options[j][1] = "option"}) = Len(items[i].options)
  BY <1>9
<1> HIDE DEF n, r
<1>17. \A j \in 1 .. Len(lines) : j \in 1 .. n \/ \E q \in 1 .. r : j = n + q
  <2> SUFFICES ASSUME NEW j \in 1 .. n + r, ~(j \in 1 .. n)
               PROVE  \E q \in 1 .. r : j = n + q
    BY <1>13
  <2>1. j \in n + 1 .. n + r
    BY <1>13
  <2> QED BY <1>13, <2>1, Shifts
<1>18. lines[1] = ask /\ Len(lines) >= 1
  BY <1>8, <1>13
<1>19. \A j \in 2 .. Len(lines) : lines[j][1] \in {"header", "select-one-or-more", "option", "description"}
  <2> SUFFICES ASSUME NEW j \in 2 .. Len(lines)
               PROVE  lines[j][1] \in {"header", "select-one-or-more", "option", "description"}
    OBVIOUS
  <2>1. CASE j \in 1 .. n
    <3>1. j \in 2 .. n /\ lines[j] = head[j]
      BY <1>13, <2>1
    <3> QED BY <1>2, <1>15, <3>1
  <2>2. ASSUME NEW q \in 1 .. r, j = n + q
        PROVE  lines[j][1] \in {"option", "description"}
    BY <1>13, <1>14, <2>2
  <2> QED BY <1>13, <1>17, <2>1, <2>2
<1>20. Cardinality({j \in 1 .. Len(lines) : lines[j][1] = "option"}) = Len(items[i].options)
  <2> DEFINE U == {j \in 1 .. r : options[j][1] = "option"}
             V2 == {j \in 1 .. Len(lines) : lines[j][1] = "option"}
  <2>1. V2 = {n + q : q \in U}
    <3>1. ASSUME NEW j \in V2
          PROVE  \E q \in U : j = n + q
      <4>1. CASE j \in 1 .. n
        <5>1. lines[j][1] # "option"
          <6>1. j = 1 \/ j \in 2 .. n
            BY <1>13, <4>1
          <6>2. lines[j] = head[j]
            BY <1>13, <4>1
          <6> QED BY <1>2, <1>8, <1>15, <6>1, <6>2
        <5> QED BY <5>1
      <4>2. ASSUME NEW q \in 1 .. r, j = n + q
            PROVE  q \in U
        BY <1>13, <4>2
      <4> QED BY <1>17, <4>1, <4>2
    <3>2. ASSUME NEW q \in U
          PROVE  n + q \in V2
      <4>1. lines[n + q] = options[q] /\ n + q \in 1 .. Len(lines)
        BY <1>13
      <4> QED BY <4>1
    <3> QED BY <3>1, <3>2
  <2>2. U \in SUBSET (1 .. r)
    OBVIOUS
  <2> HIDE DEF U, V2
  <2>3. Cardinality({n + q : q \in U}) = Cardinality(U)
    BY <1>13, <2>2, ShiftedAreCounted
  <2> QED BY <1>16, <2>1, <2>3 DEF U, V2
<1> QED BY <1>2, <1>12, <1>18, <1>19, <1>20 DEF lines

\* Of places in order, i are up to the i-th.
LEMMA PlacesUpTo ==
  ASSUME NEW m \in Nat, NEW o \in [1 .. m -> Nat], \A i, j \in 1 .. m : i < j => o[i] < o[j], NEW i \in 1 .. m
  PROVE  Cardinality({h \in {o[a] : a \in 1 .. m} : h <= o[i]}) = i
<1>1. {h \in {o[a] : a \in 1 .. m} : h <= o[i]} = {o[a] : a \in 1 .. i}
  <2>1. ASSUME NEW a \in 1 .. m, o[a] <= o[i]
        PROVE  a \in 1 .. i
    <3>1. ~ (i < a)
      BY <2>1
    <3> QED BY <3>1
  <2>2. ASSUME NEW a \in 1 .. i
        PROVE  a \in 1 .. m /\ o[a] <= o[i]
    <3>1. a \in 1 .. m /\ (a = i \/ a < i)
      BY <2>2
    <3> QED BY <3>1
  <2> QED BY <2>1, <2>2
<1>2. i \in Nat
  OBVIOUS
<1>3. \A a, b \in 1 .. i : o[a] = o[b] => a = b
  <2> SUFFICES ASSUME NEW a \in 1 .. i, NEW b \in 1 .. i, a # b
               PROVE  o[a] # o[b]
    OBVIOUS
  <2>1. (a < b \/ b < a) /\ a \in 1 .. m /\ b \in 1 .. m
    OBVIOUS
  <2> QED BY <2>1
<1>4. Cardinality({o[a] : a \in 1 .. i}) = i
  BY <1>2, <1>3, DistinctAreCounted
<1> QED BY <1>1, <1>4

\* What is asked in the lines of a mail: where, and which options are under it.
AskedIn(lines) == {k \in DOMAIN lines : lines[k][1] = "question"}
Under(lines, k) ==
  {j \in DOMAIN lines : j > k /\ lines[j][1] = "option" /\ \A h \in AskedIn(lines) : h <= k \/ h > j}

\* The line at k opens the i-th block, whose options are under it.
Shows(lines, k, i, part) ==
  /\ Cardinality({h \in AskedIn(lines) : h <= k}) = i /\ lines[k] = part[1]
  /\ Cardinality(Under(lines, k)) = Cardinality({j \in 1 .. Len(part) : part[j][1] = "option"})

\* Blocks that open with a question and hold no other, with what is left to say behind them.
Blocks(lines, n, all, parts) ==
  /\ DOMAIN lines = 1 .. n /\ Len(all) <= n /\ \A j \in 1 .. Len(all) : lines[j] = all[j]
  /\ \A j \in 1 .. n : j > Len(all) => lines[j][1] = "further"
  /\ \A i \in 1 .. Len(parts) : /\ Len(parts[i]) >= 1
                                 /\ \A j \in 1 .. Len(parts[i]) : parts[i][j][1] = "question" <=> j = 1

\* Each of them is asked once, and its options are under it.
LEMMA BlocksAreAsked ==
  ASSUME NEW T, NEW parts \in Seq(Seq(T)), NEW lines, NEW n \in Nat, Blocks(lines, n, FlattenSeq(parts), parts)
  PROVE  /\ Cardinality(AskedIn(lines)) = Len(parts)
         /\ \A k \in AskedIn(lines) : \E i \in 1 .. Len(parts) : Shows(lines, k, i, parts[i])
<1> DEFINE m == Len(parts)
           all == FlattenSeq(parts)
           asks == AskedIn(lines)
           S == {l \in T : l[1] = "question"}
           size == [i \in 1 .. m |-> Len(parts[i])]
<1>1. m \in Nat /\ \A i \in 1 .. m : parts[i] \in Seq(T)
  OBVIOUS
<1>2. \A i \in 1 .. m : Len(parts[i]) \in Nat /\ \A j \in 1 .. Len(parts[i]) : parts[i][j] \in T
  BY <1>1
<1>3. \A i \in 1 .. m : /\ Len(parts[i]) >= 1
                        /\ \A j \in 1 .. Len(parts[i]) : parts[i][j][1] = "question" <=> j = 1
  BY DEF Blocks
<1>0. /\ DOMAIN lines = 1 .. n /\ Len(all) <= n /\ \A j \in 1 .. Len(all) : lines[j] = all[j]
      /\ \A j \in 1 .. n : j > Len(all) => lines[j][1] = "further"
  BY DEF Blocks
<1>4. \A i \in 1 .. Len(parts) : /\ Len(parts[i]) >= 1
                                 /\ \A j \in 1 .. Len(parts[i]) : parts[i][j] \in S <=> j = 1
  BY <1>2, <1>3
<1>5. size \in [1 .. m -> Nat] /\ \A i \in 1 .. m : size[i] = Len(parts[i]) /\ size[i] >= 1
  BY <1>2, <1>3
<1> HIDE DEF size, S
<1>6. /\ FlattenSeq(parts) \in Seq(T)
      /\ \E at : Opens(FlattenSeq(parts), parts, S, at)
      /\ Cardinality({h \in 1 .. Len(FlattenSeq(parts)) : FlattenSeq(parts)[h] \in S}) = Len(parts)
  <2>1. parts \in Seq(Seq(T))
    OBVIOUS
  <2> HIDE DEF m
  <2> QED BY <1>4, <2>1, OpeningsAre
<1> DEFINE marked == {k \in 1 .. Len(all) : all[k] \in S}
<1>7. all \in Seq(T) /\ Cardinality(marked) = m
  BY <1>6
<1>8. PICK at : /\ Laid(all, parts, at) /\ marked = {at[i - 1] + 1 : i \in 1 .. m}
                /\ \A i, j \in 1 .. m : i < j => at[i - 1] + 1 < at[j - 1] + 1
  <2>1. PICK at : Opens(all, parts, S, at)
    BY <1>6
  <2> QED BY <2>1 DEF Opens, marked, m
<1> HIDE DEF m, all
<1>9. asks = marked
  <2>1. asks = {k \in 1 .. n : lines[k][1] = "question"}
    BY <1>0 DEF AskedIn
  <2>2. Len(all) \in Nat
    BY <1>7
  <2>3. \A k \in 1 .. n : lines[k][1] = "question" => k \in 1 .. Len(all)
    <3> SUFFICES ASSUME NEW k \in 1 .. n, lines[k][1] = "question"
                 PROVE  k <= Len(all)
      BY <2>2
    <3> QED BY <1>0, <2>2
  <2>4. \A k \in 1 .. Len(all) : k \in 1 .. n
    BY <1>0, <2>2
  <2>5. \A k \in 1 .. Len(all) : all[k] \in T /\ lines[k] = all[k]
    BY <1>0, <1>7
  <2>6. \A k \in 1 .. Len(all) : all[k] \in S <=> lines[k][1] = "question"
    BY <2>5 DEF S
  <2> QED BY <2>1, <2>3, <2>4, <2>6
<1> HIDE DEF marked
<1>10. /\ at \in [0 .. m -> Nat] /\ at[0] = 0 /\ at[m] = Len(all)
       /\ \A i \in 1 .. m : at[i] = at[i - 1] + size[i]
       /\ \A i \in 1 .. m : \A j \in 1 .. size[i] : all[at[i - 1] + j] = parts[i][j]
  <2>1. /\ at \in [0 .. m -> Nat] /\ at[0] = 0 /\ at[m] = Len(all)
        /\ \A i \in 1 .. m : /\ at[i] = at[i - 1] + Len(parts[i])
                             /\ \A j \in 1 .. Len(parts[i]) : all[at[i - 1] + j] = parts[i][j]
    BY <1>8 DEF Laid, m
  <2>2. \A i \in 1 .. m : at[i] = at[i - 1] + size[i]
    BY <1>5, <2>1
  <2>3. \A i \in 1 .. m : \A j \in 1 .. size[i] : all[at[i - 1] + j] = parts[i][j]
    BY <1>5, <2>1
  <2> QED BY <2>1, <2>2, <2>3
<1>11. \A i \in 1 .. m : at[i - 1] \in Nat /\ at[i] \in Nat /\ at[i] <= Len(all)
  <2>1. \A i \in 1 .. m : i \in 0 .. m /\ i - 1 \in 0 .. m /\ m \in 0 .. m /\ i <= m
    BY <1>1
  <2>2. \A a, b \in 0 .. m : a <= b => at[a] <= at[b]
    <3>1. at \in [0 .. m -> Nat] /\ at[0] = 0
      BY <1>10
    <3>2. \A i \in 1 .. m : at[i] = at[i - 1] + size[i]
      BY <1>10
    <3>3. size \in [1 .. m -> Nat]
      BY <1>5
    <3>4. m \in Nat
      BY <1>1
    <3> QED BY <3>1, <3>2, <3>3, <3>4, OffsetsCover
  <2>3. \A i \in 1 .. m : at[i] <= at[m]
    BY <2>1, <2>2
  <2>4. \A i \in 1 .. m : at[i] \in Nat /\ at[i - 1] \in Nat
    BY <1>10, <2>1
  <2> QED BY <1>10, <2>3, <2>4
<1> HIDE DEF asks
<1>12. ASSUME NEW i \in 1 .. m, NEW k, k = at[i - 1] + 1
       PROVE  k \in asks /\ Shows(lines, k, i, parts[i])
  <2>1. k \in asks
    BY <1>8, <1>9, <1>12
  <2>2. Cardinality({h \in asks : h <= k}) = i
    <3> DEFINE o == [a \in 1 .. m |-> at[a - 1] + 1]
    <3>1. o \in [1 .. m -> Nat]
      BY <1>11
    <3>2. \A a, b \in 1 .. m : a < b => o[a] < o[b]
      BY <1>8
    <3>3. asks = {o[a] : a \in 1 .. m} /\ k = o[i]
      BY <1>8, <1>9, <1>12
    <3> HIDE DEF o
    <3>4. Cardinality({h \in {o[a] : a \in 1 .. m} : h <= o[i]}) = i
      BY <1>1, <3>1, <3>2, PlacesUpTo
    <3> QED BY <3>3, <3>4
  <2> DEFINE x == at[i - 1]
             y == size[i]
             z == at[i]
             w == Len(all)
  <2>3. x \in Nat /\ y \in Nat /\ z \in Nat /\ w \in Nat /\ z = x + y /\ z <= w /\ y >= 1 /\ k = x + 1
        /\ w <= n
    <3>1. w \in Nat
      BY <1>7
    <3> QED BY <1>0, <1>5, <1>10, <1>11, <1>12, <3>1
  <2>4. \A q \in 1 .. y : all[x + q] = parts[i][q]
    BY <1>10
  <2>5. \A q \in 1 .. w : lines[q] = all[q]
    BY <1>0
  <2>6. y = Len(parts[i])
    BY <1>5
  <2>7. \A j \in 1 .. w : (j > k /\ (\A h \in asks : h <= k \/ h > j)) <=> \E q \in 2 .. y : j = x + q
    <3> SUFFICES ASSUME NEW j \in 1 .. at[m]
                 PROVE  (j > k /\ (\A h \in asks : h <= k \/ h > j)) <=> \E q \in 2 .. y : j = x + q
      BY <1>10
    <3>1. at \in [0 .. m -> Nat] /\ at[0] = 0
      BY <1>10
    <3>2. \A a \in 1 .. m : at[a] = at[a - 1] + size[a] /\ size[a] >= 1
      BY <1>5, <1>10
    <3>3. size \in [1 .. m -> Nat]
      BY <1>5
    <3>4. j > at[i - 1] + 1 /\ (\A a \in 1 .. m : at[a - 1] + 1 <= at[i - 1] + 1 \/ at[a - 1] + 1 > j)
            <=> \E q \in 2 .. size[i] : j = at[i - 1] + q
      <4>1. m \in Nat
        BY <1>1
      <4> QED BY <3>1, <3>2, <3>3, <4>1, WithinBlock
    <3>5. (\A h \in asks : h <= k \/ h > j) <=> \A a \in 1 .. m : at[a - 1] + 1 <= k \/ at[a - 1] + 1 > j
      BY <1>8, <1>9
    <3> QED BY <1>12, <3>4, <3>5
  <2>8. parts[i][1][1] = "question"
    BY <1>3, <2>3, <2>6
  <2>9. \A j \in 1 .. n : j > w => lines[j][1] = "further"
    BY <1>0
  <2> HIDE DEF x, y, z, w
  <2>10. lines[k] = parts[i][1]
    <3>1. 1 \in 1 .. y /\ x + 1 \in 1 .. w
      BY <2>3
    <3> QED BY <2>3, <2>4, <2>5, <3>1
  <2> DEFINE U == {j \in 1 .. y : parts[i][j][1] = "option"}
  <2>11. Under(lines, k) = {x + q : q \in U}
    <3>1. Under(lines, k) = {j \in 1 .. n : j > k /\ lines[j][1] = "option" /\ \A h \in asks : h <= k \/ h > j}
      BY <1>0 DEF Under, asks
    <3>2. ASSUME NEW j \in 1 .. n, j > k, lines[j][1] = "option", \A h \in asks : h <= k \/ h > j
          PROVE  \E q \in U : j = x + q
      <4>1. j \in 1 .. w
        <5>1. ~ (j > w)
          BY <2>9, <3>2
        <5> QED BY <2>3, <5>1
      <4>2. PICK q \in 2 .. y : j = x + q
        BY <2>7, <3>2, <4>1
      <4>3. q \in 1 .. y
        BY <2>3
      <4>4. lines[j] = all[j] /\ all[x + q] = parts[i][q]
        BY <2>4, <2>5, <4>1, <4>3
      <4> QED BY <3>2, <4>2, <4>3, <4>4
    <3>3. ASSUME NEW q \in U
          PROVE  /\ x + q \in 1 .. n /\ x + q > k /\ lines[x + q][1] = "option"
                 /\ \A h \in asks : h <= k \/ h > x + q
      <4>1. q \in 1 .. y /\ q # 1
        BY <2>8
      <4>2. q \in 2 .. y /\ x + q \in 1 .. w /\ x + q \in 1 .. n
        BY <2>3, <4>1
      <4>3. lines[x + q] = parts[i][q]
        BY <2>4, <2>5, <4>1, <4>2
      <4> QED BY <2>7, <4>2, <4>3
    <3> HIDE DEF U
    <3>4. \A j \in Under(lines, k) : j \in {x + q : q \in U}
      BY <3>1, <3>2
    <3>5. \A j \in {x + q : q \in U} : j \in Under(lines, k)
      BY <3>1, <3>3
    <3> QED BY <3>4, <3>5
  <2>12. U \in SUBSET (1 .. y)
    OBVIOUS
  <2> HIDE DEF U
  <2>13. Cardinality({x + q : q \in U}) = Cardinality(U)
    BY <2>3, <2>12, ShiftedAreCounted
  <2>14. Cardinality(Under(lines, k)) = Cardinality({j \in 1 .. Len(parts[i]) : parts[i][j][1] = "option"})
    BY <2>6, <2>11, <2>13 DEF U
  <2> QED BY <2>1, <2>2, <2>10, <2>14 DEF Shows, asks
<1>13. \A k \in asks : \E i \in 1 .. m : k = at[i - 1] + 1
  BY <1>8, <1>9
<1>14. Cardinality(asks) = m
  BY <1>7, <1>9
<1>15. \A k \in asks : \E i \in 1 .. m : Shows(lines, k, i, parts[i])
  BY <1>12, <1>13
<1> QED BY <1>14, <1>15 DEF asks, m

\* What the lines of a mail show of the questions, each once and with its own options,
\* and admit of those that were dropped.
ShowsItems(lines, items, dropped) ==
  /\ Cardinality(AskedIn(lines)) = Len(items)
  /\ items # <<>> => dropped = IF Last(lines)[1] = "further" THEN Last(lines)[2] ELSE 0
  /\ \A k \in AskedIn(lines) : \E i \in 1 .. Len(items) :
       /\ Cardinality({h \in AskedIn(lines) : h <= k}) = i
       /\ lines[k][3] = items[i].question /\ Cardinality(Under(lines, k)) = Len(items[i].options)

\* The lines of a mail about a call say that.
LEMMA QuestionLinesAre ==
  ASSUME NEW W, NEW items \in Seq(W), NEW dropped \in Nat,
         \A i \in 1 .. Len(items) : items[i].options \in Seq(ToSet(items[i].options))
  PROVE  ShowsItems(M!QuestionLines(items, dropped), items, dropped)
<1> DEFINE m == Len(items)
           part(i) == M!ItemLines(items, i)
           parts == [i \in 1 .. m |-> part(i)]
           all == FlattenSeq(parts)
           further == <<"further", dropped>>
           lines == M!QuestionLines(items, dropped)
<1>1. m \in Nat /\ DOMAIN items = 1 .. m
  OBVIOUS
<1>2. lines = all \o M!Part(dropped > 0, further)
  BY <1>1, MFlattenIs DEF M!QuestionLines
<1>3. further[1] = "further" /\ further[2] = dropped
  OBVIOUS
<1>4. ASSUME NEW i \in 1 .. m
      PROVE  /\ part(i) \in Seq(ToSet(part(i))) /\ Len(part(i)) >= 1
             /\ part(i)[1][1] = "question" /\ part(i)[1][3] = items[i].question
             /\ \A j \in 2 .. Len(part(i)) :
                  part(i)[j][1] \in {"header", "select-one-or-more", "option", "description"}
             /\ Cardinality({j \in 1 .. Len(part(i)) : part(i)[j][1] = "option"}) = Len(items[i].options)
  <2>1. items[i].options \in Seq(ToSet(items[i].options))
    OBVIOUS
  <2> QED BY <2>1, ItemLinesAre
<1>5. parts = [i \in 1 .. m |-> parts[i]] /\ \A i \in 1 .. m : parts[i] = part(i)
  OBVIOUS
<1>6. m = 0 <=> items = <<>>
  OBVIOUS
<1> HIDE DEF m, part, parts, further, lines, all
<1>7. PICK T : /\ parts \in Seq(Seq(T)) /\ Len(parts) = m
               /\ \A l \in T : \E k \in 1 .. m : l \in ToSet(parts[k])
  <2>1. \A k \in 1 .. m : parts[k] \in Seq(ToSet(parts[k]))
    BY <1>4, <1>5
  <2>2. parts = [i \in 1 .. m |-> parts[i]]
    BY <1>5
  <2> QED BY <1>1, <2>1, <2>2, SideBySide
<1>8. \A l \in T : l[1] # "further"
  <2> SUFFICES ASSUME NEW l \in T
               PROVE  l[1] # "further"
    OBVIOUS
  <2>1. PICK i \in 1 .. m : l \in ToSet(parts[i])
    BY <1>7
  <2>2. PICK j \in 1 .. Len(part(i)) : l = part(i)[j]
    <3>1. part(i) \in Seq(ToSet(part(i)))
      BY <1>4
    <3>2. l \in ToSet(part(i))
      BY <1>5, <2>1
    <3> QED BY <3>1, <3>2, OfItsOwn
  <2>3. j = 1 \/ j \in 2 .. Len(part(i))
    BY <1>4
  <2> QED BY <1>4, <2>2, <2>3
<1>9. all \in Seq(T)
  BY <1>7, FlattenIs DEF all
<1> DEFINE T2 == T \cup {further}
<1>10. all \in Seq(T2) /\ further \in T2
  <2>1. T \subseteq T2
    OBVIOUS
  <2>2. \A A1, B1 : A1 \subseteq B1 => Seq(A1) \subseteq Seq(B1)
    OBVIOUS
  <2>3. further \in T2
    OBVIOUS
  <2> HIDE DEF T2
  <2> QED BY <1>9, <2>1, <2>2, <2>3
<1> HIDE DEF T2
<1>11. lines \in Seq(T2) /\ Adds(lines, all, further, dropped > 0)
  <2>1. all \in Seq(T2)
    BY <1>10
  <2>2. further \in T2
    BY <1>10
  <2> QED BY <1>2, <2>1, <2>2, AddedPart
<1> DEFINE n == Len(lines)
<1>12. /\ n \in Nat /\ DOMAIN lines = 1 .. n /\ Len(all) \in Nat
       /\ dropped > 0 => n = Len(all) + 1 /\ lines[n] = further
       /\ dropped = 0 => n = Len(all)
       /\ \A j \in 1 .. Len(all) : lines[j] = all[j]
  BY <1>11 DEF Adds
<1>13. Last(lines) = lines[n]
  BY DEF Last
<1> HIDE DEF n
<1>14. Blocks(lines, n, all, parts)
  <2>1. \A j \in 1 .. n : j > Len(all) => lines[j][1] = "further"
    <3> SUFFICES ASSUME NEW j \in 1 .. n, j > Len(all)
                 PROVE  lines[j][1] = "further"
      OBVIOUS
    <3>1. dropped > 0 /\ j = n
      BY <1>12
    <3> QED BY <1>3, <1>12, <3>1
  <2>2. Len(all) <= n
    BY <1>12
  <2>3. ASSUME NEW i \in 1 .. m
        PROVE  /\ Len(parts[i]) >= 1
               /\ \A j \in 1 .. Len(parts[i]) : parts[i][j][1] = "question" <=> j = 1
    <3>1. \A j \in 1 .. Len(part(i)) : j = 1 \/ j \in 2 .. Len(part(i))
      BY <1>4
    <3> QED BY <1>4, <1>5, <3>1
  <2> QED BY <1>7, <1>12, <2>1, <2>2, <2>3 DEF Blocks
<1>15. /\ Cardinality(AskedIn(lines)) = Len(parts)
       /\ \A k \in AskedIn(lines) : \E i \in 1 .. Len(parts) : Shows(lines, k, i, parts[i])
  <2>1. parts \in Seq(Seq(T))
    BY <1>7
  <2>2. n \in Nat
    BY <1>12
  <2> QED BY <1>14, <2>1, <2>2, BlocksAreAsked DEF all
<1>16. \A k \in AskedIn(lines) : \E i \in 1 .. m :
         /\ Cardinality({h \in AskedIn(lines) : h <= k}) = i
         /\ lines[k][3] = items[i].question /\ Cardinality(Under(lines, k)) = Len(items[i].options)
  <2> SUFFICES ASSUME NEW k \in AskedIn(lines)
               PROVE  \E i \in 1 .. m :
                        /\ Cardinality({h \in AskedIn(lines) : h <= k}) = i
                        /\ lines[k][3] = items[i].question /\ Cardinality(Under(lines, k)) = Len(items[i].options)
    OBVIOUS
  <2>1. PICK i \in 1 .. m : Shows(lines, k, i, parts[i])
    BY <1>7, <1>15
  <2>2. /\ Cardinality({h \in AskedIn(lines) : h <= k}) = i /\ lines[k] = part(i)[1]
        /\ Cardinality(Under(lines, k)) = Cardinality({j \in 1 .. Len(part(i)) : part(i)[j][1] = "option"})
    BY <1>5, <2>1 DEF Shows
  <2>3. lines[k][3] = items[i].question
    BY <1>4, <2>2
  <2>4. Cardinality(Under(lines, k)) = Len(items[i].options)
    BY <1>4, <2>2
  <2> QED BY <2>2, <2>3, <2>4
<1>17. m > 0 => dropped = IF Last(lines)[1] = "further" THEN Last(lines)[2] ELSE 0
  <2>1. CASE dropped > 0
    BY <1>3, <1>12, <1>13, <2>1
  <2>2. ASSUME dropped = 0, m > 0
        PROVE  Last(lines)[1] # "further"
    <3>1. AskedIn(lines) # {}
      <4>1. Cardinality(AskedIn(lines)) = m
        BY <1>7, <1>15
      <4>2. m # 0
        BY <2>2
      <4>3. Cardinality({}) = 0
        BY FS_EmptySet
      <4> HIDE DEF lines
      <4> QED BY <4>1, <4>2, <4>3
    <3>2. n \in 1 .. n /\ n = Len(all)
      <4>1. PICK k : k \in AskedIn(lines)
        BY <3>1
      <4>2. k \in 1 .. n
        BY <1>12, <4>1 DEF AskedIn
      <4> QED BY <1>12, <2>2, <4>2
    <3>3. all[n] \in T /\ lines[n] = all[n]
      BY <1>9, <1>12, <3>2
    <3> QED BY <1>8, <1>13, <3>3
  <2> QED BY <2>1, <2>2
<1>18. Cardinality(AskedIn(lines)) = m
  BY <1>7, <1>15
<1>19. items # <<>> => m > 0
  BY <1>1, <1>6
<1> QED BY <1>16, <1>17, <1>18, <1>19 DEF ShowsItems, lines, m

\* The options of a question are a sequence.
LEMMA OptionsAre ==
  ASSUME NEW raw, IsList(raw)
  PROVE  ParseOptions(raw) \in Seq(ToSet(ParseOptions(raw)))
<1> DEFINE list == raw[2]
           n == IF Len(list) < MaxOptions THEN Len(list) ELSE MaxOptions
           seen == SubSeq(list, 1, n)
           usable == Among(seen, {option \in ToSet(seen) : UsableOption(option)})
           T == ToSet(list)
<1>1. CASE raw[1] # "list"
  <2>1. ParseOptions(raw) = <<>>
    BY <1>1 DEF ParseOptions
  <2> QED BY <2>1
<1>2. CASE raw[1] = "list"
  <2>1. list \in Seq(T)
    BY <1>2 DEF IsList, A!AsSeq, A!ToSet, ToSet
  <2>2. MaxOptions \in Nat
    BY ParserAssumption
  <2>3. ParseOptions(raw) = [i \in DOMAIN usable |-> ParseOption(usable[i])]
    BY <1>2 DEF ParseOptions
  <2> HIDE DEF list, T
  <2>4. Len(list) \in Nat /\ n \in 0 .. Len(list)
    BY <2>1, <2>2
  <2>5. seen \in Seq(T)
    BY <2>1, <2>4
  <2> HIDE DEF seen
  <2>6. \E S : usable \in Seq(S)
    BY <2>5, AmongIs
  <2> HIDE DEF usable
  <2>7. Len(usable) \in Nat /\ DOMAIN usable = 1 .. Len(usable)
    BY <2>6
  <2> DEFINE m == Len(usable)
             o == [i \in 1 .. m |-> ParseOption(usable[i])]
             W == {o[i] : i \in 1 .. m}
  <2>8. o \in Seq(W)
    <3>1. \A i \in 1 .. m : o[i] \in W
      OBVIOUS
    <3>2. o = [i \in 1 .. m |-> o[i]] /\ m \in Nat
      BY <2>7
    <3> HIDE DEF o, W, m
    <3> QED BY <3>1, <3>2
  <2>9. ParseOptions(raw) = o
    BY <2>3, <2>7
  <2> HIDE DEF o, W
  <2> QED BY <2>8, <2>9, OfItsOwn
<1> QED BY <1>1, <1>2

\* A budget that is overrun was first met: the first question that costs anything fits.
LEMMA FirstFits ==
  ASSUME NEW T, NEW raw \in Seq(T), Priced(raw), NEW n \in 0 .. Len(raw),
         NEW i \in 1 .. n, SpentUpTo(raw)[i] > MaxTotalChars
  PROVE  \E k \in UsableUpTo(raw, n) : SpentUpTo(raw)[k] <= MaxTotalChars
<1> DEFINE spent == SpentUpTo(raw)
           S == {j \in 1 .. n : spent[j] # 0}
<1>1. /\ spent[0] = 0 /\ \A j \in 0 .. Len(raw) : spent[j] \in Nat
      /\ \A j \in 1 .. Len(raw) :
           spent[j] = spent[j - 1] + IF Usable(raw[j]) THEN Cost(ParseQuestion(raw[j])) ELSE 0
  BY SpentIs
<1>2. MaxTotalChars \in Nat /\ Len(raw) \in Nat
  BY ParserAssumption
<1>3. spent[i] > MaxTotalChars
  OBVIOUS
<1> HIDE DEF spent
<1>4. i \in S
  BY <1>1, <1>2, <1>3
<1>5. S \in SUBSET Nat /\ S # {}
  BY <1>2, <1>4
<1>6. PICK k \in S : \A j \in S : k <= j
  BY <1>5, LeastElement
<1>7. k \in 1 .. n /\ k \in 1 .. Len(raw) /\ k - 1 \in 0 .. Len(raw)
  BY <1>2
<1>8. spent[k - 1] = 0
  <2>1. CASE k = 1
    BY <1>1, <2>1
  <2>2. CASE k > 1
    <3>1. k - 1 \in 1 .. n /\ k - 1 < k
      BY <1>2, <1>7, <2>2
    <3>2. k - 1 \notin S
      BY <1>6, <1>7, <3>1
    <3> QED BY <3>1, <3>2
  <2> QED BY <1>7, <2>1, <2>2
<1> DEFINE c == Cost(ParseQuestion(raw[k]))
<1>9. spent[k] = 0 + IF Usable(raw[k]) THEN c ELSE 0
  BY <1>1, <1>7, <1>8
<1>10. Usable(raw[k]) => c \in 0 .. MaxTotalChars
  BY <1>7 DEF Priced
<1>11. spent[k] # 0
  OBVIOUS
<1> HIDE DEF c
<1>12. Usable(raw[k]) /\ spent[k] <= MaxTotalChars
  BY <1>2, <1>9, <1>10, <1>11
<1> QED BY <1>7, <1>12 DEF UsableUpTo, spent

\* The reason that is given is true, and it is never the budget.
LEMMA ReasonIsTrue ==
  ASSUME NEW T, NEW raw \in Seq(T), Priced(raw), NEW acc, NEW n,
         n = IF Len(raw) < MaxQuestions THEN Len(raw) ELSE MaxQuestions,
         TookRightly(acc, raw, n)
  PROVE  /\ ToSet(acc.carried) = {i \in UsableUpTo(raw, Len(raw)) : i <= MaxQuestions /\ SpentUpTo(raw)[i] <= MaxTotalChars}
         /\ DropReason(raw, acc) \in {"none", "question-limit", "no-usable-question"}
         /\ DropReason(raw, acc) = "none" <=> ToSet(acc.carried) # {}
         /\ DropReason(raw, acc) = "question-limit" => Len(raw) > MaxQuestions
         /\ DropReason(raw, acc) = "no-usable-question" => UsableUpTo(raw, Len(raw)) = {}
<1> DEFINE spent == SpentUpTo(raw)
           carried == acc.carried
           usable == UsableUpTo(raw, n)
           m == Len(raw)
<1>1. /\ carried \in Seq(Nat) /\ ToSet(carried) = {i \in usable : spent[i] <= MaxTotalChars}
      /\ acc.truncatedBySize <=> \E i \in usable : spent[i] > MaxTotalChars
  BY DEF TookRightly
<1>2. /\ m \in Nat /\ MaxQuestions \in Nat /\ n \in 0 .. m /\ n <= MaxQuestions
      /\ n = IF m < MaxQuestions THEN m ELSE MaxQuestions
  BY ParserAssumption
<1>3. ToSet(carried) = {} <=> carried = <<>>
  <2>1. carried \in Seq(Nat)
    BY <1>1
  <2>2. ToSet(carried) = {carried[j] : j \in 1 .. Len(carried)}
    BY <2>1 DEF ToSet
  <2> HIDE DEF carried
  <2>3. carried = <<>> <=> Len(carried) = 0
    BY <2>1
  <2>4. Len(carried) # 0 => 1 \in 1 .. Len(carried)
    BY <2>1
  <2>5. Len(carried) = 0 => ToSet(carried) = {}
    BY <2>2
  <2>6. Len(carried) # 0 => carried[1] \in ToSet(carried)
    BY <2>2, <2>4
  <2> QED BY <2>3, <2>5, <2>6
<1>4. acc.truncatedBySize => carried # <<>>
  <2> SUFFICES ASSUME acc.truncatedBySize
               PROVE  carried # <<>>
    OBVIOUS
  <2>1. PICK i \in usable : spent[i] > MaxTotalChars
    BY <1>1
  <2>2. i \in 1 .. n
    BY DEF UsableUpTo
  <2>3. \E k \in usable : spent[k] <= MaxTotalChars
    BY <1>2, <2>1, <2>2, FirstFits
  <2> QED BY <1>1, <1>3, <2>3
<1>5. UsableUpTo(raw, m) = {i \in 1 .. m : Usable(raw[i])} /\ usable = {i \in 1 .. n : Usable(raw[i])}
  BY DEF UsableUpTo
<1>6. \A j \in 0 .. m : spent[j] \in Nat
  BY SpentIs
<1>7. MaxTotalChars \in Nat
  BY ParserAssumption
<1>8. DropReason(raw, acc) =
        IF carried # <<>> THEN "none" ELSE IF m > MaxQuestions THEN "question-limit"
        ELSE IF acc.truncatedBySize THEN "content-limit" ELSE "no-usable-question"
  BY DEF DropReason
<1> DEFINE all == UsableUpTo(raw, m)
<1> HIDE DEF spent, carried, usable, m, all
<1>9. ToSet(carried) = {i \in all : i <= MaxQuestions /\ spent[i] <= MaxTotalChars}
  <2>1. \A i : i \in usable <=> i \in all /\ i <= MaxQuestions
    BY <1>2, <1>5 DEF all
  <2> QED BY <1>1, <2>1
<1>10. carried = <<>> /\ m <= MaxQuestions => all = {}
  <2> SUFFICES ASSUME carried = <<>>, m <= MaxQuestions, NEW i \in all
               PROVE  FALSE
    OBVIOUS
  <2>1. n = m
    BY <1>2
  <2>2. i \in usable /\ i \in 0 .. m
    BY <1>2, <1>5, <2>1 DEF all
  <2>3. ~ (spent[i] <= MaxTotalChars)
    BY <1>1, <1>3, <2>2
  <2>4. spent[i] > MaxTotalChars
    BY <1>6, <1>7, <2>2, <2>3
  <2> QED BY <1>1, <1>4, <2>2, <2>4
<1>11. ~ (m > MaxQuestions) => m <= MaxQuestions
  BY <1>2
<1>12. DropReason(raw, acc) = "none" <=> carried # <<>>
  BY <1>8
<1>13. DropReason(raw, acc) = "question-limit" => m > MaxQuestions
  BY <1>8
<1>14. DropReason(raw, acc) = "no-usable-question" => carried = <<>> /\ ~ (m > MaxQuestions)
  BY <1>8
<1>15. DropReason(raw, acc) \in {"none", "question-limit", "no-usable-question"}
  BY <1>4, <1>8
<1>16. DropReason(raw, acc) = "no-usable-question" => all = {}
  BY <1>10, <1>11, <1>14
<1>17. DropReason(raw, acc) = "none" <=> ToSet(carried) # {}
  BY <1>3, <1>12
<1> QED BY <1>9, <1>13, <1>15, <1>16, <1>17 DEF spent, carried, m, all

\* What the questions of a call must be for the results below.
IsAsked(raw) ==
  /\ raw \in Seq(ToSet(raw))
  /\ \A q \in ToSet(raw) : q[1] = "record" =>
       /\ \A v \in {q[2].id, q[2].question} : v[1] = "text" => v[2] \in Nat
       /\ IsList(q[2].options)

\* The questions that are carried, in the order of their positions.
Picked(raw, carried) == [i \in DOMAIN carried |-> ParseQuestion(raw[carried[i]])]

\* A usable question costs something natural, and one always fits the budget.
LEMMA AskedIsPriced ==
  ASSUME NEW raw, IsAsked(raw)
  PROVE  Priced(raw)
<1> SUFFICES ASSUME NEW i \in 1 .. Len(raw), Usable(raw[i])
             PROVE  Cost(ParseQuestion(raw[i])) \in 0 .. MaxTotalChars
  BY DEF Priced
<1> DEFINE q == raw[i]
<1>1. q \in ToSet(raw)
  BY DEF ToSet, IsAsked
<1>2. q[1] = "record"
  BY DEF Usable
<1>3. \A v \in {q[2].id, q[2].question} : v[1] = "text" => v[2] \in Nat
  BY <1>1, <1>2 DEF IsAsked
<1>4. Usable(q)
  OBVIOUS
<1> HIDE DEF q
<1> QED BY <1>3, <1>4, CostIs DEF q

\* The carried questions are as many as their positions, which are some of all, and
\* each has a sequence of options.
LEMMA PickedAre ==
  ASSUME NEW raw, IsAsked(raw), NEW c \in Seq(Nat), ToSet(c) \subseteq UsableUpTo(raw, Len(raw)),
         \A i, j \in 1 .. Len(c) : i < j => c[i] < c[j]
  PROVE  /\ Len(raw) - Len(c) \in Nat
         /\ \E W : Picked(raw, c) \in Seq(W)
         /\ Len(Picked(raw, c)) = Len(c)
         /\ \A i \in 1 .. Len(c) :
              /\ Picked(raw, c)[i] = ParseQuestion(raw[c[i]])
              /\ Picked(raw, c)[i].options \in Seq(ToSet(Picked(raw, c)[i].options))
<1> DEFINE m == Len(c)
           items == Picked(raw, c)
           p(i) == ParseQuestion(raw[c[i]])
           W == {p(i) : i \in 1 .. m}
<1>1. m \in Nat /\ DOMAIN c = 1 .. m /\ Len(raw) \in Nat /\ \A i \in 1 .. m : c[i] \in Nat
  BY DEF IsAsked
<1>2. ToSet(c) = {c[i] : i \in 1 .. m}
  BY DEF ToSet
<1>3. \A i \in 1 .. m : c[i] \in 1 .. Len(raw) /\ Usable(raw[c[i]])
  BY <1>2 DEF UsableUpTo
<1>4. Cardinality({c[i] : i \in 1 .. m}) = m
  <2>1. \A i, j \in 1 .. m : c[i] = c[j] => i = j
    BY <1>1
  <2> HIDE DEF m
  <2> QED BY <1>1, <2>1, DistinctAreCounted
<1>5. m <= Len(raw)
  <2> DEFINE S == {c[i] : i \in 1 .. m}
             n == Len(raw)
  <2>1. S \subseteq 1 .. n
    BY <1>3
  <2>2. n \in Nat /\ Cardinality(S) = m
    BY <1>1, <1>4
  <2> HIDE DEF S, n, m
  <2>3. IsFiniteSet(1 .. n) /\ Cardinality(1 .. n) = n
    BY <2>2, FS_Interval
  <2>4. Cardinality(S) <= Cardinality(1 .. n)
    BY <2>1, <2>3, FS_Subset
  <2> QED BY <2>2, <2>3, <2>4 DEF n
<1>6. Len(raw) - m \in Nat
  BY <1>1, <1>5
<1>7. items = [i \in 1 .. m |-> p(i)]
  BY <1>1 DEF Picked
<1>8. items \in Seq(W) /\ Len(items) = m /\ \A i \in 1 .. m : items[i] = p(i)
  <2>1. \A i \in 1 .. m : p(i) \in W
    OBVIOUS
  <2> HIDE DEF items, W, p, m
  <2> QED BY <1>1, <1>7, <2>1
<1>9. ASSUME NEW i \in 1 .. m
      PROVE  p(i).options \in Seq(ToSet(p(i).options))
  <2> DEFINE q == raw[c[i]]
             list == q[2].options
  <2>1. q \in ToSet(raw) /\ q[1] = "record"
    BY <1>3 DEF ToSet, IsAsked, Usable
  <2>2. IsList(list)
    BY <2>1 DEF IsAsked
  <2>3. p(i).options = ParseOptions(list)
    BY DEF ParseQuestion
  <2> HIDE DEF list
  <2> QED BY <2>2, <2>3, OptionsAre
<1> HIDE DEF items, p, W
<1> QED BY <1>6, <1>8, <1>9 DEF items, p

\* A flag that is shown was set, in one spelling or the other.
LEMMA FlagWasSet ==
  ASSUME NEW r, MultiSelect(r)
  PROVE  \E field \in {"multi_select", "multiSelect"} : r[field] = <<"flag", TRUE>>
<1>1. r.multiSelect = <<"flag", TRUE>> \/ r.multi_select = <<"flag", TRUE>>
  BY DEF MultiSelect
<1> QED BY <1>1

\* The result of parsing a call that asks something.
ParsedOf(raw) ==
  LET acc == TakeAll(raw)
      items == Picked(raw, acc.carried)
      withOptions == {i \in DOMAIN items : items[i].options # <<>>}
  IN  [questions |-> items, carried |-> acc.carried, dropped |-> Len(raw) - Len(acc.carried),
       sawOptions |-> withOptions # {}, sawMultiSelect |-> \E i \in withOptions : items[i].multiSelect,
       dropReason |-> DropReason(raw, acc)]

\* So it is parsed.
LEMMA ParsedIs ==
  ASSUME NEW c, NEW raw, ReadArguments(c)[1] = "record", raw # <<>>,
         ReadArguments(c)[2].questions = <<"list", raw>>
  PROVE  ParseQuestions(c) = ParsedOf(raw)
<1> DEFINE value == ReadArguments(c)
           questions == value[2].questions
<1>1. value[1] = "record" /\ questions = <<"list", raw>>
  OBVIOUS
<1> HIDE DEF value
<1>2. questions[1] = "list" /\ questions[2] = raw
  BY <1>1
<1>3. questions # <<"list", <<>>>>
  BY <1>2
<1>4. ~ (questions[1] # "list" \/ questions = <<"list", <<>>>>)
  BY <1>2, <1>3
<1> DEFINE f(v) == IF v[1] # "record" THEN Nothing("unreadable-arguments")
                   ELSE IF v[2].questions[1] # "list" \/ v[2].questions = <<"list", <<>>>>
                   THEN Nothing("no-questions") ELSE ParsedOf(v[2].questions[2])
<1>5. ParseQuestions(c) = f(value)
  BY DEF ParseQuestions, ParsedOf, Picked, value
<1>6. f(value) = ParsedOf(questions[2])
  BY <1>1, <1>4
<1> QED BY <1>2, <1>5, <1>6

\* What the property says of the result of a call and of the lines of its mail.
CarriesWhatFits(raw, result, lines) ==
  LET usable == {i \in 1 .. Len(raw) : Usable(raw[i])}
      fits == {i \in usable : i <= MaxQuestions /\ SpentUpTo(raw)[i] <= MaxTotalChars}
      asks == {k \in DOMAIN lines : lines[k][1] = "question"}
      under(k) == {j \in DOMAIN lines : j > k /\ lines[j][1] = "option"
                                        /\ \A h \in asks : h <= k \/ h > j}
  IN  /\ ToSet(result.carried) = fits
      /\ \A i, j \in 1 .. Len(result.carried) : i < j => result.carried[i] < result.carried[j]
      /\ result.sawMultiSelect =>
           \E i \in fits : \E field \in {"multi_select", "multiSelect"} : raw[i][2][field] = <<"flag", TRUE>>
      /\ result.dropReason = "none" <=> fits # {}
      /\ result.dropReason = "no-questions" <=> raw = <<>>
      /\ result.dropReason = "question-limit" => Len(raw) > MaxQuestions
      /\ result.dropReason = "no-usable-question" => usable = {}
      /\ result.dropReason # "content-limit"
      /\ fits # {} =>
           /\ Len(raw) = Cardinality(asks)
                          + IF Last(lines)[1] = "further" THEN Last(lines)[2] ELSE 0
           /\ \A k \in asks, n \in DOMAIN result.questions :
                Cardinality({h \in asks : h <= k}) = n =>
                  /\ lines[k][3] = result.questions[n].question
                  /\ Cardinality(under(k)) = Len(result.questions[n].options)

\* A call that asks something carries what fits.
LEMMA AskedIsCarried ==
  ASSUME NEW raw, IsAsked(raw), raw # <<>>
  PROVE  LET result == ParsedOf(raw)
         IN  CarriesWhatFits(raw, result, M!QuestionLines(result.questions, result.dropped))
<1> DEFINE acc == TakeAll(raw)
           carried == acc.carried
           n == IF Len(raw) < MaxQuestions THEN Len(raw) ELSE MaxQuestions
           usable == UsableUpTo(raw, Len(raw))
           fits == {i \in usable : i <= MaxQuestions /\ SpentUpTo(raw)[i] <= MaxTotalChars}
           items == Picked(raw, carried)
           dropped == Len(raw) - Len(carried)
           reason == DropReason(raw, acc)
           lines == M!QuestionLines(items, dropped)
           result == ParsedOf(raw)
<1>1. raw \in Seq(ToSet(raw))
  BY DEF IsAsked
<1>2. Priced(raw)
  BY AskedIsPriced
<1>3. TookRightly(acc, raw, n)
  BY <1>1, <1>2, TakeAllIsRight
<1>4. carried \in Seq(Nat) /\ \A i, j \in 1 .. Len(carried) : i < j => carried[i] < carried[j]
  BY <1>3 DEF TookRightly
<1>5. n = IF Len(raw) < MaxQuestions THEN Len(raw) ELSE MaxQuestions
  OBVIOUS
<1> HIDE DEF n, acc
<1>6. /\ ToSet(carried) = fits
      /\ reason \in {"none", "question-limit", "no-usable-question"}
      /\ reason = "none" <=> fits # {}
      /\ reason = "question-limit" => Len(raw) > MaxQuestions
      /\ reason = "no-usable-question" => usable = {}
  BY <1>1, <1>2, <1>3, <1>5, ReasonIsTrue
<1>7. result.questions = items /\ result.carried = carried /\ result.dropped = dropped
      /\ result.dropReason = reason
      /\ result.sawMultiSelect = \E i \in {h \in DOMAIN items : items[h].options # <<>>} : items[i].multiSelect
  BY DEF ParsedOf, acc
<1>8. fits \subseteq usable
  OBVIOUS
<1> HIDE DEF carried, fits, usable, reason
<1>9. /\ dropped \in Nat /\ \E W : items \in Seq(W)
      /\ Len(items) = Len(carried)
      /\ \A i \in 1 .. Len(carried) : items[i].options \in Seq(ToSet(items[i].options))
  BY <1>4, <1>6, <1>8, PickedAre DEF usable
<1>10. DOMAIN items = DOMAIN carried /\ DOMAIN carried = 1 .. Len(carried)
  BY <1>4 DEF Picked
<1>11. \A i \in DOMAIN carried : carried[i] \in fits
  BY <1>6, <1>10 DEF ToSet
<1>12. ASSUME NEW i \in DOMAIN items, items[i].multiSelect
       PROVE  \E k \in fits : \E field \in {"multi_select", "multiSelect"} : raw[k][2][field] = <<"flag", TRUE>>
  <2>1. i \in DOMAIN carried
    BY <1>10
  <2>2. MultiSelect(raw[carried[i]][2])
    <3>1. items[i] = ParseQuestion(raw[carried[i]])
      BY <2>1 DEF Picked
    <3> HIDE DEF items
    <3>2. ParseQuestion(raw[carried[i]]).multiSelect = MultiSelect(raw[carried[i]][2])
      BY DEF ParseQuestion
    <3> QED BY <1>12, <3>1, <3>2
  <2>4. \E field \in {"multi_select", "multiSelect"} : raw[carried[i]][2][field] = <<"flag", TRUE>>
    <3> DEFINE r == raw[carried[i]][2]
    <3>1. MultiSelect(r)
      BY <2>2
    <3> HIDE DEF r
    <3>2. \E field \in {"multi_select", "multiSelect"} : r[field] = <<"flag", TRUE>>
      BY <3>1, FlagWasSet
    <3> QED BY <3>2 DEF r
  <2>3. carried[i] \in fits
    BY <1>11, <2>1
  <2> QED BY <2>3, <2>4
<1> HIDE DEF items
<1>13. PICK W : items \in Seq(W)
  BY <1>9
<1>14. \A i \in 1 .. Len(items) : items[i].options \in Seq(ToSet(items[i].options))
  BY <1>9
<1> DEFINE d == dropped
<1>15. d \in Nat /\ d + Len(items) = Len(raw)
  BY <1>1, <1>4, <1>9
<1> HIDE DEF d
<1>16. ShowsItems(M!QuestionLines(items, d), items, d)
  BY <1>13, <1>14, <1>15, QuestionLinesAre
<1>17. ShowsItems(lines, items, d)
  BY <1>16 DEF d
<1> HIDE DEF lines
<1>18. ASSUME fits # {}
       PROVE  Len(raw) = Cardinality(AskedIn(lines)) + IF Last(lines)[1] = "further" THEN Last(lines)[2] ELSE 0
  <2>1. \E i : i \in DOMAIN carried
    BY <1>6, <1>10, <1>18 DEF ToSet
  <2>2. items # <<>> /\ Len(items) \in Nat
    BY <1>9, <1>10, <1>13, <2>1
  <2>3. d = IF Last(lines)[1] = "further" THEN Last(lines)[2] ELSE 0
    BY <1>17, <2>2 DEF ShowsItems
  <2>4. Cardinality(AskedIn(lines)) = Len(items)
    BY <1>17 DEF ShowsItems
  <2>5. Len(raw) = Len(items) + d
    BY <1>15, <2>2
  <2> HIDE DEF lines
  <2> QED BY <2>3, <2>4, <2>5
<1>19. ASSUME NEW k \in AskedIn(lines), NEW j \in DOMAIN items,
              Cardinality({h \in AskedIn(lines) : h <= k}) = j
       PROVE  lines[k][3] = items[j].question /\ Cardinality(Under(lines, k)) = Len(items[j].options)
  <2>1. PICK i \in 1 .. Len(items) :
          /\ Cardinality({h \in AskedIn(lines) : h <= k}) = i
          /\ lines[k][3] = items[i].question /\ Cardinality(Under(lines, k)) = Len(items[i].options)
    BY <1>17 DEF ShowsItems
  <2>2. i = j
    BY <1>19, <2>1
  <2> QED BY <2>1, <2>2
<1>20. result.sawMultiSelect =>
         \E i \in fits : \E field \in {"multi_select", "multiSelect"} : raw[i][2][field] = <<"flag", TRUE>>
  BY <1>7, <1>12
<1> HIDE DEF result
<1>21. /\ result.dropReason = "none" <=> fits # {}
       /\ result.dropReason = "no-questions" <=> raw = <<>>
       /\ result.dropReason = "question-limit" => Len(raw) > MaxQuestions
       /\ result.dropReason = "no-usable-question" => usable = {}
       /\ result.dropReason # "content-limit"
  BY <1>6, <1>7
<1>22. ToSet(result.carried) = fits
       /\ \A i, j \in 1 .. Len(result.carried) : i < j => result.carried[i] < result.carried[j]
  BY <1>4, <1>6, <1>7
<1>23. lines = M!QuestionLines(result.questions, result.dropped)
  BY <1>7 DEF lines
<1> DEFINE asks == {k \in DOMAIN lines : lines[k][1] = "question"}
           under(k) == {j \in DOMAIN lines : j > k /\ lines[j][1] = "option"
                                             /\ \A h \in asks : h <= k \/ h > j}
<1>24. asks = AskedIn(lines) /\ \A k : under(k) = Under(lines, k)
  BY DEF AskedIn, Under
<1> HIDE DEF asks, under
<1>25. fits # {} =>
         Len(raw) = Cardinality(asks) + IF Last(lines)[1] = "further" THEN Last(lines)[2] ELSE 0
  BY <1>18, <1>24
<1>26. \A k \in asks, j \in DOMAIN result.questions :
         Cardinality({h \in asks : h <= k}) = j =>
           /\ lines[k][3] = result.questions[j].question
           /\ Cardinality(under(k)) = Len(result.questions[j].options)
  BY <1>7, <1>19, <1>24
<1>27. CarriesWhatFits(raw, result, lines)
  BY <1>20, <1>21, <1>22, <1>25, <1>26 DEF CarriesWhatFits, asks, under, usable, fits, UsableUpTo
<1> QED BY <1>23, <1>27 DEF result

\* A call that asks nothing carries nothing, for that reason.
LEMMA NothingIsCarried ==
  ASSUME NEW c, ReadArguments(c)[1] = "record", ReadArguments(c)[2].questions = <<"list", <<>>>>
  PROVE  \A lines : CarriesWhatFits(<<>>, ParseQuestions(c), lines)
<1> DEFINE result == ParseQuestions(c)
<1>1. result = Nothing("no-questions")
  BY DEF ParseQuestions
<1>2. result.carried = <<>> /\ result.sawMultiSelect = FALSE /\ result.dropReason = "no-questions"
  BY <1>1 DEF Nothing
<1>3. UsableUpTo(<<>>, Len(<<>>)) = {}
  BY DEF UsableUpTo
<1>4. ToSet(result.carried) = {}
  BY <1>2 DEF ToSet
<1>5. \A i, j \in 1 .. Len(result.carried) : i < j => result.carried[i] < result.carried[j]
  BY <1>2
<1> HIDE DEF result
<1> QED BY <1>2, <1>3, <1>4, <1>5 DEF CarriesWhatFits, UsableUpTo, result

\* What a mail carries of a call is decided by position and budget alone, and the mail
\* shows each carried question once and admits the rest.
THEOREM CallsAreCarriedByPosition == Spec => []CarriedIsAffordablePrefix
<1>1. ASSUME Drawn
      PROVE  CarriedIsAffordablePrefix
  <2> DEFINE value == ReadArguments(input)
             raw == value[2].questions[2]
  <2> SUFFICES ASSUME kind = "call", value[1] = "record", value[2].questions[1] = "list"
               PROVE  \A result \in {ParseQuestions(input)} :
                        \A lines \in {M!QuestionLines(result.questions, result.dropped)} :
                          CarriesWhatFits(raw, result, lines)
    BY DEF CarriedIsAffordablePrefix, CarriesWhatFits
  <2>1. input \in Calls
    BY <1>1 DEF Drawn
  <2>2. /\ value[2].questions = <<"list", raw>> /\ IsList(value[2].questions)
        /\ \A q \in ToSet(raw) : q[1] = "record" =>
             /\ \A v \in {q[2].id, q[2].question} : v[1] = "text" => v[2] \in Nat
             /\ IsList(q[2].options)
    BY <2>1, CallsAssumption
  <2>3. IsAsked(raw)
    BY <2>2 DEF IsAsked, IsList, A!AsSeq, A!ToSet, ToSet
  <2>4. CASE raw = <<>>
    BY <2>2, <2>4, NothingIsCarried
  <2>5. CASE raw # <<>>
    <3>1. ParseQuestions(input) = ParsedOf(raw)
      BY <2>2, <2>5, ParsedIs
    <3> QED BY <2>3, <2>5, <3>1, AskedIsCarried
  <2> QED BY <2>4, <2>5
<1> QED BY <1>1, InputsAreDrawn, PTL

-----------------------------------------------------------------------------
\* The text of a mail.

\* The renderer filters and measures as everyone does.
LEMMA MWithoutIs ==
  ASSUME NEW s, NEW S
  PROVE  M!Without(s, S) = Among(s, ToSet(s) \ S)
BY DEF M!Without, M!Among, M!ToSet, Among, ToSet

\* The text over the alphabet T in which no line is broken.
OneLine(T) == (T \ {"nl"}) \cup {"sp"}

\* What Flatten looks at.
Blanked(text) ==
  [i \in DOMAIN text |-> IF text[i] # "nl" THEN text[i]
                         ELSE IF i > 1 /\ text[i - 1] = "nl" THEN "joined" ELSE "sp"]

\* A text of one line holds what it held apart from blanks, and is the text if no line
\* was broken.
LEMMA FlattenedIs ==
  ASSUME NEW T, NEW text \in Seq(T), "joined" \notin T
  PROVE  /\ M!Flatten(text) \in Seq(OneLine(T))
         /\ ToSet(M!Flatten(text)) \ M!Space = ToSet(text) \ M!Space
         /\ "nl" \notin ToSet(text) => M!Flatten(text) = text
<1> DEFINE n == Len(text)
           b == Blanked(text)
           W == OneLine(T) \cup {"joined"}
           S == ToSet(b) \ {"joined"}
           flat == M!Flatten(text)
<1>1. n \in Nat /\ DOMAIN text = 1 .. n /\ \A i \in 1 .. n : text[i] \in T
  OBVIOUS
<1>2. flat = Among(b, S)
  <2>1. flat = M!Without(b, {"joined"})
    BY DEF M!Flatten, Blanked
  <2> QED BY <2>1, MWithoutIs
<1>3. /\ b = [i \in 1 .. n |-> b[i]]
      /\ \A i \in 1 .. n : b[i] = IF text[i] # "nl" THEN text[i]
                                  ELSE IF i > 1 /\ text[i - 1] = "nl" THEN "joined" ELSE "sp"
  BY <1>1 DEF Blanked
<1> HIDE DEF b, n
<1>4. \A i \in 1 .. n : b[i] \in W
  BY <1>1, <1>3 DEF OneLine
<1>5. b \in Seq(W)
  <2> HIDE DEF W
  <2> QED BY <1>1, <1>3, <1>4
<1>6. flat \in Seq(W \cap S) /\ ToSet(flat) = ToSet(b) \cap S
  <2> HIDE DEF W, S, flat
  <2> QED BY <1>2, <1>5, AmongIs
<1>7. flat \in Seq(OneLine(T))
  <2>1. W \cap S \subseteq OneLine(T)
    OBVIOUS
  <2>2. \A A1, B1 : A1 \subseteq B1 => Seq(A1) \subseteq Seq(B1)
    OBVIOUS
  <2> HIDE DEF W, S, flat
  <2> QED BY <1>6, <2>1, <2>2
<1>8. DOMAIN b = 1 .. n /\ Len(b) = n
  BY <1>1, <1>3
<1>9. ToSet(b) = {b[i] : i \in 1 .. n} /\ ToSet(text) = {text[i] : i \in 1 .. n}
  BY <1>1, <1>8 DEF ToSet
<1> HIDE DEF flat
<1>10. ToSet(flat) \ M!Space = ToSet(text) \ M!Space
  <2>1. ASSUME NEW x, x \notin M!Space
        PROVE  x \in ToSet(flat) <=> x \in ToSet(text)
    <3>1. x # "nl" /\ x # "sp"
      BY <2>1 DEF M!Space
    <3>2. x \in ToSet(flat) <=> x \in ToSet(b) /\ x # "joined"
      BY <1>6
    <3>3. ASSUME x \in ToSet(b), x # "joined"
          PROVE  x \in ToSet(text)
      <4>1. PICK i \in 1 .. n : x = b[i]
        BY <1>9, <3>3
      <4>2. x = text[i]
        BY <1>3, <3>1, <3>3, <4>1
      <4> QED BY <1>9, <4>2
    <3>4. ASSUME x \in ToSet(text)
          PROVE  x \in ToSet(b) /\ x # "joined"
      <4>1. PICK i \in 1 .. n : x = text[i]
        BY <1>9, <3>4
      <4>2. x = b[i]
        BY <1>3, <3>1, <4>1
      <4> QED BY <1>1, <1>9, <4>1, <4>2
    <3> QED BY <3>2, <3>3, <3>4
  <2> QED BY <2>1
<1>11. ASSUME "nl" \notin ToSet(text)
       PROVE  flat = text
  <2>1. \A i \in 1 .. n : text[i] # "nl"
    BY <1>9, <1>11
  <2>2. b = [i \in 1 .. n |-> text[i]]
    BY <1>3, <2>1
  <2>3. b = text
    BY <1>1, <2>2
  <2>4. ToSet(b) \subseteq S
    BY <1>1, <1>9, <2>3
  <2> HIDE DEF W, S
  <2>5. Among(b, S) = b
    BY <1>5, <2>4, AmongIs
  <2> QED BY <1>2, <2>3, <2>5
<1> QED BY <1>7, <1>10, <1>11 DEF flat

\* The least and the greatest of a set of positions are in it.
LEMMA EndsAre ==
  ASSUME NEW n \in Nat, NEW S \in SUBSET (1 .. n), S # {}
  PROVE  /\ Min(S) \in S /\ \A k \in S : Min(S) <= k
         /\ Max(S) \in S /\ \A k \in S : k <= Max(S)
         /\ M!Min(S) = Min(S) /\ M!Max(S) = Max(S)
<1>1. S \in SUBSET Nat /\ \A k \in S : k <= n
  OBVIOUS
<1>2. \E x \in S : \A y \in S : x <= y
  BY <1>1, LeastElement
<1>3. \E x \in S : \A y \in S : y <= x
  BY <1>1, GreatestElement
<1>4. \E x \in S : \A y \in S : x >= y
  BY <1>1, <1>3
<1>5. Min(S) \in S /\ \A k \in S : Min(S) <= k
  BY <1>2 DEF Min
<1>6. Max(S) \in S /\ \A k \in S : Max(S) >= k
  BY <1>4 DEF Max
<1>7. \A k \in S : k <= Max(S)
  BY <1>1, <1>6
<1>8. M!Min(S) = Min(S) /\ M!Max(S) = Max(S)
  BY DEF M!Min, M!Max, Min, Max
<1> QED BY <1>5, <1>6, <1>7, <1>8

\* A part of a text.
LEMMA PartIs ==
  ASSUME NEW T, NEW s \in Seq(T), NEW a \in 1 .. Len(s), NEW b \in 1 .. Len(s), a <= b
  PROVE  /\ SubSeq(s, a, b) \in Seq(T) /\ Len(SubSeq(s, a, b)) = b - a + 1
         /\ \A i \in 1 .. b - a + 1 : SubSeq(s, a, b)[i] = s[a + i - 1]
         /\ SubSeq(s, 1, Len(s)) = s
OBVIOUS

\* A trimmed text begins with no blank, and one that begins and ends with none stays.
LEMMA TrimmedIs ==
  ASSUME NEW T, NEW text \in Seq(T)
  PROVE  /\ M!Trim(text) \in Seq(T) /\ Len(M!Trim(text)) <= Len(text)
         /\ ToSet(text) \subseteq M!Space => M!Trim(text) = <<>>
         /\ ~ (ToSet(text) \subseteq M!Space) =>
              Len(M!Trim(text)) >= 1 /\ M!Trim(text)[1] \in ToSet(text) \ M!Space
         /\ text # <<>> /\ text[1] \notin M!Space => M!Trim(text)[1] = text[1]
         /\ ToSet(text) \cap M!Space = {} => M!Trim(text) = text
<1> DEFINE n == Len(text)
           ink == {i \in DOMAIN text : text[i] \notin M!Space}
           a == Min(ink)
           b == Max(ink)
           trim == M!Trim(text)
<1>1. n \in Nat /\ DOMAIN text = 1 .. n /\ ToSet(text) = {text[i] : i \in 1 .. n}
  BY DEF ToSet
<1>2. trim = IF ink = {} THEN <<>> ELSE SubSeq(text, M!Min(ink), M!Max(ink))
  BY DEF M!Trim
<1>3. ink = {} <=> ToSet(text) \subseteq M!Space
  BY <1>1
<1>4. ink \in SUBSET (1 .. n) /\ \A i \in ink : text[i] \in ToSet(text) \ M!Space
  BY <1>1
<1>5. \A i \in 1 .. n : text[i] \notin M!Space => i \in ink
  BY <1>1
<1> HIDE DEF trim, ink, n
<1>6. ASSUME ink # {}
      PROVE  /\ a \in 1 .. n /\ b \in 1 .. n /\ a \in ink /\ b \in ink /\ trim = SubSeq(text, a, b)
             /\ \A i \in ink : a <= i /\ i <= b
  <2>1. /\ a \in ink /\ \A k \in ink : a <= k
        /\ b \in ink /\ \A k \in ink : k <= b
        /\ M!Min(ink) = a /\ M!Max(ink) = b
    BY <1>1, <1>4, <1>6, EndsAre
  <2> HIDE DEF a, b
  <2> QED BY <1>2, <1>4, <1>6, <2>1
<1> HIDE DEF a, b
<1>7. ASSUME ink # {}
      PROVE  /\ trim \in Seq(T) /\ Len(trim) = b - a + 1 /\ Len(trim) <= n /\ Len(trim) >= 1
             /\ trim[1] = text[a]
             /\ a = 1 /\ b = n => trim = text
  <2>1. a <= b /\ a \in 1 .. Len(text) /\ b \in 1 .. Len(text) /\ trim = SubSeq(text, a, b)
    BY <1>6, <1>7 DEF n
  <2>2. /\ trim \in Seq(T) /\ Len(trim) = b - a + 1
        /\ \A i \in 1 .. b - a + 1 : trim[i] = text[a + i - 1]
        /\ SubSeq(text, 1, Len(text)) = text
    BY <2>1, PartIs
  <2>3. 1 \in 1 .. b - a + 1 /\ a + 1 - 1 = a /\ b - a + 1 <= n
    BY <1>1, <2>1 DEF n
  <2>4. trim[1] = text[a]
    BY <2>2, <2>3
  <2>5. a = 1 /\ b = n => trim = text
    BY <2>1, <2>2 DEF n
  <2> QED BY <2>1, <2>2, <2>3, <2>4, <2>5
<1>8. CASE ink = {}
  <2>1. trim = <<>>
    BY <1>2, <1>8
  <2>2. ToSet(text) \subseteq M!Space
    BY <1>3, <1>8
  <2>3. text # <<>> => n >= 1
    BY <1>1 DEF n
  <2>4. text # <<>> => text[1] \in M!Space
    BY <1>1, <2>2, <2>3
  <2>5. ToSet(text) \cap M!Space = {} => text = <<>>
    BY <1>1, <2>2, <2>3, <2>4
  <2> QED BY <1>1, <2>1, <2>2, <2>4, <2>5 DEF trim, n
<1>9. CASE ink # {}
  <2>1. trim[1] \in ToSet(text) \ M!Space
    BY <1>4, <1>6, <1>7, <1>9
  <2>2. n >= 1
    BY <1>1, <1>6, <1>9
  <2>3. ASSUME text[1] \notin M!Space
        PROVE  trim[1] = text[1]
    <3>1. 1 \in ink
      BY <1>1, <1>5, <2>2, <2>3
    <3>2. a = 1
      BY <1>1, <1>6, <1>9, <3>1
    <3> QED BY <1>7, <1>9, <3>2
  <2>4. ASSUME ToSet(text) \cap M!Space = {}
        PROVE  trim = text
    <3>1. 1 \in ink /\ n \in ink
      BY <1>1, <1>5, <2>2, <2>4
    <3>2. a = 1 /\ b = n
      BY <1>1, <1>6, <1>9, <3>1
    <3> QED BY <1>7, <1>9, <3>2
  <2>5. ~ (ToSet(text) \subseteq M!Space)
    BY <1>3, <1>9
  <2> QED BY <1>7, <1>9, <2>1, <2>3, <2>4, <2>5 DEF trim, n
<1> QED BY <1>8, <1>9

\* What a sanitized text is: one line within the limit, of the same alphabet and what
\* marks a cut, which begins with no blank.
IsLine(line, T, text, limit) ==
  /\ line \in Seq(OneLine(T) \cup {"ellipsis"}) /\ Len(line) <= limit
  /\ ToSet(text) \subseteq M!Space => line = <<>>
  /\ ~ (ToSet(text) \subseteq M!Space) => Len(line) >= 1 /\ line[1] \in ToSet(text) \ M!Space
  /\ "nl" \notin ToSet(text) /\ text # <<>> /\ text[1] \notin M!Space => line[1] = text[1]
  /\ ToSet(text) \cap M!Space = {} /\ Len(text) <= limit => line = text

\* A sanitized text is one line within the limit.
LEMMA LineIs ==
  ASSUME NEW T, NEW text \in Seq(T), "joined" \notin T, NEW limit \in Nat, limit >= 2
  PROVE  IsLine(M!SanitizeLine(text, limit), T, text, limit)
<1> DEFINE W == OneLine(T)
           full == M!Flatten(text)
           flat == M!Trim(full)
           line == M!SanitizeLine(text, limit)
<1>1. /\ full \in Seq(W) /\ ToSet(full) \ M!Space = ToSet(text) \ M!Space
      /\ "nl" \notin ToSet(text) => full = text
  BY FlattenedIs
<1>2. line = IF Len(flat) <= limit THEN flat ELSE Append(SubSeq(flat, 1, limit - 1), "ellipsis")
  BY DEF M!SanitizeLine
<1> HIDE DEF full, line, W
<1>3. /\ flat \in Seq(W) /\ Len(flat) <= Len(full)
      /\ ToSet(full) \subseteq M!Space => flat = <<>>
      /\ ~ (ToSet(full) \subseteq M!Space) => Len(flat) >= 1 /\ flat[1] \in ToSet(full) \ M!Space
      /\ full # <<>> /\ full[1] \notin M!Space => flat[1] = full[1]
      /\ ToSet(full) \cap M!Space = {} => flat = full
  BY <1>1, TrimmedIs
<1> HIDE DEF flat
<1>4. ToSet(full) \subseteq M!Space <=> ToSet(text) \subseteq M!Space
  BY <1>1
<1>5. "nl" \in M!Space
  BY DEF M!Space
<1>6. /\ line \in Seq(W \cup {"ellipsis"}) /\ Len(line) <= limit
      /\ Len(flat) <= limit => line = flat
      /\ Len(flat) >= 1 => Len(line) >= 1 /\ line[1] = flat[1]
  <2>1. Len(flat) \in Nat
    BY <1>3
  <2>2. \A A1, B1 : A1 \subseteq B1 => Seq(A1) \subseteq Seq(B1)
    OBVIOUS
  <2>3. flat \in Seq(W \cup {"ellipsis"})
    BY <1>3, <2>2
  <2>4. CASE Len(flat) <= limit
    BY <1>2, <2>1, <2>3, <2>4
  <2>5. CASE ~ (Len(flat) <= limit)
    <3> DEFINE some == SubSeq(flat, 1, limit - 1)
               W2 == W \cup {"ellipsis"}
    <3>1. 1 \in 1 .. Len(flat) /\ limit - 1 \in 1 .. Len(flat) /\ 1 <= limit - 1
      BY <2>1, <2>5
    <3>2. line = Append(some, "ellipsis") /\ "ellipsis" \in W2
      BY <1>2, <2>5
    <3>3. flat \in Seq(W2)
      BY <2>3
    <3> HIDE DEF W2
    <3>4. /\ some \in Seq(W2) /\ Len(some) = (limit - 1) - 1 + 1
          /\ \A i \in 1 .. (limit - 1) - 1 + 1 : some[i] = flat[1 + i - 1]
      BY <3>1, <3>3, PartIs
    <3>5. Len(some) = limit - 1 /\ 1 \in 1 .. Len(some) /\ some[1] = flat[1]
      BY <3>1, <3>4
    <3> HIDE DEF some
    <3>6. /\ Len(line) = Len(some) + 1 /\ \A i \in 1 .. Len(some) : line[i] = some[i]
          /\ line \in Seq(W2)
      BY <3>2, <3>4, AppendIs
    <3>7. Len(line) = limit /\ line[1] = flat[1]
      BY <3>5, <3>6
    <3>8. line \in Seq(W \cup {"ellipsis"})
      BY <3>6 DEF W2
    <3> QED BY <2>5, <3>7, <3>8
  <2> QED BY <2>4, <2>5
<1>7. ToSet(text) \subseteq M!Space => line = <<>>
  <2> SUFFICES ASSUME ToSet(text) \subseteq M!Space
               PROVE  line = <<>>
    OBVIOUS
  <2>1. flat = <<>>
    BY <1>3, <1>4
  <2>2. Len(flat) <= limit
    BY <2>1
  <2> QED BY <1>6, <2>1, <2>2
<1>8. ~ (ToSet(text) \subseteq M!Space) => Len(line) >= 1 /\ line[1] \in ToSet(text) \ M!Space
  BY <1>1, <1>3, <1>4, <1>6
<1>9. ASSUME "nl" \notin ToSet(text), text # <<>>, text[1] \notin M!Space
      PROVE  line[1] = text[1]
  <2>1. full = text
    BY <1>1, <1>9
  <2>2. 1 \in 1 .. Len(text) /\ text[1] \in ToSet(text)
    BY <1>9 DEF ToSet
  <2>3. ~ (ToSet(full) \subseteq M!Space)
    BY <1>9, <2>1, <2>2
  <2> QED BY <1>3, <1>6, <1>9, <2>1, <2>3
<1>10. ASSUME ToSet(text) \cap M!Space = {}, Len(text) <= limit
       PROVE  line = text
  <2>1. full = text
    BY <1>1, <1>5, <1>10
  <2>2. flat = text
    BY <1>3, <1>10, <2>1
  <2> QED BY <1>6, <1>10, <2>2
<1> QED BY <1>6, <1>7, <1>8, <1>9, <1>10 DEF IsLine, W, line

\* A text over some characters is one over more.
LEMMA Wider ==
  ASSUME NEW T, NEW U, T \subseteq U, NEW s \in Seq(T)
  PROVE  s \in Seq(U)
OBVIOUS

\* Every character of a concatenation is of one part, and conversely.
LEMMA CatHolds ==
  ASSUME NEW T, NEW a \in Seq(T), NEW b \in Seq(T)
  PROVE  ToSet(a \o b) = ToSet(a) \cup ToSet(b)
<1> DEFINE s == a \o b
           m == Len(a)
           n == Len(b)
<1>1. /\ s \in Seq(T) /\ Len(s) = m + n /\ m \in Nat /\ n \in Nat
      /\ \A j \in 1 .. m : s[j] = a[j]
      /\ \A j \in 1 .. n : s[m + j] = b[j]
  BY ConcatIs
<1>2. /\ ToSet(s) = {s[j] : j \in 1 .. Len(s)} /\ ToSet(a) = {a[j] : j \in 1 .. m}
      /\ ToSet(b) = {b[j] : j \in 1 .. n}
  BY <1>1 DEF ToSet
<1> HIDE DEF s, m, n
<1>3. \A x \in ToSet(a) : x \in ToSet(s)
  <2> TAKE x \in ToSet(a)
  <2>1. PICK j \in 1 .. m : x = a[j]
    BY <1>2
  <2>2. j \in 1 .. Len(s) /\ s[j] = x
    BY <1>1, <2>1
  <2> QED BY <1>2, <2>2
<1>4. \A x \in ToSet(b) : x \in ToSet(s)
  <2> TAKE x \in ToSet(b)
  <2>1. PICK j \in 1 .. n : x = b[j]
    BY <1>2
  <2>2. m + j \in 1 .. Len(s) /\ s[m + j] = x
    BY <1>1, <2>1
  <2> QED BY <1>2, <2>2
<1>5. \A x \in ToSet(s) : x \in ToSet(a) \/ x \in ToSet(b)
  <2> TAKE x \in ToSet(s)
  <2>1. PICK j \in 1 .. Len(s) : x = s[j]
    BY <1>2
  <2>2. CASE j <= m
    <3>1. j \in 1 .. m /\ x = a[j]
      BY <1>1, <2>1, <2>2
    <3> QED BY <1>2, <3>1
  <2>3. CASE ~ (j <= m)
    <3>1. j - m \in 1 .. n /\ m + (j - m) = j
      BY <1>1, <2>3
    <3>2. x = b[j - m]
      BY <1>1, <2>1, <3>1
    <3> QED BY <1>2, <3>1, <3>2
  <2> QED BY <2>2, <2>3
<1> QED BY <1>3, <1>4, <1>5 DEF s

\* A concatenation begins as its first part.
LEMMA CatBegins ==
  ASSUME NEW T, NEW a \in Seq(T), NEW b \in Seq(T)
  PROVE  a \o b \in Seq(T) /\ (Len(a) >= 1 => Len(a \o b) >= 1 /\ (a \o b)[1] = a[1])
OBVIOUS

\* What a text holds is of its alphabet.
LEMMA HoldsItsOwn ==
  ASSUME NEW T, NEW s \in Seq(T)
  PROVE  ToSet(s) \subseteq T
BY DEF ToSet

\* The characters of a failure's tag.
TagChars == {"c", "4", "sp", "(", ")", "ellipsis"}

\* The tag of a failure begins with its code, if it has one.
LEMMA FailureIsTagged ==
  ASSUME NEW f, f.code \in Seq({"c"} \cup M!Space), f.status \in Seq({"4"})
  PROVE  LET tag == M!FailureSubjectTag({f})
         IN  tag \in Seq(TagChars) /\ ("c" \in ToSet(f.code) => tag # <<>> /\ tag[1] = "c")
<1> DEFINE T == {"c"} \cup M!Space
           raw == f.code
           code == M!SanitizeLine(raw, 60)
           open == <<"sp", "(">>
           close == <<")">>
           tag == M!FailureSubjectTag({f})
<1>1. tag = IF code = <<>> \/ f.status = <<>> THEN code ELSE code \o open \o f.status \o close
  <2>1. {f} # {} /\ (CHOOSE g \in {f} : TRUE) = f
    OBVIOUS
  <2> QED BY <2>1 DEF M!FailureSubjectTag
<1>2. raw \in Seq(T) /\ "joined" \notin T /\ 60 \in Nat /\ 60 >= 2
  BY DEF M!Space
<1> HIDE DEF raw
<1>3. IsLine(code, T, raw, 60)
  <2> HIDE DEF T
  <2> QED BY <1>2, LineIs
<1> HIDE DEF code, tag
<1>4. OneLine(T) \cup {"ellipsis"} \subseteq TagChars
  BY DEF OneLine, M!Space, TagChars
<1>5. code \in Seq(TagChars)
  <2> DEFINE W == OneLine(T) \cup {"ellipsis"}
  <2>1. code \in Seq(W) /\ W \subseteq TagChars
    BY <1>3, <1>4 DEF IsLine
  <2> HIDE DEF W
  <2> QED BY <2>1, Wider
<1>6. open \in Seq(TagChars)
  BY DEF TagChars
<1>7. close \in Seq(TagChars)
  BY DEF TagChars
<1>8. f.status \in Seq(TagChars)
  <2>1. {"4"} \subseteq TagChars
    BY DEF TagChars
  <2> QED BY <2>1, Wider
<1>9. ASSUME "c" \in ToSet(raw)
      PROVE  Len(code) >= 1 /\ code[1] = "c"
  <2>1. ~ (ToSet(raw) \subseteq M!Space)
    BY <1>9 DEF M!Space
  <2>2. ToSet(raw) \subseteq T
    <3> HIDE DEF T
    <3> QED BY <1>2, HoldsItsOwn
  <2>3. Len(code) >= 1 /\ code[1] \in T \ M!Space
    BY <1>3, <2>1, <2>2 DEF IsLine
  <2> QED BY <2>3
<1> HIDE DEF open, close
<1> DEFINE x == code \o open
           y == x \o f.status
           z == y \o close
<1>10. x \in Seq(TagChars) /\ (Len(code) >= 1 => Len(x) >= 1 /\ x[1] = code[1])
  BY <1>5, <1>6, CatBegins
<1> HIDE DEF x
<1>11. x \in Seq(TagChars)
  BY <1>10
<1>12. y \in Seq(TagChars) /\ (Len(x) >= 1 => Len(y) >= 1 /\ y[1] = x[1])
  BY <1>8, <1>11, CatBegins
<1> HIDE DEF y
<1>13. y \in Seq(TagChars)
  BY <1>12
<1>14. z \in Seq(TagChars) /\ (Len(y) >= 1 => Len(z) >= 1 /\ z[1] = y[1])
  BY <1>7, <1>13, CatBegins
<1> HIDE DEF z
<1>15. tag = code \/ tag = z
  BY <1>1 DEF x, y, z
<1>16. ASSUME "c" \in ToSet(raw)
       PROVE  Len(tag) >= 1 /\ tag[1] = "c"
  <2>1. Len(code) >= 1 /\ code[1] = "c"
    BY <1>9, <1>16
  <2>2. x[1] = "c" /\ Len(x) >= 1
    BY <1>10, <2>1
  <2>3. y[1] = "c" /\ Len(y) >= 1
    BY <1>12, <2>2
  <2>4. z[1] = "c" /\ Len(z) >= 1
    BY <1>12, <1>14, <2>3
  <2> QED BY <1>15, <2>1, <2>4
<1>17. tag \in Seq(TagChars)
  BY <1>5, <1>14, <1>15
<1>18. Len(tag) >= 1 => tag # <<>>
  BY <1>17
<1> QED BY <1>16, <1>17, <1>18 DEF tag, raw

\* Failures as the mail of a turn has them: at most one, in its own characters.
IsFailure(failure) ==
  /\ \A f, g \in failure : f = g
  /\ \A f \in failure : f.code \in Seq({"c"} \cup M!Space) /\ f.status \in Seq({"4"})

\* The tag of a subject is short and has the code of the failure.
LEMMA TagIs ==
  ASSUME NEW failure, IsFailure(failure)
  PROVE  LET tag == M!SanitizeLine(M!FailureSubjectTag(failure), 80)
         IN  /\ tag \in Seq(TagChars) /\ Len(tag) <= 80
             /\ (\E f \in failure : "c" \in ToSet(f.code)) => "c" \in ToSet(tag)
<1> DEFINE full == M!FailureSubjectTag(failure)
           tag == M!SanitizeLine(full, 80)
<1>1. /\ full \in Seq(TagChars)
      /\ (\E f \in failure : "c" \in ToSet(f.code)) => full # <<>> /\ full[1] = "c"
  <2>1. CASE failure = {}
    <3>1. full = <<>>
      BY <2>1 DEF M!FailureSubjectTag
    <3>2. full \in Seq(TagChars)
      BY <3>1
    <3> QED BY <2>1, <3>2
  <2>2. CASE failure # {}
    <3>1. PICK f \in failure : TRUE
      BY <2>2
    <3>2. failure = {f}
      BY <3>1 DEF IsFailure
    <3>3. f.code \in Seq({"c"} \cup M!Space) /\ f.status \in Seq({"4"})
      BY <3>1 DEF IsFailure
    <3>4. full = M!FailureSubjectTag({f})
      BY <3>2
    <3>5. full \in Seq(TagChars) /\ ("c" \in ToSet(f.code) => full # <<>> /\ full[1] = "c")
      BY <3>3, <3>4, FailureIsTagged
    <3> QED BY <3>2, <3>5
  <2> QED BY <2>1, <2>2
<1> HIDE DEF full
<1>2. "joined" \notin TagChars /\ 80 \in Nat /\ 80 >= 2
  BY DEF TagChars
<1>3. IsLine(tag, TagChars, full, 80)
  BY <1>1, <1>2, LineIs
<1> HIDE DEF tag
<1>4. OneLine(TagChars) \cup {"ellipsis"} = TagChars
  BY DEF OneLine, TagChars
<1>5. tag \in Seq(TagChars) /\ Len(tag) <= 80
  BY <1>3, <1>4 DEF IsLine
<1>6. ASSUME full # <<>>, full[1] = "c"
      PROVE  "c" \in ToSet(tag)
  <2>1. ToSet(full) \subseteq TagChars
    BY <1>1, HoldsItsOwn
  <2>2. "nl" \notin ToSet(full) /\ full[1] \notin M!Space
    BY <1>6, <2>1 DEF TagChars, M!Space
  <2>3. tag[1] = "c"
    BY <1>3, <1>6, <2>2 DEF IsLine
  <2>4. full[1] \in ToSet(full)
    BY <1>1, <1>6 DEF ToSet
  <2>5. ~ (ToSet(full) \subseteq M!Space)
    BY <2>2, <2>4
  <2>6. Len(tag) >= 1
    BY <1>3, <2>5 DEF IsLine
  <2>7. 1 \in 1 .. Len(tag)
    BY <1>5, <2>6
  <2> QED BY <1>5, <2>3, <2>7 DEF ToSet
<1> QED BY <1>1, <1>5, <1>6 DEF tag, full

\* A part that is joined is after a dash, and nothing is joined to nothing.
LEMMA JoinedIs ==
  ASSUME NEW T, NEW text \in Seq(T), {"sp", "dash"} \subseteq T
  PROVE  /\ M!Joined(text) \in Seq(T) /\ Len(M!Joined(text)) <= Len(text) + 3
         /\ ToSet(text) \subseteq ToSet(M!Joined(text)) /\ (text = <<>> => M!Joined(text) = <<>>)
<1> DEFINE dash == <<"sp", "dash", "sp">>
           joined == M!Joined(text)
<1>1. joined = IF text = <<>> THEN <<>> ELSE dash \o text
  BY DEF M!Joined
<1>2. dash \in Seq(T) /\ Len(dash) = 3
  OBVIOUS
<1> HIDE DEF dash, joined
<1>3. CASE text = <<>>
  <2>1. joined = <<>> /\ ToSet(text) = ToSet(joined)
    BY <1>1, <1>3
  <2>2. joined \in Seq(T) /\ Len(joined) = 0 /\ Len(text) = 0
    BY <1>3, <2>1
  <2>3. Len(joined) <= Len(text) + 3
    BY <2>2
  <2> QED BY <2>1, <2>2, <2>3 DEF joined
<1>4. CASE text # <<>>
  <2>1. joined = dash \o text
    BY <1>1, <1>4
  <2>2. dash \in Seq(T)
    BY <1>2
  <2>3. joined \in Seq(T) /\ Len(joined) = Len(dash) + Len(text) /\ Len(text) \in Nat
    BY <2>1, <2>2, ConcatIs
  <2>4. ToSet(joined) = ToSet(dash) \cup ToSet(text)
    BY <2>1, <2>2, CatHolds
  <2> QED BY <1>2, <1>4, <2>3, <2>4 DEF joined
<1> QED BY <1>3, <1>4

\* What begins with a text has it as a prefix.
LEMMA PrefixIs ==
  ASSUME NEW T, NEW a \in Seq(T), NEW b \in Seq(T)
  PROVE  IsPrefix(a, a \o b)
<1>1. /\ Len(a \o b) = Len(a) + Len(b) /\ Len(a) \in Nat /\ Len(b) \in Nat /\ a \o b \in Seq(T)
      /\ \A j \in 1 .. Len(a) : (a \o b)[j] = a[j]
  OBVIOUS
<1>2. SubSeq(a, 1, Len(a)) = SubSeq(a \o b, 1, Len(a))
  BY <1>1
<1>3. Len(a) <= Len(a \o b)
  BY <1>1
<1> QED BY <1>2, <1>3 DEF IsPrefix

\* The status leads a subject, and is short.
LEMMA StatusLeads ==
  ASSUME NEW status \in Statuses
  PROVE  /\ M!Prefix(status) \in Seq({status}) /\ Len(M!Prefix(status)) <= 38
         /\ status = "error" => Len(M!Prefix(status)) <= 17
         /\ status \notin {"nl", "c", "4", "m"}
<1> DEFINE n == 6 + M!LabelChars(status)
<1>1. n \in Nat /\ n <= 38 /\ (status = "error" => n <= 17)
  BY DEF Statuses, TurnEndKinds, M!LabelChars
<1>2. M!Prefix(status) = [i \in 1 .. n |-> status]
  BY DEF M!Prefix
<1> HIDE DEF n
<1>3. M!Prefix(status) \in Seq({status}) /\ Len(M!Prefix(status)) = n
  BY <1>1, <1>2
<1>4. status \notin {"nl", "c", "4", "m"}
  BY DEF Statuses, TurnEndKinds
<1> QED BY <1>1, <1>3, <1>4

\* The subject of a turn's mail: the status, the tag of a failure, the model.
TagOf(c) == IF c.status = "error" THEN M!SanitizeLine(M!FailureSubjectTag(c.failure), 80) ELSE <<>>
Shortened(c) == M!Prefix(c.status) \o M!Joined(TagOf(c))
ModelOf(c) == M!Joined(M!SanitizeLine(c.model, 80))

\* The characters of the part before the model, and of the model.
LeadChars(status) == TagChars \cup {"sp", "dash", status}
ModelChars == {"m", "sp", "dash", "ellipsis"}

\* What comes before the model holds the status first and the failure's code.
LEMMA LeadIs ==
  ASSUME NEW c, c.status \in Statuses, IsFailure(c.failure)
  PROVE  /\ Shortened(c) \in Seq(LeadChars(c.status)) /\ Len(Shortened(c)) <= 100
         /\ IsPrefix(M!Prefix(c.status), Shortened(c))
         /\ c.status = "error" /\ (\E f \in c.failure : "c" \in ToSet(f.code)) => "c" \in ToSet(Shortened(c))
<1> DEFINE prefix == M!Prefix(c.status)
           tag == TagOf(c)
           joined == M!Joined(tag)
           T == LeadChars(c.status)
           lead == Shortened(c)
           coded == c.status = "error" /\ \E f \in c.failure : "c" \in ToSet(f.code)
<1>1. prefix \in Seq({c.status}) /\ Len(prefix) <= 38 /\ (c.status = "error" => Len(prefix) <= 17)
  BY StatusLeads
<1>2. /\ tag \in Seq(TagChars) /\ Len(tag) <= 80
      /\ coded => "c" \in ToSet(tag)
      /\ c.status # "error" => tag = <<>>
  <2>1. CASE c.status = "error"
    <3>1. tag = M!SanitizeLine(M!FailureSubjectTag(c.failure), 80)
      BY <2>1 DEF TagOf
    <3> HIDE DEF tag
    <3> QED BY <2>1, <3>1, TagIs
  <2>2. CASE c.status # "error"
    <3>1. tag = <<>>
      BY <2>2 DEF TagOf
    <3> HIDE DEF tag
    <3> QED BY <2>2, <3>1
  <2> QED BY <2>1, <2>2
<1>3. {c.status} \subseteq T /\ TagChars \subseteq T /\ {"sp", "dash"} \subseteq T
  BY DEF LeadChars
<1>4. lead = prefix \o joined
  BY DEF Shortened
<1> HIDE DEF prefix, tag, T, lead, coded
<1>5. prefix \in Seq(T)
  BY <1>1, <1>3, Wider
<1>6. tag \in Seq(T)
  BY <1>2, <1>3, Wider
<1>7. /\ joined \in Seq(T) /\ Len(joined) <= Len(tag) + 3 /\ ToSet(tag) \subseteq ToSet(joined)
      /\ tag = <<>> => joined = <<>>
  BY <1>3, <1>6, JoinedIs
<1> HIDE DEF joined
<1>8. joined \in Seq(T)
  BY <1>7
<1>9. lead \in Seq(T) /\ Len(lead) = Len(prefix) + Len(joined)
  BY <1>4, <1>5, <1>8
<1>10. Len(lead) <= 100
  <2>1. Len(prefix) \in Nat /\ Len(joined) \in Nat /\ Len(tag) \in Nat
    BY <1>5, <1>6, <1>8
  <2>2. joined = <<>> => Len(joined) = 0
    OBVIOUS
  <2> QED BY <1>1, <1>2, <1>7, <1>9, <2>1, <2>2
<1>11. IsPrefix(prefix, lead)
  BY <1>4, <1>5, <1>8, PrefixIs
<1>12. ToSet(lead) = ToSet(prefix) \cup ToSet(joined)
  BY <1>4, <1>5, <1>8, CatHolds
<1>13. coded => "c" \in ToSet(lead)
  BY <1>2, <1>7, <1>12
<1> QED BY <1>9, <1>10, <1>11, <1>13 DEF prefix, T, lead, coded

\* The model is short and in its own characters.
LEMMA ModelIs ==
  ASSUME NEW c, c.model \in Seq({"m"} \cup M!Space)
  PROVE  ModelOf(c) \in Seq(ModelChars) /\ Len(ModelOf(c)) <= 83
<1> DEFINE T == {"m"} \cup M!Space
           raw == c.model
           line == M!SanitizeLine(raw, 80)
           W == OneLine(T) \cup {"ellipsis"}
<1>1. raw \in Seq(T) /\ "joined" \notin T /\ 80 \in Nat /\ 80 >= 2
  BY DEF M!Space
<1>2. IsLine(line, T, raw, 80)
  <2> HIDE DEF T, raw
  <2> QED BY <1>1, LineIs
<1>3. W \subseteq ModelChars
  BY DEF OneLine, M!Space, ModelChars
<1>4. line \in Seq(W) /\ Len(line) <= 80
  BY <1>2 DEF IsLine
<1> HIDE DEF line, W
<1>5. line \in Seq(ModelChars)
  BY <1>3, <1>4, Wider
<1>6. {"sp", "dash"} \subseteq ModelChars
  BY DEF ModelChars
<1>7. M!Joined(line) \in Seq(ModelChars) /\ Len(M!Joined(line)) <= Len(line) + 3
  BY <1>5, <1>6, JoinedIs
<1>8. Len(line) \in Nat /\ Len(M!Joined(line)) \in Nat
  BY <1>5, <1>7
<1>9. ModelOf(c) = M!Joined(line)
  BY DEF ModelOf, line
<1> QED BY <1>4, <1>7, <1>8, <1>9

\* A subject fits its line, begins with the whole status, and has a failure's code
\* before the model.
SubjectIsRight(subject, c) ==
  LET at(char) == {i \in DOMAIN subject : subject[i] = char}
  IN  /\ Len(subject) <= 200 /\ "nl" \notin ToSet(subject)
      /\ IsPrefix(M!Prefix(c.status), subject)
      /\ at("c") \cup at("4") # {} /\ at("m") # {} => Max(at("c") \cup at("4")) < Min(at("m"))
      /\ c.status = "error" /\ (\E f \in c.failure : "c" \in ToSet(f.code)) => "c" \in ToSet(subject)

\* What is a prefix of a part is one of the whole.
LEMMA PrefixOfPart ==
  ASSUME NEW T, NEW a \in Seq(T), NEW b \in Seq(T), NEW p, IsPrefix(p, a), Len(p) \in Nat
  PROVE  IsPrefix(p, a \o b)
<1> DEFINE s == a \o b
           n == Len(p)
<1>1. /\ s \in Seq(T) /\ Len(s) = Len(a) + Len(b) /\ Len(a) \in Nat /\ Len(b) \in Nat
      /\ \A j \in 1 .. Len(a) : s[j] = a[j]
  BY ConcatIs
<1>2. n \in Nat /\ n <= Len(a) /\ SubSeq(p, 1, n) = SubSeq(a, 1, n)
  BY DEF IsPrefix
<1> HIDE DEF s, n
<1>3. SubSeq(a, 1, n) = SubSeq(s, 1, n)
  BY <1>1, <1>2
<1>4. n <= Len(s)
  BY <1>1, <1>2
<1> QED BY <1>2, <1>3, <1>4 DEF IsPrefix, s, n

\* So is the subject of every turn.
LEMMA SubjectIs ==
  ASSUME NEW c, c.status \in Statuses, IsFailure(c.failure), c.model \in Seq({"m"} \cup M!Space)
  PROVE  SubjectIsRight(M!RenderSubject(c), c)
<1> DEFINE lead == Shortened(c)
           model == ModelOf(c)
           subject == lead \o model
           T == LeadChars(c.status) \cup ModelChars
           m == Len(lead)
           coded == c.status = "error" /\ \E f \in c.failure : "c" \in ToSet(f.code)
           prefix == M!Prefix(c.status)
<1>1. /\ lead \in Seq(LeadChars(c.status)) /\ m <= 100 /\ IsPrefix(prefix, lead)
      /\ coded => "c" \in ToSet(lead)
  BY LeadIs
<1>2. model \in Seq(ModelChars) /\ Len(model) <= 83
  BY ModelIs
<1>3. c.status \notin {"nl", "c", "4", "m"} /\ prefix \in Seq({c.status})
  BY StatusLeads
<1>4. M!RenderSubject(c) = IF Len(subject) <= 200 THEN subject
                           ELSE IF c.status = "error" /\ Len(lead) <= 200 THEN lead ELSE Append(prefix, "ellipsis")
  BY DEF M!RenderSubject, M!SubjectMaxChars, Shortened, ModelOf, TagOf
<1>5. "nl" \notin T /\ {"c", "4"} \cap ModelChars = {} /\ "m" \notin LeadChars(c.status)
  BY <1>3 DEF LeadChars, TagChars, ModelChars
<1>6. LeadChars(c.status) \subseteq T /\ ModelChars \subseteq T
  OBVIOUS
<1> HIDE DEF lead, model, T, coded, prefix
<1>7. lead \in Seq(T)
  BY <1>1, <1>6, Wider
<1>8. model \in Seq(T)
  BY <1>2, <1>6, Wider
<1>9. /\ subject \in Seq(T) /\ Len(subject) = m + Len(model) /\ m \in Nat /\ Len(model) \in Nat
      /\ \A j \in 1 .. m : subject[j] = lead[j]
      /\ \A j \in 1 .. Len(model) : subject[m + j] = model[j]
  BY <1>7, <1>8, ConcatIs
<1>10. ToSet(subject) = ToSet(lead) \cup ToSet(model)
  BY <1>7, <1>8, CatHolds
<1>11. IsPrefix(prefix, subject)
  <2>1. Len(prefix) \in Nat
    BY <1>3
  <2> QED BY <1>1, <1>7, <1>8, <2>1, PrefixOfPart
<1> HIDE DEF subject
<1>12. Len(subject) <= 200 /\ M!RenderSubject(c) = subject
  <2>1. Len(subject) <= 200
    BY <1>1, <1>2, <1>9
  <2> QED BY <1>4, <2>1
<1>13. "nl" \notin ToSet(subject)
  BY <1>5, <1>9, HoldsItsOwn
<1> DEFINE at(char) == {i \in DOMAIN subject : subject[i] = char}
           codes == at("c") \cup at("4")
           models == at("m")
           n == Len(subject)
<1>14. n \in Nat /\ DOMAIN subject = 1 .. n /\ m \in Nat
  BY <1>9
<1>15. \A i \in 1 .. n : i <= m => subject[i] \in LeadChars(c.status)
  BY <1>1, <1>9
<1>16. \A i \in 1 .. n : m < i => subject[i] \in ModelChars
  <2> SUFFICES ASSUME NEW i \in 1 .. n, m < i
               PROVE  subject[i] \in ModelChars
    OBVIOUS
  <2> DEFINE j == i - m
  <2>1. j \in 1 .. Len(model) /\ m + j = i
    BY <1>9
  <2> HIDE DEF j
  <2>2. subject[i] = model[j]
    BY <1>9, <2>1
  <2> QED BY <1>2, <2>1, <2>2
<1>17. \A i \in codes : i \in 1 .. n /\ i <= m
  BY <1>5, <1>14, <1>16
<1>18. \A i \in models : i \in 1 .. n /\ m < i
  BY <1>5, <1>14, <1>15
<1> HIDE DEF codes, models, n
<1>19. ASSUME codes # {}, models # {}
       PROVE  Max(codes) < Min(models)
  <2>1. codes \in SUBSET (1 .. n) /\ models \in SUBSET (1 .. n)
    BY <1>17, <1>18
  <2>2. Max(codes) \in codes
    BY <1>14, <1>19, <2>1, EndsAre
  <2>3. Min(models) \in models
    BY <1>14, <1>19, <2>1, EndsAre
  <2>4. Max(codes) \in 1 .. n /\ Max(codes) <= m
    BY <1>17, <2>2
  <2>5. Min(models) \in 1 .. n /\ m < Min(models)
    BY <1>18, <2>3
  <2> QED BY <1>14, <2>4, <2>5
<1>20. coded => "c" \in ToSet(subject)
  BY <1>1, <1>10
<1>21. SubjectIsRight(subject, c)
  BY <1>11, <1>12, <1>13, <1>19, <1>20 DEF SubjectIsRight, codes, models, coded, prefix
<1> QED BY <1>12, <1>21

\* A part that is absent holds nothing.
LEMMA PartHolds ==
  ASSUME NEW T, NEW part \in T, NEW present
  PROVE  /\ M!Part(present, part) \in Seq(T)
         /\ present => ToSet(M!Part(present, part)) = {part}
         /\ ~present => ToSet(M!Part(present, part)) = {}
<1>1. CASE present
  <2>1. M!Part(present, part) = <<part>>
    BY <1>1 DEF M!Part
  <2>2. ToSet(<<part>>) = {part}
    BY DEF ToSet
  <2>3. <<part>> \in Seq(T)
    OBVIOUS
  <2> QED BY <1>1, <2>1, <2>2, <2>3
<1>2. CASE ~present
  <2>1. M!Part(present, part) = <<>>
    BY <1>2 DEF M!Part
  <2>2. ToSet(<<>>) = {}
    BY DEF ToSet
  <2> QED BY <1>2, <2>1, <2>2
<1> QED BY <1>1, <1>2

\* What is in front of the text of a turn's mail, and what is behind.
BeforeText(c, render) ==
  M!Part(render.includeMetadata, <<"metadata", M!Metadata(c)>>)
    \o M!Part(c.status = "error", <<"failure", M!Failure(c.failure)>>)
    \o M!Part(render.includeUserPrompt /\ ~M!Blank(c.userText), <<"prompt", c.userText>>)
BehindText(render, cut) ==
  IF render.includeFooter THEN <<<<"footer", M!Footer(cut)>>>> ELSE M!Part(cut, <<"gap">>)

\* The front holds what it should, which is no text.
LEMMA FrontIs ==
  ASSUME NEW c, NEW render,
         {render.includeMetadata, render.includeUserPrompt} \subseteq BOOLEAN
  PROVE  \E T : /\ BeforeText(c, render) \in Seq(T)
                /\ \A s \in T : s[1] \in {"metadata", "failure", "prompt"}
                /\ \A s \in ToSet(BeforeText(c, render)) : s \in T
                /\ (\E s \in ToSet(BeforeText(c, render)) : s[1] = "metadata") <=> render.includeMetadata
                /\ (\E s \in ToSet(BeforeText(c, render)) : s[1] = "failure") <=> c.status = "error"
                /\ \A s \in ToSet(BeforeText(c, render)) :
                     s[1] = "prompt" => render.includeUserPrompt /\ s = <<"prompt", c.userText>>
<1> DEFINE metadata == <<"metadata", M!Metadata(c)>>
           failure == <<"failure", M!Failure(c.failure)>>
           prompt == <<"prompt", c.userText>>
           T == {metadata, failure, prompt}
           asked == render.includeUserPrompt /\ ~M!Blank(c.userText)
           isError == c.status = "error"
           x == M!Part(render.includeMetadata, metadata)
           y == M!Part(isError, failure)
           z == M!Part(asked, prompt)
           front == BeforeText(c, render)
<1>1. front = (x \o y) \o z
  BY DEF BeforeText
<1>2. metadata \in T /\ failure \in T /\ prompt \in T
  OBVIOUS
<1>3. metadata[1] = "metadata" /\ failure[1] = "failure" /\ prompt[1] = "prompt"
  OBVIOUS
<1>4. \A s \in T : s = metadata \/ s = failure \/ s = prompt
  OBVIOUS
<1>5. prompt = <<"prompt", c.userText>> /\ (asked => render.includeUserPrompt)
  OBVIOUS
<1> HIDE DEF metadata, failure, prompt, T, asked, isError, front
<1>6. /\ x \in Seq(T)
      /\ render.includeMetadata => ToSet(x) = {metadata} 
      /\ ~render.includeMetadata => ToSet(x) = {}
  BY <1>2, PartHolds
<1>7. y \in Seq(T) /\ (isError => ToSet(y) = {failure}) /\ (~isError => ToSet(y) = {})
  BY <1>2, PartHolds
<1>8. z \in Seq(T) /\ (asked => ToSet(z) = {prompt}) /\ (~asked => ToSet(z) = {})
  BY <1>2, PartHolds
<1> HIDE DEF x, y, z
<1>9. x \o y \in Seq(T)
  BY <1>6, <1>7
<1>10. ToSet(x \o y) = ToSet(x) \cup ToSet(y)
  BY <1>6, <1>7, CatHolds
<1>11. front \in Seq(T) /\ ToSet(front) = (ToSet(x) \cup ToSet(y)) \cup ToSet(z)
  <2> DEFINE w == x \o y
  <2>1. w \in Seq(T)
    BY <1>9
  <2> HIDE DEF w
  <2>2. ToSet(w \o z) = ToSet(w) \cup ToSet(z) /\ w \o z \in Seq(T)
    BY <1>8, <2>1, CatHolds
  <2> QED BY <1>1, <1>10, <2>2 DEF w
<1>12. \A s \in ToSet(front) : s \in T
  BY <1>11, HoldsItsOwn
<1>13. metadata \in ToSet(front) <=> render.includeMetadata
  BY <1>3, <1>6, <1>7, <1>8, <1>11
<1>14. failure \in ToSet(front) <=> isError
  BY <1>3, <1>6, <1>7, <1>8, <1>11
<1>15. prompt \in ToSet(front) <=> asked
  BY <1>3, <1>6, <1>7, <1>8, <1>11
<1>16. (\E s \in ToSet(front) : s[1] = "metadata") <=> render.includeMetadata
  BY <1>3, <1>4, <1>12, <1>13
<1>17. (\E s \in ToSet(front) : s[1] = "failure") <=> isError
  BY <1>3, <1>4, <1>12, <1>14
<1>18. \A s \in ToSet(front) : s[1] = "prompt" => render.includeUserPrompt /\ s = <<"prompt", c.userText>>
  BY <1>3, <1>4, <1>5, <1>12, <1>15
<1>19. \A s \in T : s[1] \in {"metadata", "failure", "prompt"}
  BY <1>3, <1>4
<1> QED BY <1>11, <1>12, <1>16, <1>17, <1>18, <1>19 DEF front, isError

SectionNames == {"metadata", "failure", "prompt", "output", "no-output", "partial", "footer", "gap"}

\* What the property says of the sections of a turn's mail, which are a sequence of them.
SectionsAreRight(sections, c, render, cut) ==
  LET parts(names) == {s \in ToSet(sections) : s[1] \in names}
      place(name) == {i \in DOMAIN sections : sections[i][1] = name}
  IN  /\ \A s \in parts({"output", "partial"}) : s[2] = c.visible
      /\ parts({"output"}) # {} <=> c.status # "error"
      /\ parts({"no-output"}) # {} <=> c.status = "error" /\ M!Blank(c.visible)
      /\ parts({"failure"}) # {} <=> c.status = "error"
      /\ \A i \in place("failure"), j \in place("partial") : i < j
      /\ \A s \in parts({"footer"}) : render.includeFooter /\ ("text-was-cut" \in s[2] <=> cut)
      /\ parts({"footer"}) = {} => ~render.includeFooter
      /\ parts({"prompt"}) # {} => render.includeUserPrompt /\ parts({"prompt"}) = {<<"prompt", c.userText>>}
      /\ parts({"metadata"}) # {} <=> render.includeMetadata
      /\ sections \in Seq(ToSet(sections)) /\ \A s \in ToSet(sections) : s[1] \in SectionNames

\* The sections of every turn are so.
LEMMA SectionsAre ==
  ASSUME NEW c, NEW render, NEW cut \in BOOLEAN,
         {render.includeMetadata, render.includeUserPrompt, render.includeFooter} \subseteq BOOLEAN
  PROVE  SectionsAreRight(M!TurnSections(c, render, cut), c, render, cut)
<1> DEFINE front == BeforeText(c, render)
           out == M!Output(c)
           back == BehindText(render, cut)
           footer == <<"footer", M!Footer(cut)>>
           gap == <<"gap">>
           sections == M!TurnSections(c, render, cut)
           isError == c.status = "error"
           blank == M!Blank(c.visible)
<1>1. sections = (front \o <<out>>) \o back
  BY DEF M!TurnSections, BeforeText, BehindText
<1>2. PICK U : /\ front \in Seq(U)
               /\ \A s \in U : s[1] \in {"metadata", "failure", "prompt"}
               /\ \A s \in ToSet(front) : s \in U
               /\ (\E s \in ToSet(front) : s[1] = "metadata") <=> render.includeMetadata
               /\ (\E s \in ToSet(front) : s[1] = "failure") <=> isError
               /\ \A s \in ToSet(front) :
                    s[1] = "prompt" => render.includeUserPrompt /\ s = <<"prompt", c.userText>>
  BY FrontIs
<1>3. /\ ~isError => out[1] = "output" /\ out[2] = c.visible
      /\ isError /\ blank => out[1] = "no-output"
      /\ isError /\ ~blank => out[1] = "partial" /\ out[2] = c.visible
  BY DEF M!Output
<1>4. /\ footer[1] = "footer" /\ ("text-was-cut" \in footer[2] <=> cut) /\ gap[1] = "gap"
  BY DEF M!Footer
<1> DEFINE T == U \cup {out, footer, gap}
<1>5. /\ back \in Seq(T) /\ (render.includeFooter => ToSet(back) = {footer})
      /\ ~render.includeFooter => ToSet(back) \subseteq {gap}
  <2>1. CASE render.includeFooter
    <3>1. back = <<footer>>
      BY <2>1 DEF BehindText
    <3>2. ToSet(<<footer>>) = {footer}
      BY DEF ToSet
    <3>3. footer \in T
      OBVIOUS
    <3> HIDE DEF back, footer, T
    <3> QED BY <2>1, <3>1, <3>2, <3>3
  <2>2. CASE ~render.includeFooter
    <3>1. back = M!Part(cut, gap) /\ gap \in T
      BY <2>2 DEF BehindText
    <3> HIDE DEF back, gap, T
    <3>2. /\ M!Part(cut, gap) \in Seq(T)
          /\ cut => ToSet(M!Part(cut, gap)) = {gap}
          /\ ~cut => ToSet(M!Part(cut, gap)) = {}
      BY <3>1, PartHolds
    <3> QED BY <2>2, <3>1, <3>2
  <2> QED BY <2>1, <2>2
<1>6. U \subseteq T /\ out \in T
  OBVIOUS
<1> DEFINE text == front \o <<out>>
           m == Len(front)
           n == Len(sections)
<1> HIDE DEF front, out, back, footer, gap, T, sections, isError, blank
<1>7. front \in Seq(T)
  BY <1>2, <1>6, Wider
<1>8. <<out>> \in Seq(T) /\ Len(<<out>>) = 1 /\ <<out>>[1] = out /\ ToSet(<<out>>) = {out}
  BY <1>6 DEF ToSet
<1>9. /\ text \in Seq(T) /\ Len(text) = m + 1 /\ m \in Nat
      /\ (\A j \in 1 .. m : text[j] = front[j]) /\ text[m + 1] = out
      /\ ToSet(text) = ToSet(front) \cup {out}
  <2>1. <<out>> \in Seq(T)
    BY <1>8
  <2>2. ToSet(text) = ToSet(front) \cup ToSet(<<out>>)
    BY <1>7, <2>1, CatHolds
  <2>3. /\ text \in Seq(T) /\ Len(text) = Len(front) + Len(<<out>>) /\ Len(front) \in Nat
        /\ \A j \in 1 .. Len(front) : text[j] = front[j]
        /\ \A j \in 1 .. Len(<<out>>) : text[Len(front) + j] = <<out>>[j]
    BY <1>7, <2>1, ConcatIs
  <2>4. text[m + 1] = out
    BY <1>8, <2>3
  <2> QED BY <1>8, <2>2, <2>3, <2>4
<1> HIDE DEF text
<1>10. /\ sections \in Seq(T) /\ n \in Nat /\ DOMAIN sections = 1 .. n
       /\ \A j \in 1 .. m : j <= n /\ sections[j] = front[j]
       /\ \A j \in 1 .. n : m < j => sections[j] = out \/ sections[j] \in ToSet(back)
       /\ ToSet(sections) = (ToSet(front) \cup {out}) \cup ToSet(back)
  <2>1. text \in Seq(T)
    BY <1>9
  <2>2. back \in Seq(T)
    BY <1>5
  <2>3. sections = text \o back
    BY <1>1 DEF text
  <2>4. ToSet(sections) = ToSet(text) \cup ToSet(back)
    BY <2>1, <2>2, <2>3, CatHolds
  <2>5. /\ sections \in Seq(T) /\ Len(sections) = Len(text) + Len(back) /\ Len(back) \in Nat
        /\ \A j \in 1 .. Len(text) : sections[j] = text[j]
        /\ \A j \in 1 .. Len(back) : sections[Len(text) + j] = back[j]
    BY <2>1, <2>2, <2>3, ConcatIs
  <2>6. ASSUME NEW j \in 1 .. n, m < j
        PROVE  sections[j] = out \/ sections[j] \in ToSet(back)
    <3>1. CASE j = m + 1
      <4>1. j \in 1 .. Len(text)
        BY <1>9, <3>1
      <4> QED BY <1>9, <2>5, <3>1, <4>1
    <3>2. CASE j # m + 1
      <4> DEFINE k == j - Len(text)
      <4>1. k \in 1 .. Len(back) /\ Len(text) + k = j
        BY <1>9, <2>5, <2>6, <3>2
      <4> HIDE DEF k
      <4>2. sections[j] = back[k]
        BY <2>5, <4>1
      <4>3. back[k] \in ToSet(back)
        BY <2>2, <4>1 DEF ToSet
      <4> QED BY <4>2, <4>3
    <3> QED BY <3>1, <3>2
  <2> QED BY <1>9, <2>4, <2>5, <2>6
<1>11. \A s \in ToSet(front) : s[1] \in {"metadata", "failure", "prompt"}
  BY <1>2
<1>12. \A s \in ToSet(back) : s[1] \in {"footer", "gap"}
  BY <1>4, <1>5
<1>13. out[1] \in {"output", "no-output", "partial"}
  BY <1>3
<1>14. \A s : s \in ToSet(sections) <=> s \in ToSet(front) \/ s = out \/ s \in ToSet(back)
  BY <1>10
<1> HIDE DEF m, n
<1>15. ASSUME NEW i \in 1 .. n, sections[i][1] = "failure", NEW j \in 1 .. n, sections[j][1] = "partial"
       PROVE  i < j
  <2>1. ASSUME NEW k \in 1 .. m
        PROVE  sections[k] \in ToSet(front)
    BY <1>7, <1>10 DEF ToSet, m
  <2>2. \A k \in 1 .. m : sections[k][1] \in {"metadata", "failure", "prompt"}
    BY <1>11, <2>1
  <2>3. ~ (j <= m)
    BY <1>9, <1>15, <2>2
  <2>4. ~ (m < i)
    <3>1. ASSUME m < i
          PROVE  sections[i][1] \in {"output", "no-output", "partial", "footer", "gap"}
      BY <1>10, <1>12, <1>13, <3>1
    <3> QED BY <1>15, <3>1
  <2> QED BY <1>9, <1>10, <2>3, <2>4
<1> DEFINE parts(names) == {s \in ToSet(sections) : s[1] \in names}
<1>16. \A s \in parts({"output", "partial"}) : s[2] = c.visible
  BY <1>3, <1>11, <1>12, <1>14
<1>17. parts({"output"}) # {} <=> ~isError
  BY <1>3, <1>11, <1>12, <1>14
<1>18. parts({"no-output"}) # {} <=> isError /\ blank
  BY <1>3, <1>11, <1>12, <1>14
<1>19. parts({"failure"}) # {} <=> isError
  BY <1>2, <1>12, <1>13, <1>14
<1>20. parts({"metadata"}) # {} <=> render.includeMetadata
  BY <1>2, <1>12, <1>13, <1>14
<1>21. \A s \in parts({"footer"}) : s = footer /\ render.includeFooter
  BY <1>4, <1>5, <1>11, <1>13, <1>14
<1>22. parts({"footer"}) = {} => ~render.includeFooter
  BY <1>4, <1>5, <1>14
<1>23. \A s \in parts({"prompt"}) : render.includeUserPrompt /\ s = <<"prompt", c.userText>>
  BY <1>2, <1>12, <1>13, <1>14
<1>24. parts({"prompt"}) # {} => render.includeUserPrompt /\ parts({"prompt"}) = {<<"prompt", c.userText>>}
  BY <1>23
<1> HIDE DEF parts
<1>25. sections \in Seq(ToSet(sections))
  <2>1. \A j \in 1 .. n : sections[j] \in ToSet(sections)
    BY <1>10 DEF ToSet
  <2> QED BY <1>10, <2>1 DEF n
<1>26. \A s \in ToSet(sections) : s[1] \in SectionNames
  BY <1>11, <1>12, <1>13, <1>14 DEF SectionNames
<1> QED BY <1>4, <1>10, <1>15, <1>16, <1>17, <1>18, <1>19, <1>20, <1>21, <1>22, <1>24, <1>25, <1>26
        DEF SectionsAreRight, parts, isError, blank, sections, n

\* What is shown of a duration is within half a unit of it.
IsRounded(seconds, ms) ==
  /\ seconds[1] = "minutes" => (60 * seconds[2] + seconds[3]) * 1000 - ms \in -500 .. 500
  /\ seconds[1] = "tenths" => seconds[2] * 100 - ms \in -50 .. 50

\* A duration is shown in tenths of a second or in minutes and seconds, rounded.
LEMMA DurationIsRounded ==
  ASSUME NEW ms \in Nat \cup {M!UnknownDuration}
  PROVE  IsRounded(M!FormatDuration(ms), ms)
<1> DEFINE seconds == M!FormatDuration(ms)
<1>1. CASE ms = M!UnknownDuration
  <2>1. seconds = <<"unknown">>
    BY <1>1 DEF M!FormatDuration
  <2>2. seconds[1] = "unknown"
    BY <2>1
  <2> HIDE DEF seconds
  <2> QED BY <2>2 DEF seconds, IsRounded
<1>2. CASE ms # M!UnknownDuration /\ ms < 1000
  <2>1. seconds = <<"ms", ms>>
    BY <1>2 DEF M!FormatDuration
  <2>2. seconds[1] = "ms"
    BY <2>1
  <2> HIDE DEF seconds
  <2> QED BY <2>2 DEF seconds, IsRounded
<1>3. CASE ms # M!UnknownDuration /\ ~ (ms < 1000) /\ ms < 60000
  <2> DEFINE q == (ms + 50) \div 100
  <2>1. seconds = <<"tenths", q>>
    BY <1>3 DEF M!FormatDuration
  <2>2. ms \in Nat
    BY <1>3
  <2>3. q * 100 - ms \in -50 .. 50
    BY <2>2
  <2> HIDE DEF q
  <2>4. seconds[1] = "tenths" /\ seconds[2] = q
    BY <2>1
  <2> HIDE DEF seconds
  <2> QED BY <2>3, <2>4 DEF seconds, IsRounded
<1>4. CASE ms # M!UnknownDuration /\ ~ (ms < 1000) /\ ~ (ms < 60000)
  <2> DEFINE q == ms \div 60000
             r == ms % 60000
             s == (r + 500) \div 1000
  <2>1. seconds = <<"minutes", q, s>>
    BY <1>4 DEF M!FormatDuration
  <2>2. ms \in Nat
    BY <1>4
  <2>3. q \in Nat /\ r \in Nat /\ ms = 60000 * q + r
    BY <2>2
  <2> HIDE DEF q, r
  <2>4. s \in Nat /\ 1000 * s - r \in -500 .. 500
    BY <2>3
  <2> HIDE DEF s
  <2>5. (60 * q + s) * 1000 - ms \in -500 .. 500
    BY <2>3, <2>4
  <2>6. seconds[1] = "minutes" /\ seconds[2] = q /\ seconds[3] = s
    BY <2>1
  <2> HIDE DEF seconds
  <2> QED BY <2>5, <2>6 DEF seconds, IsRounded
<1> QED BY <1>1, <1>2, <1>3, <1>4

-----------------------------------------------------------------------------
\* The text of a turn's mail.

FourBreaks(text) == \E i \in 4 .. Len(text) : \A j \in i - 3 .. i : text[j].char = "nl"

\* The m characters up to the i-th are line breaks.
LastBreaks(text, i, m) == m <= i /\ \A j \in i - m + 1 .. i : text[j].char = "nl"

\* The characters of an appended text.
LEMMA LastAppended ==
  ASSUME NEW T, NEW u \in Seq(T), NEW x \in T
  PROVE  LET v == Append(u, x)
         IN  /\ \A m \in 1 .. 3 : LastBreaks(v, Len(v), m) =>
                  x.char = "nl" /\ (m = 1 \/ LastBreaks(u, Len(u), m - 1))
             /\ FourBreaks(v) => FourBreaks(u) \/ (x.char = "nl" /\ LastBreaks(u, Len(u), 3))
<1> DEFINE v == Append(u, x)
           n == Len(u)
<1>1. /\ n \in Nat /\ Len(v) = n + 1 /\ v[n + 1] = x
      /\ \A j \in 1 .. n : v[j] = u[j]
  BY AppendIs
<1> HIDE DEF v
<1>2. ASSUME NEW m \in 1 .. 3, LastBreaks(v, Len(v), m)
      PROVE  x.char = "nl" /\ (m = 1 \/ LastBreaks(u, n, m - 1))
  <2>1. m <= n + 1 /\ \A j \in (n + 1) - m + 1 .. n + 1 : v[j].char = "nl"
    BY <1>1, <1>2 DEF LastBreaks
  <2>2. n + 1 \in (n + 1) - m + 1 .. n + 1
    BY <1>1
  <2>3. x.char = "nl"
    BY <1>1, <2>1, <2>2
  <2>4. ASSUME m # 1, NEW j \in n - (m - 1) + 1 .. n
        PROVE  u[j].char = "nl"
    <3>1. j \in 1 .. n /\ j \in (n + 1) - m + 1 .. n + 1
      BY <1>1, <2>1, <2>4
    <3> QED BY <1>1, <2>1, <3>1
  <2>5. m - 1 <= n
    BY <1>1, <2>1
  <2> HIDE DEF n
  <2> QED BY <2>3, <2>4, <2>5 DEF LastBreaks
<1>3. ASSUME FourBreaks(v)
      PROVE  FourBreaks(u) \/ (x.char = "nl" /\ LastBreaks(u, n, 3))
  <2>1. PICK i \in 4 .. n + 1 : \A j \in i - 3 .. i : v[j].char = "nl"
    BY <1>1, <1>3 DEF FourBreaks
  <2>2. CASE i = n + 1
    <3>1. n + 1 \in i - 3 .. i /\ 3 <= n
      BY <1>1, <2>1, <2>2
    <3>2. ASSUME NEW j \in n - 3 + 1 .. n
          PROVE  u[j].char = "nl"
      <4>1. j \in 1 .. n /\ j \in i - 3 .. i
        BY <1>1, <2>2, <3>1, <3>2
      <4> QED BY <1>1, <2>1, <4>1
    <3>3. x.char = "nl"
      BY <1>1, <2>1, <3>1
    <3> HIDE DEF n
    <3> QED BY <3>1, <3>2, <3>3 DEF LastBreaks
  <2>3. CASE i # n + 1
    <3>1. i \in 4 .. n
      BY <1>1, <2>1, <2>3
    <3>2. ASSUME NEW j \in i - 3 .. i
          PROVE  u[j].char = "nl"
      <4>1. j \in 1 .. n
        BY <1>1, <3>1, <3>2
      <4> QED BY <1>1, <2>1, <3>2, <4>1
    <3> QED BY <3>1, <3>2 DEF FourBreaks
  <2> QED BY <2>2, <2>3
<1> QED BY <1>2, <1>3 DEF v

\* What is among an appended text.
LEMMA AmongAppended ==
  ASSUME NEW T, NEW u \in Seq(T), NEW x \in T, NEW S
  PROVE  Among(Append(u, x), S) = IF x \in S THEN Append(Among(u, S), x) ELSE Among(u, S)
<1> DEFINE v == Append(u, x)
           n == Len(u)
<1>1. /\ v \in Seq(T) /\ n \in Nat /\ Len(v) = n + 1 /\ v[n + 1] = x
      /\ \A j \in 1 .. n : v[j] = u[j]
  BY AppendIs
<1> HIDE DEF v
<1>2. PICK p \in [0 .. n -> Seq(T \cap S)] : Keeps(p, u, S) /\ Among(u, S) = p[n]
  BY KeptIs
<1>3. PICK q \in [0 .. n + 1 -> Seq(T \cap S)] : Keeps(q, v, S) /\ Among(v, S) = q[n + 1]
  BY <1>1, KeptIs
<1> HIDE DEF n
<1>4. p[0] = <<>> /\ \A i \in 1 .. n : p[i] = IF u[i] \in S THEN Append(p[i - 1], u[i]) ELSE p[i - 1]
  BY <1>2 DEF Keeps, n
<1>5. q[0] = <<>> /\ \A i \in 1 .. n + 1 : q[i] = IF v[i] \in S THEN Append(q[i - 1], v[i]) ELSE q[i - 1]
  BY <1>1, <1>3 DEF Keeps
<1> DEFINE N == {i \in Nat : i <= n => p[i] = q[i]}
<1>6. 0 \in N
  BY <1>4, <1>5
<1>7. ASSUME NEW i \in Nat, i \in N
      PROVE  i + 1 \in N
  <2> SUFFICES ASSUME i + 1 <= n
               PROVE  p[i + 1] = q[i + 1]
    OBVIOUS
  <2>1. i + 1 \in 1 .. n /\ i + 1 \in 1 .. n + 1 /\ (i + 1) - 1 = i /\ i <= n
    BY <1>1
  <2>2. p[i] = q[i] /\ u[i + 1] = v[i + 1]
    BY <1>1, <1>7, <2>1
  <2> QED BY <1>4, <1>5, <2>1, <2>2
<1> HIDE DEF N
<1>8. n \in N
  BY <1>1, <1>6, <1>7, Induction
<1>9. p[n] = q[n]
  BY <1>1, <1>8 DEF N
<1>10. n + 1 \in 1 .. n + 1 /\ (n + 1) - 1 = n
  BY <1>1
<1>11. q[n + 1] = IF x \in S THEN Append(q[n], x) ELSE q[n]
  BY <1>1, <1>5, <1>10
<1> QED BY <1>2, <1>3, <1>9, <1>11 DEF v

\* k takes over what w holds, but no line break behind three others.
Collapses(k, w, n) ==
  k[0] = <<>> /\ \A i \in 1 .. n : k[i] = IF M!Superfluous(w, i) THEN k[i - 1] ELSE Append(k[i - 1], w[i])

\* A collapsed text is made that way.
LEMMA CollapseLoops ==
  ASSUME NEW T, NEW w \in Seq(T), M!Struck \notin T
  PROVE  \E k : Collapses(k, w, Len(w)) /\ M!Collapse(w) = k[Len(w)]
<1> DEFINE n == Len(w)
           mk == [i \in DOMAIN w |-> IF M!Superfluous(w, i) THEN M!Struck ELSE w[i]]
           U == T \cup {M!Struck}
           S == ToSet(mk) \ {M!Struck}
<1>1. n \in Nat /\ DOMAIN w = 1 .. n /\ \A i \in 1 .. n : w[i] \in T
  OBVIOUS
<1>2. M!Collapse(w) = Among(mk, S)
  <2>1. M!Collapse(w) = M!Without(mk, {M!Struck})
    BY DEF M!Collapse
  <2> HIDE DEF mk
  <2> QED BY <2>1, MWithoutIs
<1>3. /\ \A i \in 1 .. n : mk[i] = IF M!Superfluous(w, i) THEN M!Struck ELSE w[i]
      /\ mk = [i \in 1 .. n |-> mk[i]]
  BY <1>1
<1> HIDE DEF mk, n
<1>4. \A i \in 1 .. n : mk[i] \in U
  BY <1>1, <1>3
<1>5. mk \in Seq(U) /\ Len(mk) = n
  <2> HIDE DEF U
  <2> QED BY <1>1, <1>3, <1>4
<1>6. \A i \in 1 .. n : mk[i] \in S <=> ~M!Superfluous(w, i)
  <2>1. \A i \in 1 .. n : mk[i] \in ToSet(mk)
    BY <1>1, <1>3, <1>5 DEF ToSet
  <2>2. \A i \in 1 .. n : w[i] # M!Struck
    BY <1>1
  <2> QED BY <1>3, <2>1, <2>2
<1> HIDE DEF U, S
<1>7. PICK k \in [0 .. n -> Seq(U \cap S)] : Keeps(k, mk, S) /\ Among(mk, S) = k[n]
  BY <1>5, KeptIs
<1>8. k[0] = <<>> /\ \A i \in 1 .. n : k[i] = IF mk[i] \in S THEN Append(k[i - 1], mk[i]) ELSE k[i - 1]
  BY <1>5, <1>7 DEF Keeps
<1>9. \A i \in 1 .. n : k[i] = IF M!Superfluous(w, i) THEN k[i - 1] ELSE Append(k[i - 1], w[i])
  BY <1>3, <1>6, <1>8
<1>10. Collapses(k, w, n)
  BY <1>8, <1>9 DEF Collapses
<1> QED BY <1>2, <1>7, <1>10 DEF n

\* A text loses nothing but line breaks when it is collapsed, keeps no four of them in
\* succession, and is left alone if it has none.
LEMMA CollapseIs ==
  ASSUME NEW T, NEW w \in Seq(T), M!Struck \notin T, NEW ink, \A t \in ink : t.char # "nl"
  PROVE  LET text == M!Collapse(w)
         IN  /\ Among(text, ink) = Among(w, ink) /\ ~FourBreaks(text)
             /\ ~FourBreaks(w) => text = w
<1> DEFINE n == Len(w)
           text == M!Collapse(w)
<1>1. n \in Nat /\ DOMAIN w = 1 .. n /\ \A i \in 1 .. n : w[i] \in T
  OBVIOUS
<1>2. PICK k : Collapses(k, w, n) /\ text = k[n]
  BY CollapseLoops
<1>3. PICK q \in [0 .. n -> Seq(T \cap ink)] : Keeps(q, w, ink) /\ Among(w, ink) = q[n]
  BY KeptIs
<1>4. q[0] = <<>> /\ \A i \in 1 .. n : q[i] = IF w[i] \in ink THEN Append(q[i - 1], w[i]) ELSE q[i - 1]
  BY <1>3 DEF Keeps
<1>5. k[0] = <<>> /\ \A i \in 1 .. n : k[i] = IF M!Superfluous(w, i) THEN k[i - 1] ELSE Append(k[i - 1], w[i])
  BY <1>2 DEF Collapses
<1> HIDE DEF n, text
<1> DEFINE Ends(i) == \A m \in 1 .. 3 : LastBreaks(k[i], Len(k[i]), m) => LastBreaks(w, i, m)
           Same(i) == ~FourBreaks(w) => Len(k[i]) = i /\ \A j \in 1 .. i : k[i][j] = w[j]
           Right(i) == k[i] \in Seq(T) /\ Among(k[i], ink) = q[i] /\ ~FourBreaks(k[i]) /\ Ends(i) /\ Same(i)
           N == {i \in Nat : i <= n => Right(i)}
<1>6. 0 \in N
  <2>1. <<>> \in Seq(T) /\ Len(<<>>) = 0
    OBVIOUS
  <2>2. Among(<<>>, ink) = <<>>
    <3> DEFINE e == <<>>
    <3>1. e \in Seq(T) /\ Len(e) = 0
      BY <2>1
    <3> HIDE DEF e
    <3>2. PICK p \in [0 .. Len(e) -> Seq(T \cap ink)] : Keeps(p, e, ink) /\ Among(e, ink) = p[Len(e)]
      BY <3>1, KeptIs
    <3> QED BY <3>1, <3>2 DEF Keeps, e
  <2>3. ~FourBreaks(<<>>)
    BY DEF FourBreaks
  <2>4. \A m \in 1 .. 3 : ~LastBreaks(<<>>, 0, m)
    BY DEF LastBreaks
  <2>5. Right(0)
    BY <1>4, <1>5, <2>1, <2>2, <2>3, <2>4
  <2> HIDE DEF Right
  <2> QED BY <2>5
<1>7. ASSUME NEW i \in Nat, i \in N
      PROVE  i + 1 \in N
  <2> SUFFICES ASSUME i + 1 <= n
               PROVE  Right(i + 1)
    OBVIOUS
  <2>1. i + 1 \in 1 .. n /\ (i + 1) - 1 = i /\ i <= n /\ w[i + 1] \in T
    BY <1>1
  <2>2. Right(i)
    BY <1>7, <2>1
  <2> DEFINE u == k[i]
             x == w[i + 1]
  <2>3. u \in Seq(T) /\ Among(u, ink) = q[i] /\ ~FourBreaks(u)
    BY <2>2
  <2>4. \A m \in 1 .. 3 : LastBreaks(u, Len(u), m) => LastBreaks(w, i, m)
    BY <2>2
  <2>5. ~FourBreaks(w) => Len(u) = i /\ \A j \in 1 .. i : u[j] = w[j]
    BY <2>2
  <2>6. k[i + 1] = IF M!Superfluous(w, i + 1) THEN u ELSE Append(u, x)
    BY <1>5, <2>1
  <2>7. q[i + 1] = IF x \in ink THEN Append(q[i], x) ELSE q[i]
    BY <1>4, <2>1
  <2>8. M!Superfluous(w, i + 1) <=> i + 1 > 3 /\ \A j \in (i + 1) - 3 .. i + 1 : w[j].char = "nl"
    BY DEF M!Superfluous
  <2> HIDE DEF u
  <2>9. CASE M!Superfluous(w, i + 1)
    <3>1. k[i + 1] = u
      BY <2>6, <2>9
    <3>2. i + 1 \in (i + 1) - 3 .. i + 1
      BY <2>1
    <3>3. x \notin ink
      BY <2>8, <2>9, <3>2
    <3>4. ASSUME NEW m \in 1 .. 3
          PROVE  LastBreaks(w, i + 1, m)
      <4>1. m <= i + 1 /\ \A j \in (i + 1) - m + 1 .. i + 1 : j \in (i + 1) - 3 .. i + 1
        BY <2>8, <2>9
      <4> QED BY <2>8, <2>9, <4>1 DEF LastBreaks
    <3>5. FourBreaks(w)
      <4>1. i + 1 \in 4 .. Len(w)
        BY <1>1, <2>1, <2>8, <2>9 DEF n
      <4> QED BY <2>8, <2>9, <4>1 DEF FourBreaks
    <3>6. Among(k[i + 1], ink) = q[i + 1]
      BY <2>3, <2>7, <3>1, <3>3
    <3> QED BY <2>3, <3>1, <3>4, <3>5, <3>6
  <2>10. CASE ~M!Superfluous(w, i + 1)
    <3> DEFINE v == Append(u, x)
    <3>1. k[i + 1] = v
      BY <2>6, <2>10
    <3>2. u \in Seq(T) /\ x \in T
      BY <2>1, <2>3
    <3> HIDE DEF x
    <3>3. /\ v \in Seq(T) /\ Len(u) \in Nat /\ Len(v) = Len(u) + 1 /\ v[Len(u) + 1] = x
          /\ \A j \in 1 .. Len(u) : v[j] = u[j]
      BY <3>2, AppendIs
    <3>4. /\ \A m \in 1 .. 3 : LastBreaks(v, Len(v), m) =>
                x.char = "nl" /\ (m = 1 \/ LastBreaks(u, Len(u), m - 1))
          /\ FourBreaks(v) => FourBreaks(u) \/ (x.char = "nl" /\ LastBreaks(u, Len(u), 3))
      BY <3>2, LastAppended
    <3>5. Among(v, ink) = IF x \in ink THEN Append(Among(u, ink), x) ELSE Among(u, ink)
      BY <3>2, AmongAppended
    <3> HIDE DEF v
    <3>6. ASSUME NEW m \in 0 .. 3, x.char = "nl", m = 0 \/ LastBreaks(w, i, m)
          PROVE  LastBreaks(w, i + 1, m + 1)
      <4>1. m + 1 <= i + 1
        BY <3>6 DEF LastBreaks
      <4>2. ASSUME NEW j \in (i + 1) - (m + 1) + 1 .. i + 1
            PROVE  w[j].char = "nl"
        <5>1. CASE j = i + 1
          BY <3>6, <5>1 DEF x
        <5>2. CASE j # i + 1
          <6>1. j \in i - m + 1 .. i /\ m # 0
            BY <4>2, <5>2
          <6> QED BY <3>6, <6>1 DEF LastBreaks
        <5> QED BY <5>1, <5>2
      <4> QED BY <4>1, <4>2 DEF LastBreaks
    <3>7. ~FourBreaks(v)
      <4> SUFFICES ASSUME x.char = "nl", LastBreaks(u, Len(u), 3)
                   PROVE  FALSE
        BY <2>3, <3>4
      <4>1. LastBreaks(w, i, 3)
        BY <2>4
      <4>2. LastBreaks(w, i + 1, 3 + 1)
        BY <3>6, <4>1
      <4>3. i + 1 > 3 /\ \A j \in (i + 1) - 3 .. i + 1 : w[j].char = "nl"
        BY <4>2 DEF LastBreaks
      <4> QED BY <2>8, <2>10, <4>3
    <3>8. ASSUME NEW m \in 1 .. 3, LastBreaks(v, Len(v), m)
          PROVE  LastBreaks(w, i + 1, m)
      <4>1. x.char = "nl" /\ (m = 1 \/ LastBreaks(u, Len(u), m - 1))
        BY <3>4, <3>8
      <4>2. m - 1 \in 0 .. 3 /\ (m # 1 => m - 1 \in 1 .. 3) /\ (m - 1) + 1 = m /\ (m = 1 => m - 1 = 0)
        OBVIOUS
      <4>3. m - 1 = 0 \/ LastBreaks(w, i, m - 1)
        BY <2>4, <4>1, <4>2
      <4>4. LastBreaks(w, i + 1, (m - 1) + 1)
        BY <3>6, <4>1, <4>2, <4>3
      <4> QED BY <4>2, <4>4
    <3>9. ASSUME ~FourBreaks(w)
          PROVE  Len(v) = i + 1 /\ \A j \in 1 .. i + 1 : v[j] = w[j]
      <4>1. Len(u) = i /\ \A j \in 1 .. i : u[j] = w[j]
        BY <2>5, <3>9
      <4>2. ASSUME NEW j \in 1 .. i + 1
            PROVE  v[j] = w[j]
        <5>1. CASE j = i + 1
          BY <3>3, <4>1, <5>1 DEF x
        <5>2. CASE j \in 1 .. i
          BY <3>3, <4>1, <5>2
        <5> QED BY <5>1, <5>2
      <4> QED BY <3>3, <4>1, <4>2
    <3>10. Among(v, ink) = q[i + 1]
      BY <2>3, <2>7, <3>5 DEF x
    <3> QED BY <3>1, <3>3, <3>7, <3>8, <3>9, <3>10
  <2> QED BY <2>9, <2>10
<1> HIDE DEF N
<1>8. n \in N
  BY <1>1, <1>6, <1>7, Induction
<1>9. Right(n)
  <2> HIDE DEF Right
  <2> QED BY <1>1, <1>8 DEF N
<1>10. Among(text, ink) = Among(w, ink) /\ ~FourBreaks(text)
  BY <1>2, <1>3, <1>9
<1>11. ASSUME ~FourBreaks(w)
       PROVE  text = w
  <2>1. text \in Seq(T) /\ Len(text) = Len(w) /\ \A j \in 1 .. Len(w) : text[j] = w[j]
    BY <1>2, <1>9, <1>11 DEF n
  <2> QED BY <2>1
<1> QED BY <1>10, <1>11 DEF text

\* What the sections of a mail write is a text, nothing of which is struck.
LEMMA WrittenIs ==
  ASSUME NEW sections, sections \in Seq(ToSet(sections)), NEW X,
         \A s \in ToSet(sections) :
           s[1] \in SectionNames /\ (s[1] \in {"output", "partial", "prompt"} => s[2] \in Seq(X))
  PROVE  \E T : M!Struck \notin T /\ M!Written(sections) \in Seq(T)
<1> DEFINE Y == X \cup {"nl", "lines"}
           Names == SectionNames \cup {"visible", "heading", "mail"}
           T == [of : Names, char : Y]
           parts == [i \in DOMAIN sections |->
                       (IF i = 1 THEN <<>> ELSE M!LineBreak \o M!LineBreak) \o M!WrittenBy(sections[i])]
<1>1. M!Struck \notin T
  BY DEF M!Struck, SectionNames
<1>2. \A name \in Names, text \in Seq(Y) : M!Spelled(name, text) \in Seq(T)
  <2> SUFFICES ASSUME NEW name \in Names, NEW text \in Seq(Y)
               PROVE  [i \in DOMAIN text |-> [of |-> name, char |-> text[i]]] \in Seq(T)
    BY DEF M!Spelled
  <2> DEFINE f == [i \in 1 .. Len(text) |-> [of |-> name, char |-> text[i]]]
  <2>1. DOMAIN text = 1 .. Len(text) /\ Len(text) \in Nat /\ \A i \in 1 .. Len(text) : text[i] \in Y
    OBVIOUS
  <2>2. \A i \in 1 .. Len(text) : [of |-> name, char |-> text[i]] \in T
    BY <2>1
  <2>3. f \in Seq(T)
    <3> HIDE DEF T
    <3> QED BY <2>1, <2>2
  <2> QED BY <2>1, <2>3
<1>3. \A a, b \in Seq(T) : a \o b \in Seq(T)
  BY ConcatIs
<1>4. <<"lines">> \in Seq(Y) /\ <<"nl">> \in Seq(Y) /\ \A t \in Seq(X) : t \in Seq(Y)
  OBVIOUS
<1>5. /\ {"visible", "prompt", "heading", "mail"} \subseteq Names
      /\ \A s \in ToSet(sections) : s[1] \in Names
  BY DEF SectionNames
<1>6. <<>> \in Seq(T)
  OBVIOUS
<1> HIDE DEF T, Y, Names
<1>7. M!LineBreak \in Seq(T) /\ \A name \in Names : M!Lines(name) \in Seq(T)
  BY <1>2, <1>4, <1>5 DEF M!LineBreak, M!Lines
<1>8. \A s \in ToSet(sections) : M!WrittenBy(s) \in Seq(T)
  <2> SUFFICES ASSUME NEW s \in ToSet(sections)
               PROVE  M!WrittenBy(s) \in Seq(T)
    OBVIOUS
  <2>1. s[1] \in Names /\ (s[1] \in {"output", "partial", "prompt"} => s[2] \in Seq(Y))
    BY <1>4, <1>5
  <2>2. M!Lines(s[1]) \in Seq(T) /\ M!Lines("heading") \o M!LineBreak \in Seq(T)
    BY <1>3, <1>5, <1>7, <2>1
  <2>3. CASE s[1] = "output"
    <3>1. M!WrittenBy(s) = M!Spelled("visible", s[2])
      BY <2>3 DEF M!WrittenBy
    <3> QED BY <1>2, <1>5, <2>1, <2>3, <3>1
  <2>4. CASE s[1] = "partial"
    <3>1. M!WrittenBy(s) = (M!Lines("heading") \o M!LineBreak) \o M!Spelled("visible", s[2])
      BY <2>4 DEF M!WrittenBy
    <3>2. M!Spelled("visible", s[2]) \in Seq(T)
      BY <1>2, <1>5, <2>1, <2>4
    <3> QED BY <1>3, <2>2, <3>1, <3>2
  <2>5. CASE s[1] = "prompt"
    <3>1. M!WrittenBy(s) = (M!Lines("heading") \o M!LineBreak) \o M!Spelled("prompt", s[2])
      BY <2>5 DEF M!WrittenBy
    <3>2. M!Spelled("prompt", s[2]) \in Seq(T)
      BY <1>2, <1>5, <2>1, <2>5
    <3> QED BY <1>3, <2>2, <3>1, <3>2
  <2>6. CASE s[1] = "gap"
    <3>1. M!WrittenBy(s) = <<>>
      BY <2>6 DEF M!WrittenBy
    <3> QED BY <1>6, <3>1
  <2>7. CASE s[1] \notin {"output", "partial", "prompt", "gap"}
    <3>1. M!WrittenBy(s) = M!Lines(s[1])
      BY <2>7 DEF M!WrittenBy
    <3> QED BY <2>2, <3>1
  <2> QED BY <2>3, <2>4, <2>5, <2>6, <2>7
<1>9. /\ DOMAIN sections = 1 .. Len(sections) /\ Len(sections) \in Nat
      /\ \A i \in 1 .. Len(sections) : sections[i] \in ToSet(sections)
  OBVIOUS
<1>10. M!LineBreak \o M!LineBreak \in Seq(T)
  BY <1>3, <1>7
<1>11. \A i \in 1 .. Len(sections) :
         (IF i = 1 THEN <<>> ELSE M!LineBreak \o M!LineBreak) \o M!WrittenBy(sections[i]) \in Seq(T)
  BY <1>3, <1>6, <1>8, <1>9, <1>10
<1>12. parts \in Seq(Seq(T))
  <2> DEFINE W == Seq(T)
             value(i) == (IF i = 1 THEN <<>> ELSE M!LineBreak \o M!LineBreak) \o M!WrittenBy(sections[i])
  <2>1. \A i \in 1 .. Len(sections) : value(i) \in W
    BY <1>11
  <2>2. parts = [i \in 1 .. Len(sections) |-> value(i)]
    BY <1>9
  <2> HIDE DEF W, value, parts
  <2>3. parts \in Seq(W)
    BY <1>9, <2>1, <2>2
  <2> QED BY <2>3 DEF W
<1>13. M!Written(sections) = FlattenSeq(parts)
  BY MFlattenIs DEF M!Written
<1> HIDE DEF parts
<1>14. FlattenSeq(parts) \in Seq(T)
  BY <1>12, FlattenIs
<1> QED BY <1>1, <1>13, <1>14

\* What the property says of the mail of a turn.
TurnIsRight(mail, c, render) ==
  LET subject == mail.subject
      status == M!Prefix(c.status)
      parts(names) == {s \in ToSet(mail.sections) : s[1] \in names}
      shown == SubSeq(c.visible, 1, mail.bodyChars)
      cut == mail.bodyChars < Len(c.visible)
      at(char) == {i \in DOMAIN subject : subject[i] = char}
      place(name) == {i \in DOMAIN mail.sections : mail.sections[i][1] = name}
      seconds == M!FormatDuration(c.durationMs)
      written == M!Written(mail.sections)
      ink == {t \in ToSet(written) \cup ToSet(mail.text) : t.char # "nl"}
  IN  /\ Len(subject) <= 200 /\ "nl" \notin ToSet(subject)
      /\ IsPrefix(status, subject)
      /\ at("c") \cup at("4") # {} /\ at("m") # {} => Max(at("c") \cup at("4")) < Min(at("m"))
      /\ c.status = "error" /\ (\E f \in c.failure : "c" \in ToSet(f.code)) => "c" \in ToSet(subject)
      /\ mail.bodyChars <= render.maxBodyChars
      /\ cut => mail.bodyChars = render.maxBodyChars
      /\ mail.truncated <=> cut
      /\ Among(mail.text, ink) = Among(written, ink) /\ ~FourBreaks(mail.text)
      /\ ~FourBreaks(written) => mail.text = written
      /\ \A s \in parts({"output", "partial"}) : s[2] = shown
      /\ parts({"output"}) # {} <=> c.status # "error"
      /\ parts({"no-output"}) # {} <=> c.status = "error" /\ M!Blank(shown)
      /\ parts({"failure"}) # {} <=> c.status = "error"
      /\ \A i \in place("failure"), j \in place("partial") : i < j
      /\ \A s \in parts({"footer"}) : render.includeFooter /\ ("text-was-cut" \in s[2] <=> cut)
      /\ parts({"footer"}) = {} => ~render.includeFooter
      /\ parts({"prompt"}) # {} => render.includeUserPrompt /\ parts({"prompt"}) = {<<"prompt", c.userText>>}
      /\ parts({"metadata"}) # {} <=> render.includeMetadata
      /\ seconds[1] = "minutes" => (60 * seconds[2] + seconds[3]) * 1000 - c.durationMs \in -500 .. 500
      /\ seconds[1] = "tenths" => seconds[2] * 100 - c.durationMs \in -50 .. 50

\* The mail of a turn in these characters is right.
LEMMA TurnIsTold ==
  ASSUME NEW c, NEW render,
         c = [status |-> c.status, visible |-> c.visible, userText |-> c.userText, model |-> c.model,
              durationMs |-> c.durationMs, failure |-> c.failure, usageComplete |-> c.usageComplete,
              usageMissingCount |-> c.usageMissingCount, usageUnobservableRetries |-> c.usageUnobservableRetries],
         c.status \in Statuses, c.durationMs \in Nat \cup {M!UnknownDuration},
         c.visible \in Seq(ToSet(c.visible)), c.userText \in Seq(ToSet(c.userText)), c.model \in Seq({"m"} \cup M!Space), IsFailure(c.failure),
         {render.includeMetadata, render.includeUserPrompt, render.includeFooter} \subseteq BOOLEAN,
         render.maxBodyChars \in Nat
  PROVE  TurnIsRight(M!RenderTurn(c, render), c, render)
<1> DEFINE limit == render.maxBodyChars
           n == Len(c.visible)
           k == IF n < limit THEN n ELSE limit
           text == SubSeq(c.visible, 1, k)
           cut == n > limit
           d == [c EXCEPT !.visible = text]
           sections == M!TurnSections(d, render, cut)
           mail == M!RenderTurn(c, render)
<1>1. /\ n \in Nat /\ limit \in Nat /\ k \in 0 .. n /\ k <= limit
      /\ cut <=> k < n
      /\ k < n => k = limit
  OBVIOUS
<1>2. text \in Seq(ToSet(c.visible)) /\ Len(text) = k
  BY <1>1
<1>3. mail = [subject |-> M!RenderSubject(d), sections |-> sections, text |-> M!Collapse(M!Written(sections)),
             bodyChars |-> Len(text), truncated |-> cut]
  BY DEF M!RenderTurn, M!TruncateVisibleText
<1> HIDE DEF text
<1>4. /\ d.status = c.status /\ d.visible = text /\ d.userText = c.userText /\ d.model = c.model
      /\ d.durationMs = c.durationMs /\ d.failure = c.failure
  OBVIOUS
<1> HIDE DEF d
<1>5. SubjectIsRight(M!RenderSubject(d), d)
  BY <1>4, SubjectIs
<1>6. SectionsAreRight(sections, d, render, cut)
  <2>1. cut \in BOOLEAN
    BY <1>1
  <2> HIDE DEF cut
  <2> QED BY <2>1, SectionsAre
<1>7. /\ mail.subject = M!RenderSubject(d) /\ mail.sections = sections /\ mail.bodyChars = k
      /\ mail.text = M!Collapse(M!Written(sections)) /\ mail.truncated = cut
  BY <1>2, <1>3
<1> HIDE DEF mail, sections
<1>8. SubjectIsRight(mail.subject, c)
  BY <1>4, <1>5, <1>7 DEF SubjectIsRight
<1> DEFINE shown == SubSeq(c.visible, 1, mail.bodyChars)
           short == mail.bodyChars < Len(c.visible)
<1>9. shown = text
  BY <1>7 DEF text
<1>10. short <=> cut
  BY <1>1, <1>7
<1>11. mail.bodyChars <= render.maxBodyChars /\ (short => mail.bodyChars = render.maxBodyChars)
  BY <1>1, <1>7
<1> DEFINE seconds == M!FormatDuration(c.durationMs)
<1>12. /\ seconds[1] = "minutes" => (60 * seconds[2] + seconds[3]) * 1000 - c.durationMs \in -500 .. 500
       /\ seconds[1] = "tenths" => seconds[2] * 100 - c.durationMs \in -50 .. 50
  <2>1. IsRounded(seconds, c.durationMs)
    BY DurationIsRounded
  <2> HIDE DEF seconds
  <2> QED BY <2>1 DEF IsRounded
<1> DEFINE written == M!Written(mail.sections)
           ink == {t \in ToSet(written) \cup ToSet(mail.text) : t.char # "nl"}
<1>14. /\ Among(mail.text, ink) = Among(written, ink) /\ ~FourBreaks(mail.text)
       /\ ~FourBreaks(written) => mail.text = written
  <2> DEFINE X == ToSet(c.visible) \cup ToSet(c.userText)
  <2>1. \A x : x \in Seq(ToSet(c.visible)) \/ x \in Seq(ToSet(c.userText)) => x \in Seq(X)
    OBVIOUS
  <2>2. text \in Seq(X) /\ c.userText \in Seq(X)
    BY <1>2, <2>1
  <2> HIDE DEF X
  <2>3. /\ sections \in Seq(ToSet(sections)) /\ \A s \in ToSet(sections) : s[1] \in SectionNames
        /\ \A s \in {s \in ToSet(sections) : s[1] \in {"output", "partial"}} : s[2] = d.visible
        /\ {s \in ToSet(sections) : s[1] \in {"prompt"}} # {} =>
             {s \in ToSet(sections) : s[1] \in {"prompt"}} = {<<"prompt", d.userText>>}
    BY <1>6 DEF SectionsAreRight
  <2>4. ASSUME NEW s \in ToSet(sections), s[1] \in {"output", "partial", "prompt"}
        PROVE  s[2] \in Seq(X)
    <3>1. CASE s[1] = "prompt"
      <4>1. s = <<"prompt", d.userText>>
        BY <2>3, <3>1
      <4> QED BY <1>4, <2>2, <4>1
    <3>2. CASE s[1] # "prompt"
      BY <1>4, <2>2, <2>3, <2>4, <3>2
    <3> QED BY <3>1, <3>2
  <2>5. PICK T : M!Struck \notin T /\ written \in Seq(T)
    BY <1>7, <2>3, <2>4, WrittenIs
  <2>6. mail.text = M!Collapse(written) /\ \A t \in ink : t.char # "nl"
    BY <1>7
  <2> HIDE DEF written, ink
  <2> QED BY <2>5, <2>6, CollapseIs
<1>15. mail.truncated <=> short
  BY <1>7, <1>10
<1> HIDE DEF seconds, cut, shown, short, written, ink
<1> DEFINE parts(names) == {s \in ToSet(mail.sections) : s[1] \in names}
           place(name) == {i \in DOMAIN mail.sections : mail.sections[i][1] = name}
<1>13. /\ \A s \in parts({"output", "partial"}) : s[2] = shown
       /\ parts({"output"}) # {} <=> c.status # "error"
       /\ parts({"no-output"}) # {} <=> c.status = "error" /\ M!Blank(shown)
       /\ parts({"failure"}) # {} <=> c.status = "error"
       /\ \A i \in place("failure"), j \in place("partial") : i < j
       /\ \A s \in parts({"footer"}) : render.includeFooter /\ ("text-was-cut" \in s[2] <=> short)
       /\ parts({"footer"}) = {} => ~render.includeFooter
       /\ parts({"prompt"}) # {} => render.includeUserPrompt /\ parts({"prompt"}) = {<<"prompt", c.userText>>}
       /\ parts({"metadata"}) # {} <=> render.includeMetadata
  BY <1>4, <1>6, <1>7, <1>9, <1>10 DEF SectionsAreRight
<1> HIDE DEF parts, place
<1>16. TurnIsRight(mail, c, render)
  BY <1>8, <1>11, <1>12, <1>13, <1>14, <1>15
     DEF TurnIsRight, SubjectIsRight, parts, place, seconds, shown, short, written, ink
<1> QED BY <1>16 DEF mail

\* What the property says of the mail of an approval.
ApprovalIsRight(mail, notice, render) ==
  LET requests == {s \in ToSet(mail.sections) : s[1] = "request"}
  IN  /\ IsPrefix(M!AttentionPrefix("approval"), mail.subject) /\ "t" \in ToSet(mail.subject)
      /\ Len(mail.subject) <= 200
      /\ requests = {<<"request", <<<<"tool", notice.toolName>>, <<"reason", notice.reason>>,
                                     <<"arguments-not-included">>>>>>}
      /\ Len(mail.sections) = Cardinality({s \in {"includeMetadata", "includeFooter"} : render[s]}) + 1

\* The mail of an approval in these characters is right.
LEMMA ApprovalIsTold ==
  ASSUME NEW toolName \in Seq({"t"}), toolName # <<>>, Len(toolName) <= 200,
         NEW reason \in Seq({"t"}), Len(reason) <= 1000, NEW render,
         {render.includeMetadata, render.includeFooter} \subseteq BOOLEAN,
         NEW notice, notice = [kind |-> "approval", toolName |-> toolName, reason |-> reason]
  PROVE  ApprovalIsRight(M!RenderAttention(notice, M!ApprovalLines(notice), render), notice, render)
<1> DEFINE label == M!SanitizeLine(toolName, 80)
           prefix == M!AttentionPrefix("approval")
           subject == M!RenderAttentionSubject(notice)
           lines == M!ApprovalLines(notice)
           mail == M!RenderAttention(notice, lines, render)
           joined == M!Joined(label)
           T == {"t", "sp", "dash", "ellipsis", "approval"}
<1>1. notice.kind = "approval" /\ notice.toolName = toolName /\ notice.reason = reason
  OBVIOUS
<1>2. \A s \in Seq({"t"}) : ToSet(s) \cap M!Space = {} /\ ToSet(s) \subseteq {"t"}
  <2> TAKE s \in Seq({"t"})
  <2>1. ToSet(s) \subseteq {"t"}
    BY HoldsItsOwn
  <2> QED BY <2>1 DEF M!Space
<1>3. "joined" \notin {"t"} /\ 80 \in Nat /\ 200 \in Nat /\ 1000 \in Nat /\ 80 >= 2 /\ 200 >= 2 /\ 1000 >= 2
  OBVIOUS
<1>4. IsLine(label, {"t"}, toolName, 80)
  BY <1>3, LineIs
<1>5. M!SanitizeLine(toolName, 200) = toolName
  <2>1. IsLine(M!SanitizeLine(toolName, 200), {"t"}, toolName, 200)
    BY <1>3, LineIs
  <2> QED BY <1>2, <2>1 DEF IsLine
<1>6. M!SanitizeLine(reason, 1000) = reason
  <2>1. IsLine(M!SanitizeLine(reason, 1000), {"t"}, reason, 1000)
    BY <1>3, LineIs
  <2> QED BY <1>2, <2>1 DEF IsLine
<1>7. lines = <<<<"tool", toolName>>, <<"reason", reason>>, <<"arguments-not-included">>>>
  BY <1>1, <1>5, <1>6 DEF M!ApprovalLines
<1>8. /\ label \in Seq(T) /\ Len(label) <= 80 /\ label # <<>> /\ "t" \in ToSet(label)
  <2>1. OneLine({"t"}) \cup {"ellipsis"} \subseteq T
    BY DEF OneLine
  <2> DEFINE W == OneLine({"t"}) \cup {"ellipsis"}
  <2>2. label \in Seq(W) /\ Len(label) <= 80
    BY <1>4 DEF IsLine
  <2>3. W \subseteq T
    BY <2>1
  <2> HIDE DEF W, T, label
  <2>4. label \in Seq(T)
    BY <2>2, <2>3, Wider
  <2>5. 1 \in 1 .. Len(toolName) /\ toolName[1] \in ToSet(toolName) /\ toolName[1] = "t"
    BY DEF ToSet
  <2>6. ToSet(toolName) \cap M!Space = {}
    BY <1>2
  <2>7. "nl" \notin ToSet(toolName) /\ toolName[1] \notin M!Space /\ ~ (ToSet(toolName) \subseteq M!Space)
    BY <2>5, <2>6 DEF M!Space
  <2>8. Len(label) >= 1 /\ label[1] = "t"
    BY <1>4, <2>5, <2>7 DEF IsLine
  <2>9. 1 \in 1 .. Len(label) /\ label # <<>>
    BY <2>4, <2>8
  <2> QED BY <2>2, <2>4, <2>8, <2>9 DEF ToSet
<1>9. prefix \in Seq({"approval"}) /\ Len(prefix) = 23
  <2> DEFINE n == 23
  <2>1. prefix = [i \in 1 .. n |-> "approval"]
    BY DEF M!AttentionPrefix
  <2>2. n \in Nat
    OBVIOUS
  <2> HIDE DEF n, prefix
  <2>3. prefix \in Seq({"approval"}) /\ Len(prefix) = n
    BY <2>1, <2>2
  <2> QED BY <2>3 DEF n
<1>10. subject = IF Len(prefix \o joined) <= 200 THEN prefix \o joined ELSE prefix
  BY <1>1 DEF M!RenderAttentionSubject, M!SubjectMaxChars
<1>11. {"sp", "dash"} \subseteq T /\ {"approval"} \subseteq T
  OBVIOUS
<1> HIDE DEF T, label, prefix, subject
<1>12. joined \in Seq(T) /\ Len(joined) <= Len(label) + 3 /\ ToSet(label) \subseteq ToSet(joined)
  BY <1>8, <1>11, JoinedIs
<1>13. prefix \in Seq(T)
  BY <1>9, <1>11, Wider
<1> HIDE DEF joined
<1>14. joined \in Seq(T) /\ Len(joined) \in Nat /\ Len(label) \in Nat
  BY <1>8, <1>12
<1> DEFINE whole == prefix \o joined
<1>15. Len(whole) = Len(prefix) + Len(joined)
  BY <1>13, <1>14, ConcatIs
<1>16. subject = whole /\ Len(subject) <= 200
  <2>1. Len(whole) <= 200
    BY <1>8, <1>9, <1>12, <1>14, <1>15
  <2> QED BY <1>10, <2>1
<1>17. IsPrefix(prefix, subject) /\ "t" \in ToSet(subject)
  <2>1. IsPrefix(prefix, whole)
    BY <1>13, <1>14, PrefixIs
  <2>2. ToSet(whole) = ToSet(prefix) \cup ToSet(joined)
    BY <1>13, <1>14, CatHolds
  <2> HIDE DEF whole
  <2> QED BY <1>8, <1>12, <1>16, <2>1, <2>2
<1> DEFINE meta == <<"metadata", "human-input-requested">>
           request == <<"request", lines>>
           footer == <<"footer", {"cannot-be-answered-by-reply"}>>
           sections == mail.sections
           S == {meta, request, footer}
           x == M!Part(render.includeMetadata, meta)
           z == M!Part(render.includeFooter, footer)
<1>18. mail.subject = subject /\ sections = (x \o <<request>>) \o z
  BY DEF M!RenderAttention, subject
<1>19. meta[1] = "metadata" /\ request[1] = "request" /\ footer[1] = "footer"
  OBVIOUS
<1>20. meta \in S /\ request \in S /\ footer \in S
  OBVIOUS
<1> HIDE DEF meta, request, footer, S, mail, lines, subject
<1>21. /\ x \in Seq(S) /\ (render.includeMetadata => ToSet(x) = {meta})
       /\ ~render.includeMetadata => ToSet(x) = {}
  BY <1>20, PartHolds
<1>22. /\ z \in Seq(S) /\ (render.includeFooter => ToSet(z) = {footer})
       /\ ~render.includeFooter => ToSet(z) = {}
  BY <1>20, PartHolds
<1>23. /\ Len(x) = IF render.includeMetadata THEN 1 ELSE 0
       /\ Len(z) = IF render.includeFooter THEN 1 ELSE 0
  BY DEF M!Part
<1>24. <<request>> \in Seq(S) /\ Len(<<request>>) = 1 /\ ToSet(<<request>>) = {request}
  BY <1>20 DEF ToSet
<1> HIDE DEF x, z
<1> DEFINE r == <<request>>
           y == x \o r
<1>25. y \in Seq(S) /\ Len(y) = Len(x) + 1 /\ Len(x) \in Nat /\ ToSet(y) = ToSet(x) \cup {request}
  <2>1. r \in Seq(S) /\ Len(r) = 1 /\ ToSet(r) = {request}
    BY <1>24
  <2> HIDE DEF r
  <2>2. y \in Seq(S) /\ Len(y) = Len(x) + Len(r) /\ Len(x) \in Nat
    BY <1>21, <2>1, ConcatIs
  <2>3. ToSet(y) = ToSet(x) \cup ToSet(r)
    BY <1>21, <2>1, CatHolds
  <2> QED BY <2>1, <2>2, <2>3
<1>26. sections = y \o z
  BY <1>18
<1> HIDE DEF y, r, sections
<1>27. Len(sections) = Len(y) + Len(z) /\ Len(z) \in Nat /\ ToSet(sections) = ToSet(y) \cup ToSet(z)
  <2>1. y \in Seq(S)
    BY <1>25
  <2>2. z \in Seq(S)
    BY <1>22
  <2>3. Len(y \o z) = Len(y) + Len(z) /\ Len(z) \in Nat
    BY <2>1, <2>2, ConcatIs
  <2>4. ToSet(y \o z) = ToSet(y) \cup ToSet(z)
    BY <2>1, <2>2, CatHolds
  <2> QED BY <1>26, <2>3, <2>4
<1>28. {s \in ToSet(sections) : s[1] = "request"} = {request}
  BY <1>19, <1>21, <1>22, <1>25, <1>27
<1>29. Len(sections) = Cardinality({s \in {"includeMetadata", "includeFooter"} : render[s]}) + 1
  <2> DEFINE on == {s \in {"includeMetadata", "includeFooter"} : render[s]}
  <2>1. Cardinality({}) = 0 /\ Cardinality({"includeMetadata"}) = 1 /\ Cardinality({"includeFooter"}) = 1
    BY FS_EmptySet, FS_Singleton
  <2>2. Cardinality({"includeMetadata", "includeFooter"}) = 2
    <3>1. IsFiniteSet({"includeFooter"}) /\ Cardinality({"includeFooter"}) = 1
      BY FS_Singleton
    <3>2. {"includeMetadata", "includeFooter"} = {"includeFooter"} \cup {"includeMetadata"}
      OBVIOUS
    <3> DEFINE one == {"includeFooter"}
    <3>3. "includeMetadata" \notin one
      OBVIOUS
    <3>4. IsFiniteSet(one) /\ Cardinality(one) = 1
      BY <3>1
    <3> HIDE DEF one
    <3>5. Cardinality(one \cup {"includeMetadata"}) = Cardinality(one) + 1
      BY <3>3, <3>4, FS_AddElement
    <3>6. Cardinality(one \cup {"includeMetadata"}) = 2
      BY <3>4, <3>5
    <3> QED BY <3>2, <3>6 DEF one
  <2>3. Cardinality(on) = Len(x) + Len(z)
    <3>1. CASE render.includeMetadata /\ render.includeFooter
      <4>1. on = {"includeMetadata", "includeFooter"}
        BY <3>1
      <4>2. Len(x) = 1 /\ Len(z) = 1
        BY <1>23, <3>1
      <4> HIDE DEF on
      <4>3. Cardinality(on) = 2
        BY <2>2, <4>1
      <4> QED BY <4>2, <4>3
    <3>2. CASE render.includeMetadata /\ ~render.includeFooter
      <4>1. on = {"includeMetadata"}
        BY <3>2
      <4>2. Len(x) = 1 /\ Len(z) = 0
        BY <1>23, <3>2
      <4> HIDE DEF on
      <4>3. Cardinality(on) = 1
        BY <2>1, <4>1
      <4> QED BY <4>2, <4>3
    <3>3. CASE ~render.includeMetadata /\ render.includeFooter
      <4>1. on = {"includeFooter"}
        BY <3>3
      <4>2. Len(x) = 0 /\ Len(z) = 1
        BY <1>23, <3>3
      <4> HIDE DEF on
      <4>3. Cardinality(on) = 1
        BY <2>1, <4>1
      <4> QED BY <4>2, <4>3
    <3>4. CASE ~render.includeMetadata /\ ~render.includeFooter
      <4>1. on = {}
        BY <3>4
      <4>2. Len(x) = 0 /\ Len(z) = 0
        BY <1>23, <3>4
      <4> HIDE DEF on
      <4>3. Cardinality(on) = 0
        BY <2>1, <4>1
      <4> QED BY <4>2, <4>3
    <3> QED BY <3>1, <3>2, <3>3, <3>4
  <2> HIDE DEF on
  <2>4. Len(sections) = Cardinality(on) + 1
    BY <1>25, <1>27, <2>3
  <2> QED BY <2>4 DEF on
<1>30. request = <<"request", <<<<"tool", notice.toolName>>, <<"reason", notice.reason>>,
                                <<"arguments-not-included">>>>>>
  BY <1>1, <1>7 DEF request
<1> QED BY <1>16, <1>17, <1>18, <1>28, <1>29, <1>30 DEF ApprovalIsRight, mail, lines, prefix, sections

\* A text of n characters "t".
Spelled(n) == [i \in 1 .. n |-> "t"]

\* It has n characters.
LEMMA SpelledIs ==
  ASSUME NEW n \in Nat
  PROVE  Spelled(n) \in Seq({"t"}) /\ Len(Spelled(n)) = n
BY DEF Spelled

\* What is left of a text is natural and within its limit.
LEMMA CharsAre ==
  ASSUME NEW v, v[1] = "text" => v[2] \in Nat, NEW limit \in Nat \ {0}
  PROVE  /\ Chars(CleanText(v, limit)) \in 0 .. limit
         /\ CleanText(v, limit) # Missing => Chars(CleanText(v, limit)) >= 1
<1> DEFINE n == IF v[2] < limit THEN v[2] ELSE limit
           clean == CleanText(v, limit)
<1>1. CASE v[1] = "text" /\ v[2] > 0
  <2>1. clean = <<"text", n>>
    BY <1>1 DEF CleanText
  <2>2. n \in 1 .. limit
    BY <1>1
  <2> HIDE DEF clean, n
  <2>3. clean[1] = "text" /\ clean[2] = n
    BY <2>1
  <2>4. Missing[1] = "missing"
    BY DEF Missing
  <2>5. clean # Missing
    BY <2>3, <2>4
  <2>6. Chars(clean) = n
    BY <2>3, <2>5 DEF Chars
  <2> QED BY <2>2, <2>6 DEF clean
<1>2. CASE ~ (v[1] = "text" /\ v[2] > 0)
  <2>1. clean = Missing
    BY <1>2 DEF CleanText
  <2>2. Chars(clean) = 0
    BY <2>1 DEF Chars
  <2> HIDE DEF clean
  <2> QED BY <2>1, <2>2 DEF clean
<1> QED BY <1>1, <1>2

\* The mail of an approval that was drawn is right.
LEMMA ApprovalsAreTold ==
  ASSUME NEW a \in Approvals, UsableApproval(a.data), NEW notice,
         notice = [kind |-> "approval", toolName |-> Spelled(Chars(ToApproval(a.data).toolName)),
                   reason |-> Spelled(Chars(ToApproval(a.data).reason))]
  PROVE  ApprovalIsRight(M!RenderAttention(notice, M!ApprovalLines(notice), a.render), notice, a.render)
<1> DEFINE record == a.data[2]
           render == a.render
           tool == record.toolName
           why == record.reason
           m == Chars(CleanText(tool, MaxToolNameChars))
           n == Chars(CleanText(why, MaxReasonChars))
<1>1. /\ MaxToolNameChars \in Nat \ {0} /\ MaxReasonChars \in Nat \ {0}
      /\ MaxToolNameChars <= 200 /\ MaxReasonChars <= 1000
  BY ParserAssumption, ApprovalsAssumption
<1>2. a.data[1] = "record" /\ CleanText(tool, MaxToolNameChars) # Missing
  BY DEF UsableApproval
<1>3. /\ {render.includeMetadata, render.includeFooter} \subseteq BOOLEAN
      /\ tool[1] = "text" => tool[2] \in Nat
      /\ why[1] = "text" => why[2] \in Nat
  BY <1>2, ApprovalsAssumption
<1>4. Chars(ToApproval(a.data).toolName) = m /\ Chars(ToApproval(a.data).reason) = n
  BY DEF ToApproval
<1> HIDE DEF tool, why
<1>5. m \in 0 .. MaxToolNameChars /\ m >= 1
  BY <1>1, <1>2, <1>3, CharsAre
<1>6. n \in 0 .. MaxReasonChars
  BY <1>1, <1>3, CharsAre
<1> HIDE DEF m, n, record, render
<1>7. m \in Nat /\ m >= 1 /\ m <= 200 /\ n \in Nat /\ n <= 1000
  BY <1>1, <1>5, <1>6
<1> DEFINE toolName == Spelled(m)
           reason == Spelled(n)
<1>8. toolName \in Seq({"t"}) /\ Len(toolName) = m
  BY <1>7, SpelledIs
<1>9. reason \in Seq({"t"}) /\ Len(reason) = n
  BY <1>7, SpelledIs
<1>10. notice = [kind |-> "approval", toolName |-> toolName, reason |-> reason]
  BY <1>4
<1> HIDE DEF toolName, reason
<1>11. toolName # <<>> /\ Len(toolName) <= 200 /\ Len(reason) <= 1000
  BY <1>7, <1>8, <1>9
<1>12. ApprovalIsRight(M!RenderAttention(notice, M!ApprovalLines(notice), render), notice, render)
  BY <1>3, <1>8, <1>9, <1>10, <1>11, ApprovalIsTold
<1> QED BY <1>12 DEF render

\* The mail of a turn that was drawn is right.
LEMMA TurnsAreTold ==
  ASSUME NEW mail \in Mails
  PROVE  TurnIsRight(M!RenderTurn(mail.candidate, mail.render), mail.candidate, mail.render)
<1> DEFINE c == mail.candidate
           render == mail.render
<1>1. /\ c = [status |-> c.status, visible |-> c.visible, userText |-> c.userText, model |-> c.model,
              durationMs |-> c.durationMs, failure |-> c.failure, usageComplete |-> c.usageComplete,
              usageMissingCount |-> c.usageMissingCount,
              usageUnobservableRetries |-> c.usageUnobservableRetries]
      /\ c.status \in Statuses /\ c.durationMs \in Nat \cup {M!UnknownDuration}
      /\ c.visible \in Seq(ToSet(c.visible)) /\ c.userText \in Seq(ToSet(c.userText))
      /\ c.model \in Seq({"m"} \cup M!Space)
      /\ {render.includeMetadata, render.includeUserPrompt, render.includeFooter} \subseteq BOOLEAN
      /\ render.maxBodyChars \in Nat
  BY MailsAssumption
<1>2. IsFailure(c.failure)
  BY MailsAssumption DEF IsFailure
<1> HIDE DEF c, render
<1>3. TurnIsRight(M!RenderTurn(c, render), c, render)
  BY <1>1, <1>2, TurnIsTold
<1> QED BY <1>3 DEF c, render

\* A mail says what it holds and holds no more than it may.
THEOREM MailsAreTrue == Spec => []MailsSayWhatTheyHold
<1>1. ASSUME Drawn
      PROVE  MailsSayWhatTheyHold
  <2>1. kind = "approval" => input \in Approvals
    BY <1>1 DEF Drawn
  <2>2. kind = "mail" => input \in Mails
    BY <1>1 DEF Drawn
  <2>3. CASE kind = "approval"
    <3> SUFFICES ASSUME UsableApproval(input.data)
                 PROVE  LET notice == [kind |-> "approval",
                                       toolName |-> Spelled(Chars(ToApproval(input.data).toolName)),
                                       reason |-> Spelled(Chars(ToApproval(input.data).reason))]
                        IN  \A mail \in {M!RenderAttention(notice, M!ApprovalLines(notice), input.render)} :
                              ApprovalIsRight(mail, notice, input.render)
      BY <2>3 DEF MailsSayWhatTheyHold, ApprovalIsRight, Spelled
    <3> QED BY <2>1, <2>3, ApprovalsAreTold
  <2>4. CASE kind = "mail"
    <3> SUFFICES \A mail \in {M!RenderTurn(input.candidate, input.render)} :
                   TurnIsRight(mail, input.candidate, input.render)
      BY <2>4 DEF MailsSayWhatTheyHold, TurnIsRight, FourBreaks
    <3> QED BY <2>2, <2>4, TurnsAreTold
  <2>5. CASE kind \notin {"approval", "mail"}
    BY <2>5 DEF MailsSayWhatTheyHold
  <2> QED BY <2>3, <2>4, <2>5
<1> QED BY <1>1, InputsAreDrawn, PTL

-----------------------------------------------------------------------------
\* The buffers of records.

\* k was written and neither cleared nor pushed out by operation n.
IsLate(e, n, k) == k > n - e.maxRecords /\ \A j \in k .. n : e.operations[j] # "clear"

\* b holds the records after start up to n, which are those that are late.
HoldsFrom(b, e, n, start) ==
  /\ b.records \in Seq(Nat) /\ Len(b.records) = n - start
  /\ \A j \in 1 .. n - start : b.records[j] = start + j
  /\ \A k \in 1 .. n : k > start <=> IsLate(e, n, k)

Logged(e, n) == {i \in 1 .. n : e.operations[i] = "log"}

\* b is what the first n operations make of a buffer.
IsBuffer(b, e, n) ==
  /\ b = [records |-> b.records, emitted |-> b.emitted]
  /\ \E start \in 0 .. n : HoldsFrom(b, e, n, start)
  /\ b.emitted = Cardinality(Logged(e, n))

\* What the next operation adds to those that were logged.
LEMMA LoggedGrows ==
  ASSUME NEW e, NEW n \in Nat
  PROVE  /\ IsFiniteSet(Logged(e, n)) /\ Cardinality(Logged(e, n)) \in Nat
         /\ e.operations[n + 1] = "log" => Cardinality(Logged(e, n + 1)) = Cardinality(Logged(e, n)) + 1
         /\ e.operations[n + 1] # "log" => Logged(e, n + 1) = Logged(e, n)
<1>1. IsFiniteSet(1 .. n)
  BY FS_Interval
<1>2. Logged(e, n) \subseteq 1 .. n
  BY DEF Logged
<1>3. IsFiniteSet(Logged(e, n))
  BY <1>1, <1>2, FS_Subset
<1>4. Cardinality(Logged(e, n)) \in Nat
  BY <1>3, FS_CardinalityType
<1>5. 1 .. n + 1 = (1 .. n) \cup {n + 1} /\ n + 1 \notin 1 .. n
  OBVIOUS
<1>6. ASSUME e.operations[n + 1] = "log"
      PROVE  Cardinality(Logged(e, n + 1)) = Cardinality(Logged(e, n)) + 1
  <2>1. Logged(e, n + 1) = Logged(e, n) \cup {n + 1} /\ n + 1 \notin Logged(e, n)
    BY <1>5, <1>6 DEF Logged
  <2> QED BY <1>3, <2>1, FS_AddElement
<1>7. e.operations[n + 1] # "log" => Logged(e, n + 1) = Logged(e, n)
  BY <1>5 DEF Logged
<1> QED BY <1>3, <1>4, <1>6, <1>7

\* Nothing outlives a clear.
LEMMA ClearHoldsNothing ==
  ASSUME NEW e, NEW n \in Nat, NEW b, IsBuffer(b, e, n), e.operations[n + 1] = "clear"
  PROVE  IsBuffer(B!ClearRecords(b), e, n + 1)
<1> DEFINE c == B!ClearRecords(b)
<1>1. c = [records |-> <<>>, emitted |-> b.emitted]
  BY DEF IsBuffer, B!ClearRecords
<1>2. ASSUME NEW k \in 1 .. n + 1
      PROVE  ~IsLate(e, n + 1, k)
  <2>1. n + 1 \in k .. n + 1
    OBVIOUS
  <2> QED BY <2>1 DEF IsLate
<1>3. \A k \in 1 .. n + 1 : ~(k > n + 1)
  OBVIOUS
<1>4. <<>> \in Seq(Nat) /\ Len(<<>>) = (n + 1) - (n + 1) /\ 1 .. (n + 1) - (n + 1) = {}
  OBVIOUS
<1>5. c.records = <<>> /\ c.emitted = b.emitted
  BY <1>1
<1> HIDE DEF c
<1>6. HoldsFrom(c, e, n + 1, n + 1)
  BY <1>2, <1>3, <1>4, <1>5 DEF HoldsFrom
<1>7. c.emitted = Cardinality(Logged(e, n + 1))
  BY <1>5, LoggedGrows DEF IsBuffer
<1>8. n + 1 \in 0 .. n + 1
  OBVIOUS
<1>9. c = [records |-> c.records, emitted |-> c.emitted]
  BY <1>1
<1> QED BY <1>6, <1>7, <1>8, <1>9 DEF IsBuffer, c

\* What is late once a record was written: that record, and what was late and is still.
LEMMA LateMovesOn ==
  ASSUME NEW e, e.maxRecords \in Nat, NEW n \in Nat, e.operations[n + 1] # "clear", NEW k \in 1 .. n + 1
  PROVE  IsLate(e, n + 1, k)
           <=> IF k = n + 1 THEN e.maxRecords > 0 ELSE IsLate(e, n, k) /\ k > n + 1 - e.maxRecords
<1>1. CASE k = n + 1
  <2>1. k .. n + 1 = {n + 1}
    BY <1>1
  <2>2. k > n + 1 - e.maxRecords <=> e.maxRecords > 0
    BY <1>1
  <2> QED BY <1>1, <2>1, <2>2 DEF IsLate
<1>2. CASE k # n + 1
  <2>1. k .. n + 1 = (k .. n) \cup {n + 1}
    BY <1>2
  <2>2. k > n + 1 - e.maxRecords => k > n - e.maxRecords
    OBVIOUS
  <2> QED BY <1>2, <2>1, <2>2 DEF IsLate
<1> QED BY <1>1, <1>2

\* A buffer that may hold records takes the new one, and gives up the oldest for it
\* when it is full; one that may hold none stays empty.
LEMMA KeepHoldsTheLatest ==
  ASSUME NEW e, e.maxRecords \in Nat, NEW n \in Nat, NEW b, IsBuffer(b, e, n), e.operations[n + 1] = "log"
  PROVE  IsBuffer(B!Keep(b, n + 1, e.maxRecords), e, n + 1)
<1> DEFINE c == B!Keep(b, n + 1, e.maxRecords)
           grown == Append(b.records, n + 1)
           max == e.maxRecords
<1>1. PICK start \in 0 .. n : HoldsFrom(b, e, n, start)
  BY DEF IsBuffer
<1>2. /\ b.records \in Seq(Nat) /\ Len(b.records) = n - start
      /\ \A j \in 1 .. n - start : b.records[j] = start + j
      /\ \A k \in 1 .. n : k > start <=> IsLate(e, n, k)
  BY <1>1 DEF HoldsFrom
<1>3. /\ c = [records |-> c.records, emitted |-> c.emitted]
      /\ c.emitted = b.emitted + 1
      /\ c.records = IF max = 0 THEN b.records ELSE IF Len(grown) > max THEN Tail(grown) ELSE grown
  BY DEF B!Keep
<1> HIDE DEF c
<1>4. c.emitted = Cardinality(Logged(e, n + 1))
  BY <1>3, LoggedGrows DEF IsBuffer
<1>5. max \in Nat
  OBVIOUS
<1>6. /\ grown \in Seq(Nat) /\ Len(grown) = (n + 1) - start
      /\ \A j \in 1 .. (n + 1) - start : grown[j] = start + j
  <2>1. n + 1 \in Nat /\ start \in Nat /\ Len(b.records) + 1 = (n + 1) - start /\ start + ((n + 1) - start) = n + 1
    BY <1>2
  <2>2. /\ Len(grown) = Len(b.records) + 1 /\ grown[Len(b.records) + 1] = n + 1 /\ grown \in Seq(Nat)
        /\ \A j \in 1 .. Len(b.records) : grown[j] = b.records[j]
    <3>1. b.records \in Seq(Nat) /\ n + 1 \in Nat
      BY <1>2, <2>1
    <3> QED BY <3>1, AppendIs
  <2> HIDE DEF grown
  <2>3. ASSUME NEW j \in 1 .. (n + 1) - start
        PROVE  grown[j] = start + j
    <3>1. j \in 1 .. n - start \/ j = (n + 1) - start
      OBVIOUS
    <3> QED BY <1>2, <2>1, <2>2, <3>1
  <2> QED BY <2>1, <2>2, <2>3
<1>7. \A k \in 1 .. n + 1 : IsLate(e, n + 1, k)
                              <=> IF k = n + 1 THEN max > 0 ELSE IsLate(e, n, k) /\ k > n + 1 - max
  <2>1. e.operations[n + 1] # "clear"
    OBVIOUS
  <2> QED BY <2>1, LateMovesOn
\* What is pushed out is at most the oldest.
<1>8. start + 1 <= n => start >= n - max
  <2> SUFFICES ASSUME start + 1 <= n
               PROVE  start >= n - max
    OBVIOUS
  <2>1. start + 1 \in 1 .. n /\ start + 1 > start
    OBVIOUS
  <2>2. start + 1 > n - max
    BY <1>2, <2>1 DEF IsLate
  <2> QED BY <1>5, <2>2
<1> HIDE DEF max, grown
<1>9. CASE max = 0
  <2>1. start = n
    BY <1>8, <1>9
  <2>2. c.records = b.records /\ Len(b.records) = 0
    BY <1>2, <1>3, <1>9, <2>1
  <2>3. \A k \in 1 .. n + 1 : ~(k > n + 1) /\ ~IsLate(e, n + 1, k)
    BY <1>7, <1>9
  <2>4. (n + 1) - (n + 1) = 0 /\ 1 .. 0 = {} /\ n + 1 \in 0 .. n + 1
    OBVIOUS
  <2>5. HoldsFrom(c, e, n + 1, n + 1)
    BY <1>2, <2>2, <2>3, <2>4 DEF HoldsFrom
  <2> QED BY <1>3, <1>4, <2>4, <2>5 DEF IsBuffer, c
<1>10. CASE max > 0 /\ (n + 1) - start <= max
  <2>1. c.records = grown
    BY <1>3, <1>5, <1>6, <1>10
  <2>2. ASSUME NEW k \in 1 .. n + 1
        PROVE  k > start <=> IsLate(e, n + 1, k)
    <3>1. CASE k = n + 1
      BY <1>7, <1>10, <3>1
    <3>2. CASE k # n + 1
      <4>1. k \in 1 .. n
        BY <3>2
      <4>2. k > start => k > n + 1 - max
        BY <1>5, <1>10
      <4> QED BY <1>2, <1>7, <3>2, <4>1, <4>2
    <3> QED BY <3>1, <3>2
  <2>3. start \in 0 .. n + 1
    OBVIOUS
  <2>4. HoldsFrom(c, e, n + 1, start)
    BY <1>6, <2>1, <2>2 DEF HoldsFrom
  <2> QED BY <1>3, <1>4, <2>3, <2>4 DEF IsBuffer, c
<1>11. CASE max > 0 /\ (n + 1) - start > max
  <2>1. c.records = Tail(grown)
    BY <1>3, <1>5, <1>6, <1>11
  <2>2. start + 1 = n + 1 - max
    <3>1. start >= n - max
      BY <1>5, <1>8, <1>11
    <3> QED BY <1>5, <1>11, <3>1
  <2>3. start + 1 \in 0 .. n + 1 /\ grown # <<>>
    BY <1>6
  <2>4. /\ Tail(grown) \in Seq(Nat) /\ Len(Tail(grown)) = (n + 1) - (start + 1)
        /\ \A j \in 1 .. (n + 1) - (start + 1) : Tail(grown)[j] = (start + 1) + j
    <3>1. /\ Tail(grown) \in Seq(Nat) /\ Len(Tail(grown)) = Len(grown) - 1
          /\ \A j \in 1 .. Len(grown) - 1 : Tail(grown)[j] = grown[j + 1]
      BY <1>6, <2>3
    <3>2. Len(grown) - 1 = (n + 1) - (start + 1)
      BY <1>6
    <3>3. ASSUME NEW j \in 1 .. (n + 1) - (start + 1)
          PROVE  Tail(grown)[j] = (start + 1) + j
      <4>1. j + 1 \in 1 .. (n + 1) - start /\ start + (j + 1) = (start + 1) + j
        OBVIOUS
      <4> QED BY <1>6, <3>1, <3>2, <4>1
    <3> QED BY <3>1, <3>2, <3>3
  <2>5. ASSUME NEW k \in 1 .. n + 1
        PROVE  k > start + 1 <=> IsLate(e, n + 1, k)
    <3>1. CASE k = n + 1
      BY <1>5, <1>7, <1>11, <2>2, <3>1
    <3>2. CASE k # n + 1
      <4>1. k \in 1 .. n /\ (k > start + 1 => k > start)
        BY <3>2
      <4> QED BY <1>2, <1>7, <2>2, <3>2, <4>1
    <3> QED BY <3>1, <3>2
  <2>6. HoldsFrom(c, e, n + 1, start + 1)
    BY <2>1, <2>4, <2>5 DEF HoldsFrom
  <2> QED BY <1>3, <1>4, <2>3, <2>6 DEF IsBuffer, c
<1> QED BY <1>5, <1>9, <1>10, <1>11

\* The loop over the operations of a buffer.
LEMMA BufferIs ==
  ASSUME NEW e \in Emissions
  PROVE  LET n == Len(e.operations)
             after[i \in 0 .. n] ==
               IF i = 0 THEN B!NoRecords
               ELSE IF e.operations[i] = "clear" THEN B!ClearRecords(after[i - 1])
               ELSE B!Keep(after[i - 1], i, e.maxRecords)
         IN  IsBuffer(after[n], e, n)
<1> DEFINE n == Len(e.operations)
           W == [records : Seq(Nat), emitted : Nat]
           next(i, v) == IF e.operations[i] = "clear" THEN B!ClearRecords(v) ELSE B!Keep(v, i, e.maxRecords)
           step == [p \in (1 .. n) \X W |-> next(p[1], p[2])]
           after == CHOOSE after : after = [i \in 0 .. n |->
                      IF i = 0 THEN B!NoRecords
                      ELSE IF e.operations[i] = "clear" THEN B!ClearRecords(after[i - 1])
                      ELSE B!Keep(after[i - 1], i, e.maxRecords)]
<1>1. e.maxRecords \in Nat /\ e.operations \in Seq({"log", "clear"})
  BY EmissionsAssumption
<1>2. n \in Nat /\ \A i \in 1 .. n : e.operations[i] \in {"log", "clear"}
  BY <1>1
<1>3. B!NoRecords \in W
  BY DEF B!NoRecords
<1>4. ASSUME NEW i \in 1 .. n, NEW v \in W
      PROVE  next(i, v) \in W
  <2>0. v = [records |-> v.records, emitted |-> v.emitted] /\ v.records \in Seq(Nat) /\ v.emitted \in Nat
    OBVIOUS
  <2>1. B!ClearRecords(v) \in W
    <3>1. B!ClearRecords(v) = [records |-> <<>>, emitted |-> v.emitted]
      BY <2>0 DEF B!ClearRecords
    <3> QED BY <2>0, <3>1
  <2>2. Append(v.records, i) \in Seq(Nat)
    BY <1>2
  <2>3. Len(Append(v.records, i)) > e.maxRecords => Tail(Append(v.records, i)) \in Seq(Nat)
    <3>1. Append(v.records, i) # <<>>
      BY <2>0
    <3>2. \A t \in Seq(Nat) : t # <<>> => Tail(t) \in Seq(Nat)
      OBVIOUS
    <3> QED BY <2>2, <3>1, <3>2
  <2>4. B!Keep(v, i, e.maxRecords) \in W
    BY <2>2, <2>3 DEF B!Keep
  <2> QED BY <2>1, <2>4
<1> HIDE DEF W, next, n
<1>5. step \in [(1 .. n) \X W -> W]
  BY <1>4
<1>6. \A i \in 1 .. n : \A v \in W : step[<<i, v>>] = next(i, v)
  OBVIOUS
<1> HIDE DEF step
<1>7. PICK f \in [0 .. n -> W] : Loops(f, B!NoRecords, step, n)
  BY <1>2, <1>3, <1>5, LoopExists
<1>8. f = [i \in 0 .. n |-> IF i = 0 THEN B!NoRecords
            ELSE IF e.operations[i] = "clear" THEN B!ClearRecords(f[i - 1])
            ELSE B!Keep(f[i - 1], i, e.maxRecords)]
  <2>1. \A i \in 0 .. n : i = 0 \/ (i \in 1 .. n /\ i # 0 /\ i - 1 \in 0 .. n)
    BY <1>2
  <2>2. \A i \in 1 .. n : f[i] = next(i, f[i - 1])
    <3> SUFFICES ASSUME NEW i \in 1 .. n
                 PROVE  f[i] = next(i, f[i - 1])
      OBVIOUS
    <3>1. i - 1 \in 0 .. n
      BY <1>2
    <3>2. f[i - 1] \in W
      BY <1>7, <3>1
    <3>3. f[i] = step[<<i, f[i - 1]>>]
      BY <1>7 DEF Loops
    <3> QED BY <1>6, <3>2, <3>3
  <2>3. f[0] = B!NoRecords
    BY <1>7 DEF Loops
  <2>4. \A i \in 0 .. n : f[i] = IF i = 0 THEN B!NoRecords
            ELSE IF e.operations[i] = "clear" THEN B!ClearRecords(f[i - 1])
            ELSE B!Keep(f[i - 1], i, e.maxRecords)
    BY <2>1, <2>2, <2>3 DEF next
  <2> QED BY <2>4
<1>9. after = [i \in 0 .. n |-> IF i = 0 THEN B!NoRecords
                ELSE IF e.operations[i] = "clear" THEN B!ClearRecords(after[i - 1])
                ELSE B!Keep(after[i - 1], i, e.maxRecords)]
  BY <1>8
<1> HIDE DEF after
<1>10. /\ after[0] = B!NoRecords
       /\ \A i \in 1 .. n : after[i] = IF e.operations[i] = "clear" THEN B!ClearRecords(after[i - 1])
                                       ELSE B!Keep(after[i - 1], i, e.maxRecords)
  <2>1. \A i \in 1 .. n : i \in 0 .. n /\ i # 0
    BY <1>2
  <2>2. 0 \in 0 .. n
    BY <1>2
  <2> QED BY <1>9, <2>1, <2>2
<1> DEFINE N == {i \in Nat : i <= n => IsBuffer(after[i], e, i)}
<1>11. 0 \in N
  <2>1. after[0] = [records |-> <<>>, emitted |-> 0]
    BY <1>10 DEF B!NoRecords
  <2>2. Logged(e, 0) = {}
    BY DEF Logged
  <2>3. 0 \in 0 .. 0 /\ HoldsFrom(after[0], e, 0, 0)
    BY <2>1 DEF HoldsFrom
  <2>4. after[0] = [records |-> after[0].records, emitted |-> after[0].emitted]
    BY <2>1
  <2>5. after[0].emitted = Cardinality(Logged(e, 0))
    <3>1. Cardinality({}) = 0
      BY FS_EmptySet
    <3>2. after[0].emitted = 0
      BY <2>1
    <3> QED BY <2>2, <3>1, <3>2
  <2> QED BY <2>3, <2>4, <2>5 DEF IsBuffer
<1>12. ASSUME NEW i \in Nat, i \in N
       PROVE  i + 1 \in N
  <2> SUFFICES ASSUME i + 1 <= n
               PROVE  IsBuffer(after[i + 1], e, i + 1)
    OBVIOUS
  <2>1. i + 1 \in 1 .. n /\ (i + 1) - 1 = i /\ i <= n
    BY <1>2
  <2>2. IsBuffer(after[i], e, i)
    BY <1>12, <2>1
  <2>3. after[i + 1] = IF e.operations[i + 1] = "clear" THEN B!ClearRecords(after[i])
                       ELSE B!Keep(after[i], i + 1, e.maxRecords)
    BY <1>10, <2>1
  <2>4. e.operations[i + 1] \in {"log", "clear"}
    BY <1>2, <2>1
  <2>5. CASE e.operations[i + 1] = "clear"
    BY <2>2, <2>3, <2>5, ClearHoldsNothing
  <2>6. CASE e.operations[i + 1] = "log"
    BY <1>1, <2>2, <2>3, <2>6, KeepHoldsTheLatest
  <2> QED BY <2>4, <2>5, <2>6
<1> HIDE DEF N
<1>13. n \in N
  BY <1>2, <1>11, <1>12, Induction
<1>14. IsBuffer(after[n], e, n)
  BY <1>2, <1>13 DEF N
<1> QED BY <1>14 DEF after, n

\* Whatever was logged and cleared in whatever order, and however many records a
\* buffer may hold, it holds the latest ones since the last clear and has counted
\* every one (PluginLogger, createDebugSink).
THEOREM TheLatestAreKept == Spec => []BuffersKeepTheLatest
<1>1. Drawn => BuffersKeepTheLatest
  <2> SUFFICES ASSUME Drawn, kind = "emission"
               PROVE  BuffersKeepTheLatest
    BY DEF BuffersKeepTheLatest
  <2> DEFINE n == Len(input.operations)
             after[i \in 0 .. n] ==
               IF i = 0 THEN B!NoRecords
               ELSE IF input.operations[i] = "clear" THEN B!ClearRecords(after[i - 1])
               ELSE B!Keep(after[i - 1], i, input.maxRecords)
             buffer == after[n]
             since == {i \in 1 .. n : \A j \in i .. n : input.operations[j] # "clear"}
  <2>1. input \in Emissions
    BY DEF Drawn
  <2>2. input.maxRecords \in Nat /\ input.operations \in Seq({"log", "clear"})
    BY <2>1, EmissionsAssumption
  <2>3. n \in Nat
    BY <2>2
  <2>4. IsBuffer(buffer, input, n)
    BY <2>1, BufferIs
  <2> HIDE DEF buffer, n
  <2>5. PICK start \in 0 .. n : HoldsFrom(buffer, input, n, start)
    BY <2>4 DEF IsBuffer
  <2>6. /\ buffer.records \in Seq(Nat) /\ DOMAIN buffer.records = 1 .. n - start
        /\ \A j \in 1 .. n - start : buffer.records[j] = start + j
        /\ \A k \in 1 .. n : k > start <=> IsLate(input, n, k)
    BY <2>3, <2>5 DEF HoldsFrom
  <2>7. ToSet(buffer.records) = {i \in since : i > n - input.maxRecords}
    <3>1. ASSUME NEW r \in ToSet(buffer.records)
          PROVE  r \in since /\ r > n - input.maxRecords
      <4>1. PICK j \in 1 .. n - start : r = start + j
        BY <2>6 DEF ToSet
      <4>2. r \in 1 .. n /\ r > start
        BY <2>3, <4>1
      <4> QED BY <2>6, <4>2 DEF IsLate
    <3>2. ASSUME NEW r \in since, r > n - input.maxRecords
          PROVE  r \in ToSet(buffer.records)
      <4>1. r \in 1 .. n /\ r > start
        BY <2>6, <3>2 DEF IsLate
      <4>2. r - start \in 1 .. n - start /\ start + (r - start) = r
        BY <2>3, <4>1
      <4>3. buffer.records[r - start] = r
        BY <2>6, <4>2
      <4> QED BY <2>6, <4>2, <4>3 DEF ToSet
    <3> HIDE DEF since
    <3> QED BY <3>1, <3>2
  <2>8. \A i, j \in DOMAIN buffer.records : i < j => buffer.records[i] < buffer.records[j]
    <3> SUFFICES ASSUME NEW i \in 1 .. n - start, NEW j \in 1 .. n - start, i < j
                 PROVE  buffer.records[i] < buffer.records[j]
      BY <2>6
    <3>1. buffer.records[i] = start + i /\ buffer.records[j] = start + j
      BY <2>6
    <3> QED BY <2>3, <3>1
  <2>9. buffer.emitted = Cardinality({i \in 1 .. n : input.operations[i] = "log"})
    BY <2>4 DEF IsBuffer, Logged
  <2> QED BY <2>7, <2>8, <2>9 DEF BuffersKeepTheLatest, buffer, n
<1> QED BY <1>1, InputsAreDrawn, PTL
=============================================================================
