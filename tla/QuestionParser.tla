--------------------------- MODULE QuestionParser ---------------------------
(***************************************************************************)
(* human-attention.ts: what of an ask_user_question call, and of an        *)
(* approval request, reaches a mail.  Of a text only its length in code    *)
(* points matters, once control characters are gone: a field is Missing,   *)
(* Null, Junk, <<"text", n>>, <<"flag", b>>, <<"list", s>> or              *)
(* <<"record", r>>.                                                        *)
(***************************************************************************)
EXTENDS Naturals, SequencesExt, Selection

CONSTANTS
  MaxQuestions, MaxOptions, MaxIdChars, MaxQuestionChars, MaxHeaderChars, MaxLabelChars,
  MaxDescriptionChars, MaxTotalChars, MaxToolNameChars, MaxReasonChars

ASSUME ParserAssumption ==
  /\ {MaxQuestions, MaxOptions, MaxIdChars, MaxQuestionChars, MaxHeaderChars, MaxLabelChars,
      MaxDescriptionChars, MaxTotalChars, MaxToolNameChars, MaxReasonChars} \subseteq Nat \ {0}
  /\ MaxIdChars + MaxQuestionChars <= MaxTotalChars

Missing == <<"missing">>
Null == <<"null">>
Junk == <<"junk">>

\* cleanText: a text that is not blank, cut to its limit.
CleanText(v, limit) ==
  IF v[1] = "text" /\ v[2] > 0 THEN <<"text", IF v[2] < limit THEN v[2] ELSE limit>> ELSE Missing
Chars(v) == IF v = Missing THEN 0 ELSE v[2]

-----------------------------------------------------------------------------
\* parseOption and parseQuestion copy the fields they know and no other; an option
\* needs a label, a question an id and a text.
UsableOption(raw) == raw[1] = "record" /\ CleanText(raw[2].label, MaxLabelChars) # Missing
ParseOption(raw) ==
  [label |-> CleanText(raw[2].label, MaxLabelChars),
   description |-> CleanText(raw[2].description, MaxDescriptionChars)]

\* Of the first MaxOptions, those that can be used.
ParseOptions(raw) ==
  IF raw[1] # "list" THEN <<>>
  ELSE LET seen == SubSeq(raw[2], 1, IF Len(raw[2]) < MaxOptions THEN Len(raw[2]) ELSE MaxOptions)
           usable == Among(seen, {option \in ToSet(seen) : UsableOption(option)})
       IN  [i \in DOMAIN usable |-> ParseOption(usable[i])]

\* The tool's spelling of the flag before the service's, and only a real boolean.
MultiSelect(r) ==
  (IF r.multi_select \in {Missing, Null} THEN r.multiSelect ELSE r.multi_select) = <<"flag", TRUE>>

Usable(raw) ==
  /\ raw[1] = "record"
  /\ CleanText(raw[2].id, MaxIdChars) # Missing
  /\ CleanText(raw[2].question, MaxQuestionChars) # Missing

ParseQuestion(raw) ==
  [id |-> CleanText(raw[2].id, MaxIdChars),
   question |-> CleanText(raw[2].question, MaxQuestionChars),
   header |-> CleanText(raw[2].header, MaxHeaderChars),
   options |-> ParseOptions(raw[2].options),
   multiSelect |-> MultiSelect(raw[2])]

Cost(item) == Chars(item.id) + Chars(item.question)

-----------------------------------------------------------------------------
NothingCarried == [carried |-> <<>>, total |-> 0, truncatedBySize |-> FALSE]

\* Seeded defect: a question that does not fit costs nothing.
TakeWithoutSpending(raw, i, acc) ==
  IF ~Usable(raw[i]) THEN acc
  ELSE LET total == acc.total + Cost(ParseQuestion(raw[i]))
       IN  IF total > MaxTotalChars THEN [acc EXCEPT !.truncatedBySize = TRUE]
           ELSE [acc EXCEPT !.total = total, !.carried = Append(@, i)]

\* One turn of the loop, on the i-th raw question: a usable one spends the budget
\* whether or not it still fits.
Take(raw, i, acc) ==
  IF ~Usable(raw[i]) THEN acc
  ELSE LET total == acc.total + Cost(ParseQuestion(raw[i]))
       IN  IF total > MaxTotalChars
           THEN [acc EXCEPT !.total = total, !.truncatedBySize = TRUE]
           ELSE [acc EXCEPT !.total = total, !.carried = Append(@, i)]

\* The loop, over the first MaxQuestions raw questions.
TakeAll(raw) ==
  LET seen == IF Len(raw) < MaxQuestions THEN Len(raw) ELSE MaxQuestions
      acc[i \in 0 .. seen] == IF i = 0 THEN NothingCarried ELSE Take(raw, i, acc[i - 1])
  IN  acc[seen]

DropReason(raw, acc) ==
  IF acc.carried # <<>>                THEN "none"
  ELSE IF Len(raw) > MaxQuestions      THEN "question-limit"
  ELSE IF acc.truncatedBySize          THEN "content-limit"
  ELSE "no-usable-question"

\* The arguments as a value: <<"json", v>> is a text that parses to v, and any
\* other text, a blank one too, does not parse; an object comes as it is.
ReadArguments(arguments) ==
  CASE arguments[1] = "json"   -> arguments[2]
    [] arguments[1] = "record" -> arguments
    [] OTHER                   -> Missing

Nothing(reason) ==
  [questions |-> <<>>, carried |-> <<>>, dropped |-> 0, sawOptions |-> FALSE, sawMultiSelect |-> FALSE,
   dropReason |-> reason]

\* parseAskUserQuestionArguments: carried holds the positions of the questions.
ParseQuestions(arguments) ==
  LET value == ReadArguments(arguments) IN
  IF value[1] # "record" THEN Nothing("unreadable-arguments")
  ELSE IF value[2].questions[1] # "list" \/ value[2].questions = <<"list", <<>>>>
  THEN Nothing("no-questions")
  ELSE LET raw == value[2].questions[2]
           acc == TakeAll(raw)
           items == [i \in DOMAIN acc.carried |-> ParseQuestion(raw[acc.carried[i]])]
           withOptions == {i \in DOMAIN items : items[i].options # <<>>}
       IN  [questions |-> items,
            carried |-> acc.carried,
            dropped |-> Len(raw) - Len(acc.carried),
            sawOptions |-> withOptions # {},
            sawMultiSelect |-> \E i \in withOptions : items[i].multiSelect,
            dropReason |-> DropReason(raw, acc)]

-----------------------------------------------------------------------------
\* toApprovalNotification: a request is announced by the name of its tool.
UsableApproval(data) == data[1] = "record" /\ CleanText(data[2].toolName, MaxToolNameChars) # Missing
ToApproval(data) ==
  [toolName |-> CleanText(data[2].toolName, MaxToolNameChars),
   reason |-> CleanText(data[2].reason, MaxReasonChars),
   callId |-> CleanText(data[2].callId, MaxIdChars)]
=============================================================================
