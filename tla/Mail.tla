-------------------------------- MODULE Mail --------------------------------
(***************************************************************************)
(* subject.ts, with the cap of content.ts that mailer.ts applies: the parts*)
(* a mail is made of, in their order.  A text is a sequence of characters, *)
(* where "sp" is a blank and "nl" a line break, which stands for any other *)
(* control character as well where a text is put on one line.  The wording *)
(* of a line is left out.                                                  *)
(*                                                                         *)
(* A candidate is [status, visible, userText, model, durationMs, failure,  *)
(* usageComplete, usageMissingCount, usageUnobservableRetries], where      *)
(* failure is empty or holds one [code, status, retryAfter, message], an   *)
(* unreported text or status is <<>>, and render is [includeMetadata,      *)
(* includeUserPrompt, includeFooter, maxBodyChars].                        *)
(***************************************************************************)
EXTENDS Integers, SequencesExt, FiniteSetsExt, Selection

SubjectMaxChars == 200
UnknownDuration == -1
Space == {"sp", "nl"}

Blank(text) == ToSet(text) \subseteq Space
Part(present, part) == IF present THEN <<part>> ELSE <<>>

-----------------------------------------------------------------------------
\* Subjects.

\* A run of control characters becomes one blank, and the ends are trimmed.
Flatten(text) ==
  LET blanked == [i \in DOMAIN text |-> IF text[i] # "nl" THEN text[i]
                                        ELSE IF i > 1 /\ text[i - 1] = "nl" THEN "joined" ELSE "sp"]
  IN  Without(blanked, {"joined"})
Trim(text) ==
  LET ink == {i \in DOMAIN text : text[i] \notin Space}
  IN  IF ink = {} THEN <<>> ELSE SubSeq(text, Min(ink), Max(ink))

SanitizeLine(text, limit) ==
  LET flat == Trim(Flatten(text))
  IN  IF Len(flat) <= limit THEN flat ELSE Append(SubSeq(flat, 1, limit - 1), "ellipsis")

\* "[DSH] " and the label of the status: their characters carry the status' name.
LabelChars(status) ==
  CASE status = "completed-clean"            -> 14
    [] status = "completed-with-tool-errors" -> 31
    [] status = "max-tokens"                 -> 26
    [] status = "error"                      -> 11
    [] status \in {"aborted", "blocked"}     -> 12
    [] status = "interrupted"                -> 16
    [] status \in {"forked", "unknown"}      -> 32
Prefix(status) == [i \in 1 .. 6 + LabelChars(status) |-> status]

\* failureSubjectTag: the code, and the HTTP status beside it.
FailureSubjectTag(failure) ==
  IF failure = {} THEN <<>>
  ELSE LET f == CHOOSE f \in failure : TRUE
           code == SanitizeLine(f.code, 60)
       IN  IF code = <<>> \/ f.status = <<>> THEN code
           ELSE code \o <<"sp", "(">> \o f.status \o <<")">>

Joined(text) == IF text = <<>> THEN <<>> ELSE <<"sp", "dash", "sp">> \o text

\* renderSubject and assembleSubject: what is optional comes after the status, and
\* is what goes when the line is too long.
RenderSubject(c) ==
  LET prefix == Prefix(c.status)
      tag == IF c.status = "error" THEN SanitizeLine(FailureSubjectTag(c.failure), 80) ELSE <<>>
      shortened == prefix \o Joined(tag)
      composed == shortened \o Joined(SanitizeLine(c.model, 80))
  IN  IF Len(composed) <= SubjectMaxChars THEN composed
      ELSE IF c.status = "error" /\ Len(shortened) <= SubjectMaxChars THEN shortened
      ELSE Append(prefix, "ellipsis")

AttentionPrefix(kind) == [i \in 1 .. IF kind = "approval" THEN 23 ELSE 20 |-> kind]

\* renderAttentionSubject: the tool, the one question's header, or how many.
RenderAttentionSubject(n) ==
  LET prefix == AttentionPrefix(n.kind)
      label == IF n.kind = "approval" THEN SanitizeLine(n.toolName, 80)
               ELSE IF Len(n.headers) = 1 THEN SanitizeLine(n.headers[1], 80)
               ELSE IF Len(n.headers) > 1 THEN <<"count", "sp", "questions">> ELSE <<>>
      composed == prefix \o Joined(label)
  IN  IF Len(composed) <= SubjectMaxChars THEN composed ELSE prefix

-----------------------------------------------------------------------------
\* Sections of a settled turn's mail.

\* formatDuration, rounded to the unit it is shown in.
FormatDuration(ms) ==
  IF ms = UnknownDuration THEN <<"unknown">>
  ELSE IF ms < 1000 THEN <<"ms", ms>>
  ELSE IF ms < 60000 THEN <<"tenths", (ms + 50) \div 100>>
  ELSE <<"minutes", ms \div 60000, ((ms % 60000) + 500) \div 1000>>

\* formatUsageCompleteness: no gap means "yes".
UsageGaps(c) ==
  LET counted == Part(c.usageMissingCount > 0, "calls-without-report")
                   \o Part(c.usageUnobservableRetries > 0, "retried-calls")
  IN  IF c.usageComplete THEN <<>>
      ELSE IF counted = <<>> THEN <<"not-seen-from-start">> ELSE counted

Metadata(c) ==
  [status |-> c.status, duration |-> FormatDuration(c.durationMs), usageGaps |-> UsageGaps(c)]

\* renderFailureSection: what was not reported is said to be.
Failure(failure) ==
  IF failure = {} THEN [code |-> <<>>, status |-> <<>>, retryAfter |-> {}, message |-> <<>>]
  ELSE LET f == CHOOSE f \in failure : TRUE
       IN  [f EXCEPT !.code = SanitizeLine(f.code, 120), !.message = SanitizeLine(f.message, 500)]

\* A failed turn's text never stands without a heading of its own.
Output(c) ==
  IF c.status # "error" THEN <<"output", c.visible>>
  ELSE IF Blank(c.visible) THEN <<"no-output">>
  ELSE <<"partial", c.visible>>

\* renderFooter of a turn, as what its lines say; the first only of a cut text.
Footer(truncated) ==
  (IF truncated THEN {"text-was-cut"} ELSE {}) \cup {"metadata-is-above", "prompt-is-never-included"}

TurnSections(c, render, truncated) ==
  Part(render.includeMetadata, <<"metadata", Metadata(c)>>)
    \o Part(c.status = "error", <<"failure", Failure(c.failure)>>)
    \o Part(render.includeUserPrompt /\ ~Blank(c.userText), <<"prompt", c.userText>>)
    \o <<Output(c)>>
    \o IF render.includeFooter THEN <<<<"footer", Footer(truncated)>>>> ELSE Part(truncated, <<"gap">>)

TruncateVisibleText(text, limit) ==
  [text |-> SubSeq(text, 1, IF Len(text) < limit THEN Len(text) ELSE limit),
   truncated |-> Len(text) > limit]

-----------------------------------------------------------------------------
\* The text of a settled turn's mail.  A character of it is known by the section that
\* wrote it, and the lines of a section that are not spelled here are one character.
Spelled(name, text) == [i \in DOMAIN text |-> [of |-> name, char |-> text[i]]]
Lines(name) == Spelled(name, <<"lines">>)
LineBreak == Spelled("mail", <<"nl">>)

WrittenBy(section) ==
  CASE section[1] = "output" -> Spelled("visible", section[2])
    [] section[1] = "partial" -> Lines("heading") \o LineBreak \o Spelled("visible", section[2])
    [] section[1] = "prompt" -> Lines("heading") \o LineBreak \o Spelled("prompt", section[2])
    [] section[1] = "gap" -> <<>>
    [] OTHER -> Lines(section[1])

\* An empty line is between one section and the next.
Written(sections) ==
  FlattenSeq([i \in DOMAIN sections |->
    (IF i = 1 THEN <<>> ELSE LineBreak \o LineBreak) \o WrittenBy(sections[i])])

\* A line break goes when three come before it, whoever wrote them.
Superfluous(text, i) == i > 3 /\ \A j \in i - 3 .. i : text[j].char = "nl"
Struck == [of |-> "struck", char |-> "nl"]
Collapse(text) ==
  Without([i \in DOMAIN text |-> IF Superfluous(text, i) THEN Struck ELSE text[i]], {Struck})

\* Seeded defect: the whole text is rendered under the answer of the cap.
RenderTurnUncut(c, render) ==
  LET bounded == TruncateVisibleText(c.visible, render.maxBodyChars)
      sections == TurnSections(c, render, bounded.truncated)
  IN  [subject |-> RenderSubject(c), sections |-> sections, text |-> Collapse(Written(sections)),
       bodyChars |-> Len(c.visible), truncated |-> bounded.truncated]

\* send and renderNotification of mailer.ts with renderTurnMail: the cap is applied
\* once, to the text that is then rendered, and what is counted for the log is that
\* text, before the line breaks of the mail are collapsed.
RenderTurn(c, render) ==
  LET bounded == TruncateVisibleText(c.visible, render.maxBodyChars)
      shown == [c EXCEPT !.visible = bounded.text]
      sections == TurnSections(shown, render, bounded.truncated)
  IN  [subject |-> RenderSubject(shown), sections |-> sections, text |-> Collapse(Written(sections)),
       bodyChars |-> Len(bounded.text), truncated |-> bounded.truncated]

-----------------------------------------------------------------------------
\* Lines of a mail about a question; items and fields are those of the parser, and
\* an absent field is <<"missing">>.
Present(v) == v # <<"missing">>

OptionLines(item) ==
  FlattenSeq([k \in DOMAIN item.options |->
    <<<<"option", k, item.options[k].label>>>>
      \o Part(Present(item.options[k].description), <<"description", item.options[k].description>>)])

ItemLines(items, i) ==
  <<<<"question", IF Len(items) > 1 THEN i ELSE 0, items[i].question>>>>
    \o Part(Present(items[i].header), <<"header", items[i].header>>)
    \o Part(items[i].multiSelect, <<"select-one-or-more">>)
    \o OptionLines(items[i])

\* renderQuestionSection; a call whose arguments could not be read has no mail at all.
QuestionLines(items, dropped) ==
  FlattenSeq([i \in DOMAIN items |-> ItemLines(items, i)]) \o Part(dropped > 0, <<"further", dropped>>)

\* renderApprovalSection: what was not reported is said to be.
ApprovalLines(n) ==
  <<<<"tool", SanitizeLine(n.toolName, 200)>>, <<"reason", SanitizeLine(n.reason, 1000)>>,
    <<"arguments-not-included">>>>

\* renderAttentionMail: nothing in it was cut by the renderer.  Its line breaks are
\* collapsed like a turn's, which is not seen here, where no line of it is spelled.
RenderAttention(n, lines, render) ==
  [subject |-> RenderAttentionSubject(n),
   sections |-> Part(render.includeMetadata, <<"metadata", "human-input-requested">>)
                  \o <<<<"request", lines>>>>
                  \o Part(render.includeFooter, <<"footer", {"cannot-be-answered-by-reply"}>>)]
=============================================================================
