------------------------------ MODULE Adapter -------------------------------
(***************************************************************************)
(* runtime-adapter.ts with the readers it uses: which part of a DSH payload*)
(* becomes an event of the plugin.  Nothing about a payload's shape is     *)
(* trusted, so a field is a tagged value: Missing, <<"number", n>>,        *)
(* <<"text", t>>, <<"list", s>> or <<"junk">> for a value of no use (null, *)
(* NaN, an object).  A text is "" when it is blank.                        *)
(***************************************************************************)
EXTENDS Integers, SequencesExt, Selection

Missing == <<"missing">>
Junk == <<"junk">>

AsNumber(v) == IF v[1] = "number" THEN v ELSE Missing
AsString(v) == IF v[1] = "text" /\ v[2] # "" THEN v ELSE Missing
AsSeq(v) == IF v[1] = "list" THEN v[2] ELSE <<>>

-----------------------------------------------------------------------------
\* toSessionFacts: a subagent is what its header says is one, by origin or by a
\* positive depth; lineage does not make one, and a fork is its operator's.
IsSubagent(header) ==
  \/ header.origin = <<"text", "subagent">>
  \/ header.delegationDepth[1] = "number" /\ header.delegationDepth[2] > 0

-----------------------------------------------------------------------------
\* user/message: a message is [content, text, source, role].

\* resolveUserMessage: the payload is the message, unless it has no key of one and
\* nests a message.
ResolveUserMessage(data) ==
  IF \E k \in {"content", "text", "source", "role"} : data[k] # Missing THEN data
  ELSE IF data.message = Junk \/ data.message = Missing THEN data
  ELSE data.message[2]

TextBlocks(blocks) == Among(blocks, {b \in ToSet(blocks) : b.type = "text" /\ b.text[1] = "text"})

\* readUserText: the parts that are joined to the text.
ReadUserText(message) ==
  IF message.content[1] = "text" THEN <<message.content[2]>>
  ELSE IF message.content[1] = "list"
  THEN LET blocks == TextBlocks(message.content[2])
       IN  [i \in DOMAIN blocks |-> blocks[i].text[2]]
  ELSE IF message.text[1] = "text" THEN <<message.text[2]>> ELSE <<>>

\* Seeded defect: the words are looked for in either message, the producer in the
\* outer one.
ReadPromptAcross(data) ==
  LET inner == IF data.message[1] = "message" THEN data.message[2] ELSE data
  IN  [turn |-> AsNumber(data.turn), source |-> AsString(data.source),
       parts |-> ReadUserText(data) \o ReadUserText(inner)]

\* What toInternalEvent makes of user/message, whose turn is optional.
ReadPrompt(data) ==
  LET message == ResolveUserMessage(data)
  IN  [turn |-> AsNumber(data.turn), source |-> AsString(message.source),
       parts |-> ReadUserText(message)]

\* offerUserText's test: a direct human's, and not blank.
IsDirectPrompt(prompt) ==
  prompt.source = <<"text", "user">> /\ \E i \in DOMAIN prompt.parts : prompt.parts[i] # ""

-----------------------------------------------------------------------------
\* assistant/message and assistant/attempt.  A usage report is the set of counters
\* that are finite numbers in it, as <<"usage", set>>.
CollectUsage(v) == IF v[1] = "usage" /\ v[2] # {} THEN v ELSE Missing

\* readStreamUsage: the last report of the stream that counts anything.
ReadStreamUsage(stream) ==
  LET reports == Among(AsSeq(stream), {v \in ToSet(AsSeq(stream)) : CollectUsage(v) # Missing})
  IN  IF reports = <<>> THEN Missing ELSE Last(reports)

ReadUsage(type, data) ==
  IF type = "assistant/message" /\ CollectUsage(data.usage) # Missing
  THEN CollectUsage(data.usage)
  ELSE ReadStreamUsage(data.stream)

\* extractVisibleText: the text blocks that are not blank, and no other block, not
\* even one that has a text.
VisibleText(blocks) ==
  LET texts == TextBlocks(blocks)
      shown == Among(texts, {b \in ToSet(texts) : b.text[2] # ""})
  IN  [i \in DOMAIN shown |-> shown[i].text[2]]

\* toInternalEvent of the other types: without a usable turn there is no event.
TurnKinds ==
  {"turn/start", "step/start", "assistant/message", "assistant/attempt", "llm/retry",
   "tool/call", "tool/result", "turn/end"}

TurnOf(type, data) == IF type \in TurnKinds THEN AsNumber(data.turn) ELSE Missing

-----------------------------------------------------------------------------
\* tool/call: the arguments travel as one text, whatever is in them, or not at all.
\* <<"json", v>> is a text that parses to v.
RawArguments(v) == IF v[1] \in {"text", "json"} THEN v ELSE Missing

\* tool/result: the first block of the message is flagged, or the event carries an
\* error of any shape.
ToolResultFails(data) ==
  \/ data.error # Missing
  \/ AsSeq(data.content) # <<>> /\ AsSeq(data.content)[1] = <<"flag", TRUE>>

\* readApprovalId, with the name of the tool to fall back on.
ApprovalIdentity(id, toolName) ==
  IF AsString(id) # Missing \/ AsNumber(id) # Missing THEN <<"id", id[2]>> ELSE <<"tool", toolName>>

-----------------------------------------------------------------------------
\* turn/end, with the readers of completion.ts.  A reason is <<"record", r>> with
\* r = [kind, error, reason]; error holds [code, message, status, retryAfter] and
\* reason, the cause of an abort, [kind, reason].
EndKinds == {"completed", "max-tokens", "error", "aborted", "blocked", "interrupted", "forked"}
ToTurnEndKind(v) == IF v[1] = "text" /\ v[2] \in EndKinds THEN v[2] ELSE "unknown"

SanitizeDetail(v) == AsString(v)
NoDetail == [detail |-> Missing, words |-> <<>>]

\* describeAbort: its kind, and the words for it with a hook's note.
AbortKinds == {"user", "parent", "hook", "disposed", "legacy"}
DescribeAbort(cause) ==
  IF cause[1] # "record" \/ AsString(cause[2].kind) = Missing THEN NoDetail
  ELSE LET kind == cause[2].kind
           described == IF kind[2] \in AbortKinds THEN kind ELSE <<"text", "cancelled">>
           note == SanitizeDetail(cause[2].reason)
       IN  [detail |-> kind, words |-> IF note = Missing THEN <<described>> ELSE <<described, note>>]

\* describeError.
DescribeError(error) ==
  IF error[1] # "record" THEN NoDetail
  ELSE LET message == SanitizeDetail(error[2].message)
       IN  [detail |-> SanitizeDetail(error[2].code),
            words |-> IF message = Missing THEN <<>> ELSE <<message>>]

NonNegative(v) == IF v[1] = "number" /\ v[2] >= 0 THEN v ELSE Missing

\* Seeded defect: a message that speaks of a quota makes up for a missing code.
ExtractFailureFactsFromWords(error) ==
  IF error[1] # "record" THEN {}
  ELSE LET e == error[2]
           code == IF SanitizeDetail(e.code) # Missing THEN e.code
                   ELSE IF e.message = <<"text", "quota">> THEN <<"text", "QUOTA">>
                   ELSE <<"text", "UNKNOWN">>
       IN  {[code |-> code, status |-> AsNumber(e.status), retryAfter |-> NonNegative(e.retryAfter),
             message |-> SanitizeDetail(e.message)]}

\* extractFailureFacts: each fact under its own key, none or one record of them.
ExtractFailureFacts(error) ==
  IF error[1] # "record" THEN {}
  ELSE LET e == error[2]
           code == IF SanitizeDetail(e.code) = Missing THEN <<"text", "UNKNOWN">> ELSE e.code
       IN  {[code |-> code, status |-> AsNumber(e.status), retryAfter |-> NonNegative(e.retryAfter),
             message |-> SanitizeDetail(e.message)]}

ReadTurnEnd(reason) ==
  LET kind == IF reason[1] = "record" THEN ToTurnEndKind(reason[2].kind) ELSE "unknown"
  IN  CASE kind = "aborted" -> [kind |-> kind, told |-> DescribeAbort(reason[2].reason), failure |-> {}]
        [] kind = "error"   -> [kind |-> kind, told |-> DescribeError(reason[2].error),
                                failure |-> ExtractFailureFacts(reason[2].error)]
        [] OTHER            -> [kind |-> kind, told |-> NoDetail, failure |-> {}]
=============================================================================
