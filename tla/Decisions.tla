----------------------------- MODULE Decisions ------------------------------
(***************************************************************************)
(* The pure decisions of the plugin against reference definitions that say *)
(* the same without an order of tests, a loop or a closed form.  A behavior*)
(* picks one input; the properties speak about the picked one.  Those of   *)
(* the log are in LogDecisions.                                            *)
(***************************************************************************)
EXTENDS NotifyPolicy, QuestionParser, ConfigCheck

CONSTANTS
  Attempts,     \* [credentials, server, configured, recipients, attempts, policy]
  Verdicts,     \* [candidate, config, duplicate] to decide on
  Calls,        \* arguments of calls of ask_user_question
  Documents,    \* configuration documents
  Headers,      \* headers of sessions
  Messages,     \* payloads of user/message
  TurnEvents,   \* [type, data] of events about a turn
  ToolResults,  \* [content, error] of tool/result
  Reasons,      \* reasons of turn/end
  Mails,        \* [candidate, render] of settled turns
  Approvals,    \* [data, render] of approval/asked
  Exchanges,    \* [endpoint, host, request] of a call of the card
  Results,      \* [endpoint, result] of a call of the card
  Descriptions, \* [ref, answer] of a call of describe
  Values,       \* values that are written to the log
  Emissions,    \* [maxRecords, operations] of a buffer of records
  Notices,      \* notifications that the log names
  Cards,        \* [card, base] of the settings card and the layer below the user's
  Controls,     \* [field, draft] typed into a control
  StoredValues  \* [field, value] shown by a control

D == INSTANCE Delivery
A == INSTANCE Adapter
V == INSTANCE CardView
M == INSTANCE Mail
E == INSTANCE Endpoints
B == INSTANCE Buffers

-----------------------------------------------------------------------------
\* The inputs are states of the program: numbers are natural, switches Boolean, and
\* records have their fields and no others.

ASSUME AttemptsAssumption ==
  \A a \in Attempts :
    /\ {a.credentials.mounted, a.credentials.answers, a.server.accepts, a.configured} \subseteq BOOLEAN
    /\ {a.server.reply, a.attempts, a.policy.retryAttempts, a.policy.baseDelayMs,
        a.policy.maxDelayMs} \subseteq Nat

\* A workspace that is not known cannot be muted, and there is a session no list names.
FreeSession == "free"
ASSUME VerdictsAssumption ==
  \A v \in Verdicts :
    /\ v.candidate.status \in Statuses
    /\ v.candidate.durationMs \in Nat \cup {UnknownDuration} /\ v.config.minTurnDurationMs \in Nat
    /\ {v.candidate.visible, v.duplicate, v.config.enabled, v.config.notifyCompleted,
        v.config.notifyErrors, v.config.notifyMaxTokens} \subseteq BOOLEAN
    /\ NoCwd \notin v.config.mutedWorkspaces /\ FreeSession \notin v.config.mutedSessions

ASSUME DocumentsAssumption == \A d \in Documents : d.to \in Seq(ToSet(d.to))

\* A field of a payload is absent, of no use, or a type and a value of it; a list is a
\* sequence; and no message nests itself.
IsField(v, types) == v \in {A!Missing, A!Junk} \/ (v = <<v[1], v[2]>> /\ v[1] \in types)
IsList(v) == A!AsSeq(v) \in Seq(ToSet(A!AsSeq(v)))
IsMessage(m) ==
  /\ IsField(m.content, {"text", "list"}) /\ IsField(m.text, {"text"}) /\ IsField(m.source, {"text"})
  /\ IsList(m.content)
  /\ \A b \in ToSet(A!AsSeq(m.content)) :
       b = [type |-> b.type, text |-> b.text] /\ IsField(b.text, {"text"})

ASSUME PayloadsAssumption ==
  /\ \A h \in Headers :
       /\ h = [origin |-> h.origin, delegationDepth |-> h.delegationDepth, parentSession |-> h.parentSession]
       /\ h.delegationDepth[1] = "number" => h.delegationDepth[2] \in Int
  /\ \A d \in Messages :
       /\ IsMessage(d) /\ IsField(d.message, {"message"})
       /\ d.message[1] = "message" => IsMessage(d.message[2]) /\ d.message[2] # d
  /\ \A e \in TurnEvents : IsList(e.data.stream) /\ IsList(e.data.content)
  /\ \A r \in ToolResults : r = [content |-> r.content, error |-> r.error] /\ IsList(r.content)
  /\ \A a \in Approvals : a.data[1] = "record" => IsField(a.data[2].id, {"text", "number"})

\* A character of a text is named for the field that it is of: the code of a failure
\* is written in "c", its HTTP status in "4", the model in "m".
ASSUME MailsAssumption ==
  \A mail \in Mails :
    LET c == mail.candidate
        render == mail.render
    IN  /\ c = [status |-> c.status, visible |-> c.visible, userText |-> c.userText, model |-> c.model,
                durationMs |-> c.durationMs, failure |-> c.failure, usageComplete |-> c.usageComplete,
                usageMissingCount |-> c.usageMissingCount,
                usageUnobservableRetries |-> c.usageUnobservableRetries]
        /\ c.status \in Statuses /\ c.durationMs \in Nat \cup {M!UnknownDuration}
        /\ c.visible \in Seq(ToSet(c.visible)) /\ c.userText \in Seq(ToSet(c.userText))
        /\ c.model \in Seq({"m"} \cup M!Space)
        /\ \A f, g \in c.failure : f = g
        /\ \A f \in c.failure : f.code \in Seq({"c"} \cup M!Space) /\ f.status \in Seq({"4"})
        /\ {render.includeMetadata, render.includeUserPrompt, render.includeFooter} \subseteq BOOLEAN
        /\ render.maxBodyChars \in Nat

\* The length of a text is natural, and a line of a mail has room for what the parser
\* lets through.
ASSUME ApprovalsAssumption ==
  /\ MaxToolNameChars <= 200 /\ MaxReasonChars <= 1000
  /\ \A a \in Approvals :
       /\ {a.render.includeMetadata, a.render.includeFooter} \subseteq BOOLEAN
       /\ a.data[1] = "record" =>
            \A v \in {a.data[2].toolName, a.data[2].reason} : v[1] = "text" => v[2] \in Nat

\* The length of a text is natural.
ASSUME CallsAssumption ==
  \A c \in Calls :
    LET value == ReadArguments(c)
        questions == value[2].questions
    IN  value[1] = "record" /\ questions[1] = "list" =>
          /\ questions = <<"list", questions[2]>> /\ IsList(questions)
          /\ \A q \in ToSet(questions[2]) : q[1] = "record" =>
               /\ \A v \in {q[2].id, q[2].question} : v[1] = "text" => v[2] \in Nat
               /\ IsList(q[2].options)

ASSUME EmissionsAssumption ==
  \A e \in Emissions : e.maxRecords \in Nat /\ e.operations \in Seq({"log", "clear"})

ASSUME ReasonsAssumption ==
  \A r \in Reasons : r[1] = "record" =>
    LET kindOf == r[2].kind
        error == r[2].error
    IN  /\ r = <<"record", [kind |-> kindOf, error |-> error, reason |-> r[2].reason]>>
        /\ kindOf[1] = "text" => kindOf = <<"text", kindOf[2]>>
        /\ error[1] = "record" =>
             error = <<"record", [code |-> error[2].code, message |-> error[2].message,
                                  status |-> error[2].status, retryAfter |-> error[2].retryAfter]>>

ASSUME ExchangesAssumption ==
  \A x \in Exchanges :
    LET body == x.request.body
        host == x.host
    IN  /\ x.endpoint \in {E!StatusEndpoint, E!TestEmailEndpoint}
        /\ body[1] = "record" =>
             /\ body = <<"record", [type |-> body[2].type, rpcId |-> body[2].rpcId, method |-> body[2].method]>>
             /\ \A v \in {body[2].rpcId, body[2].method} : v[1] = "text" => v = <<"text", v[2]>>
        /\ {host.mounted, host.effective.smtpConfigured, host.test.delivered} \subseteq BOOLEAN
        /\ {host.effective.queueSize, host.queue.depth, host.queue.processed, host.queue.failed,
            host.test.recipientCount} \subseteq Nat
        /\ host.queue.failed <= host.queue.processed

\* A number is drafted alone, and the entries of a draft or of a list are a sequence of
\* them; a stored value is one that a save of the card may have left, so that no entry
\* is blank and every recipient an address.
IsDraft(draft) ==
  /\ draft[1] = "number" => draft = <<"number", draft[2]>>
  /\ draft[1] = "entries" => draft[2] \in Seq(ToSet(draft[2]))
SchemaFields == DOMAIN V!SchemaBounds \cup V!SchemaBooleans \cup V!SchemaStrings \cup V!SchemaArrays
FitsField(f, value) ==
  /\ V!SchemaTakes(f, value)
  /\ f \in V!SchemaArrays => value \in Seq(ToSet(value)) /\ <<"blank">> \notin ToSet(value)
  /\ f = "to" => \A e \in ToSet(value) : e[1] = "address"
ASSUME FieldsAssumption ==
  /\ \A c \in Controls : c.field \in SchemaFields /\ IsDraft(c.draft)
  /\ \A s \in StoredValues : s.field \in SchemaFields /\ FitsField(s.field, s.value)

IsCard(card) ==
  /\ card = [available |-> card.available, writable |-> card.writable, expanded |-> card.expanded,
             saving |-> card.saving, testing |-> card.testing, secretDraft |-> card.secretDraft,
             section |-> card.section, user |-> card.user, staged |-> card.staged,
             secret |-> card.secret, status |-> card.status]
  /\ {card.available, card.writable, card.expanded, card.saving, card.testing, card.secretDraft} \subseteq BOOLEAN
  /\ card.staged = [f \in DOMAIN card.staged |-> card.staged[f]]
  /\ DOMAIN card.staged \subseteq DOMAIN card.section
  /\ \A f \in DOMAIN card.staged : IsDraft(card.staged[f])
ASSUME CardsAssumption == \A c \in Cards : IsCard(c.card)

ASSUME AnswersAssumption ==
  /\ \A r \in Results : r.endpoint \in {E!StatusEndpoint, E!TestEmailEndpoint}
  /\ \A d \in Descriptions : d.answer[1] \in {"throws", "error", "value"}

-----------------------------------------------------------------------------
VARIABLES kind, input

vars == <<kind, input>>

Init == kind = "none" /\ input = "none"

Pick(k, S) == kind = "none" /\ kind' = k /\ input' \in S

Next ==
  \/ Pick("attempt", Attempts)
  \/ Pick("verdict", Verdicts)
  \/ Pick("call", Calls)
  \/ Pick("document", Documents)
  \/ Pick("header", Headers)
  \/ Pick("message", Messages)
  \/ Pick("event", TurnEvents)
  \/ Pick("tool-result", ToolResults)
  \/ Pick("reason", Reasons)
  \/ Pick("mail", Mails)
  \/ Pick("approval", Approvals)
  \/ Pick("exchange", Exchanges)
  \/ Pick("result", Results)
  \/ Pick("description", Descriptions)
  \/ Pick("value", Values)
  \/ Pick("emission", Emissions)
  \/ Pick("notice", Notices)
  \/ Pick("card", Cards)
  \/ Pick("draft", Controls)
  \/ Pick("stored", StoredValues)

Spec == Init /\ [][Next]_vars

-----------------------------------------------------------------------------
\* A mail counts as delivered exactly when its password was found and the server
\* took it.  A failed attempt is repeated only if the exchange took place, it names
\* a temporary condition, no part of it names a lasting one, and an attempt is left;
\* the waits start at the base, triple, and stay at the cap once they reach it.  The
\* delivery test reports of the same configuration what a notification would meet,
\* and an incomplete one as incomplete (mailer.ts, retry.ts, test-email.ts).
AttemptsAreJudgedTruly ==
  kind = "attempt" =>
    LET server == input.server
        password == /\ input.credentials.mounted /\ input.credentials.answers
                    /\ input.credentials.value # D!NoValue
        lasting == \/ server.code \in D!PermanentCodes
                   \/ server.reply \in D!AuthReplyCodes
                   \/ server.reply >= 500
        temporary == server.code \in D!TransientCodes \/ server.reply \in 400 .. 499
        result == D!Deliver(input.credentials, server)
        test == D!SendTestEmail(input.configured, input.recipients, input.credentials, server)
        waits == D!BackoffSequence(input.policy)
        cap == input.policy.maxDelayMs
    IN  /\ result.ok <=> password /\ server.accepts
        /\ D!DecideRetry(result.class, input.attempts, input.policy.retryAttempts)
             <=> /\ password /\ ~server.accepts
                 /\ temporary /\ ~lasting
                 /\ input.attempts <= Len(waits)
        /\ IF input.configured /\ input.recipients # {}
           THEN test.delivered = result.ok /\ test.category = result.category
           ELSE ~test.delivered /\ test.category = "config-incomplete"
        /\ \A n \in 1 .. Len(waits) :
             LET raw == IF n = 1 THEN input.policy.baseDelayMs ELSE 3 * waits[n - 1]
             IN  waits[n] = IF raw <= cap THEN raw ELSE cap

\* Whether there is a reason of the given name to stay silent about a turn, each
\* reason by itself.
Applies(reason, c, cfg, duplicate) ==
  CASE reason = "disabled"           -> ~cfg.enabled
    [] reason = "session-muted"      -> c.sessionId \in cfg.mutedSessions
    [] reason = "workspace-muted"    -> c.cwd \in cfg.mutedWorkspaces
    [] reason = "disabled-by-policy" ->
         \/ c.status \in {"aborted", "blocked", "interrupted", "forked", "unknown"}
         \/ c.status = "error" /\ ~cfg.notifyErrors
         \/ c.status = "max-tokens" /\ ~cfg.notifyMaxTokens
         \/ c.status \in {"completed-clean", "completed-with-tool-errors"} /\ ~cfg.notifyCompleted
    [] reason = "no-visible-text"    -> ~c.visible /\ c.status # "error"
    [] reason = "below-min-duration" -> c.durationMs \in 0 .. (cfg.minTurnDurationMs - 1)
    [] reason = "duplicate"          -> duplicate

RankedReasons == <<"disabled", "session-muted", "workspace-muted", "disabled-by-policy",
                   "no-visible-text", "below-min-duration", "duplicate">>

\* A turn is announced exactly when there is no reason for silence, a failed turn
\* needs no text and an unknown duration is never too short; the reason given is the
\* strongest there is, so "duplicate" is said only of a turn that would otherwise be
\* announced (decideNotification and what it calls).  A configuration is warned of as
\* unable to send any mail exactly when nothing that can happen is ever announced
\* under it (productWarnings).
SilenceHasTheStrongestReason ==
  kind = "verdict" =>
    LET verdict == DecideNotification(input.candidate, input.config, input.duplicate)
        applies(r) == Applies(RankedReasons[r], input.candidate, input.config, input.duplicate)
    IN  /\ IF verdict = Notify THEN \A r \in 1 .. 7 : ~applies(r)
           ELSE \E r \in 1 .. 7 :
                  verdict = RankedReasons[r] /\ applies(r) /\ \A q \in 1 .. r - 1 : ~applies(q)
        /\ input.config.enabled =>
             \A questions, approvals \in BOOLEAN :
               LET cfg == input.config
                   turn(s) == [sessionId |-> FreeSession, cwd |-> NoCwd, status |-> s, visible |-> TRUE,
                               durationMs |-> UnknownDuration]
                   ask(switch) == DecideAttention(FreeSession, NoCwd, switch, cfg, FALSE)
               IN  WarnsOfSilence(<<cfg.notifyCompleted, cfg.notifyErrors, cfg.notifyMaxTokens, questions, approvals>>)
                     <=> /\ \A s \in Statuses : DecideNotification(turn(s), cfg, FALSE) # Notify
                         /\ Notify \notin {ask(questions), ask(approvals)}

\* What the usable questions up to each position cost together.
SpentUpTo(raw) ==
  LET spent[i \in 0 .. Len(raw)] ==
        IF i = 0 THEN 0
        ELSE spent[i - 1] + IF Usable(raw[i]) THEN Cost(ParseQuestion(raw[i])) ELSE 0
  IN  spent

\* What a mail carries of a call is determined by position alone: of the first
\* MaxQuestions the usable ones up to the first that overruns the budget, so that a
\* short question never slips past a long one before it; every question is either
\* carried or counted, and the reason given when none is carried is true.  Since one
\* question always fits, it is never the budget (test HAT-11c).  The mail then shows
\* each carried question once, its options under it and under no other, and admits
\* the rest (parseAskUserQuestionArguments, renderQuestionSection).  \A binds the
\* result and the lines, so that each is computed once.
CarriedIsAffordablePrefix ==
  kind = "call" /\ ReadArguments(input)[1] = "record" /\ ReadArguments(input)[2].questions[1] = "list" =>
    \A result \in {ParseQuestions(input)} :
      \A lines \in {M!QuestionLines(result.questions, result.dropped)} :
        LET raw == ReadArguments(input)[2].questions[2]
            usable == {i \in 1 .. Len(raw) : Usable(raw[i])}
            fits == {i \in usable : i <= MaxQuestions /\ SpentUpTo(raw)[i] <= MaxTotalChars}
            asks == {k \in DOMAIN lines : lines[k][1] = "question"}
            under(k) == {j \in DOMAIN lines : j > k /\ lines[j][1] = "option"
                                              /\ \A h \in asks : h <= k \/ h > j}
        IN  /\ ToSet(result.carried) = fits
            /\ \A i, j \in 1 .. Len(result.carried) : i < j => result.carried[i] < result.carried[j]
            /\ result.sawMultiSelect =>
                 \E i \in fits : \E field \in {"multi_select", "multiSelect"} : raw[i][2][field] = <<"flag", TRUE>>
            /\ result.dropReason = "none" <=> fits # {}
            /\ result.dropReason = "no-questions" <=> raw = <<>>
            /\ result.dropReason = "question-limit" => Len(raw) > MaxQuestions
            /\ result.dropReason = "no-usable-question" => usable = {}
            /\ result.dropReason # "content-limit"
            /\ fits # {} =>
                 /\ Len(raw) = Cardinality(asks)
                                + IF Last(lines)[1] = "further" THEN Last(lines)[2] ELSE 0
                 /\ \A k \in asks, n \in DOMAIN result.questions :
                      Cardinality({h \in asks : h <= k}) = n =>
                        /\ lines[k][3] = result.questions[n].question
                        /\ Cardinality(under(k)) = Len(result.questions[n].options)

\* The two boundaries never disagree about a document: one that the Host persists
\* is one that the plugin acts on, and an enabled one that the Host refuses is never
\* run.  A runnable document reaches each box once, all of the boxes it names and
\* nobody else (checkProductConfig and resolveConfig).
BoundariesAgree ==
  kind = "document" =>
    LET result == ResolveConfig(input)
        named == {e \in ToSet(input.to) : e \in Addresses}
        runs == result.enabled /\ result.errors = <<>>
    IN  /\ HostAccepts(input) => runs \/ (~ReadEnabled(input) /\ result.errors = <<>>)
        /\ ~HostAccepts(input) => ~runs
        /\ runs =>
             /\ \A a \in named :
                  Cardinality({i \in 1 .. Len(result.recipients) : result.recipients[i][2] = a[2]}) = 1
             /\ ToSet(result.recipients) \subseteq named /\ named # {}
             /\ ToSet(input.to) \subseteq Addresses \cup {<<"blank">>}

\* No payload passes for what it is not.  Lineage never makes a subagent.  Words are
\* taken for a human's only from the very message whose own source says so, and a
\* nested message speaks only in a payload that is none itself.  A reasoning block
\* never shows in a mail, wherever it stands.  An event belongs to the turn it names
\* or to none, and its usage is a report it carries.  A tool failed if its result has
\* an error or opens with a block flagged as one, and not by a later block
\* (runtime-adapter.ts, content.ts).
PayloadsAreReadStrictly ==
  /\ kind = "header" =>
       /\ \A p \in {A!Missing, <<"text", "parent">>} :
            A!IsSubagent([input EXCEPT !.parentSession = p]) <=> A!IsSubagent(input)
       /\ A!IsSubagent(input) =>
            \/ input.origin = <<"text", "subagent">>
            \/ input.delegationDepth[1] = "number" /\ input.delegationDepth[2] >= 1
  /\ kind = "message" =>
       LET prompt == A!ReadPrompt(input)
           nested == IF input.message[1] = "message" THEN {input.message[2]} ELSE {}
           says(m, part) == \/ m.content = <<"text", part>> \/ m.text = <<"text", part>>
                            \/ \E i \in DOMAIN A!AsSeq(m.content) :
                                 m.content[2][i] = [type |-> "text", text |-> <<"text", part>>]
       IN  A!IsDirectPrompt(prompt) =>
             \E m \in {input} \cup nested :
               /\ m.source = <<"text", "user">>
               /\ \A i \in DOMAIN prompt.parts : says(m, prompt.parts[i])
               /\ m \in nested => input.source = A!Missing /\ input.text = A!Missing
  /\ kind = "event" =>
       LET blocks == A!AsSeq(input.data.content)
           usage == A!ReadUsage(input.type, input.data)
           hidden == [type |-> "reasoning", text |-> <<"text", "why">>]
           turn == A!TurnOf(input.type, input.data)
       IN  /\ turn \in {A!Missing, input.data.turn} /\ turn[1] \in {"missing", "number"}
           /\ \A i \in 0 .. Len(blocks) :
                A!VisibleText(InsertAt(blocks, i + 1, hidden)) = A!VisibleText(blocks)
           /\ usage # A!Missing =>
                \/ (usage = input.data.usage /\ input.type = "assistant/message")
                \/ usage \in ToSet(A!AsSeq(input.data.stream))
  /\ kind = "tool-result" =>
       LET fails == A!ToolResultFails(input)
           blocks == A!AsSeq(input.content)
       IN  /\ fails => input.error # A!Missing \/ <<"flag", TRUE>> \in ToSet(blocks)
           /\ input.error = A!Missing /\ blocks # <<>> =>
                \A b \in {A!Junk, <<"flag", TRUE>>, <<"flag", FALSE>>} :
                  /\ A!ToolResultFails([input EXCEPT !.content = <<"list", Append(blocks, b)>>]) = fails
                  /\ A!ToolResultFails([input EXCEPT !.content = <<"list", <<b>> \o blocks>>]) <=> b = <<"flag", TRUE>>
  /\ kind = "approval" /\ UsableApproval(input.data) =>
       \A tool \in {Chars(input.data[2].toolName), 2} :
         LET identity == A!ApprovalIdentity(input.data[2].id, tool)
         IN  IF input.data[2].id \in {A!Missing, A!Junk, <<"text", "">>} THEN identity = <<"tool", tool>>
             ELSE identity = <<"id", input.data[2].id[2]>>

\* A turn ends the way its reason's own kind says, and a failure is what its code
\* says: the words of a message decide neither, whatever they speak of, and no fact is
\* made up, so that a delay of zero and none at all stay apart (toInternalEvent,
\* describeAbort, extractFailureFacts).
EndsAreReadByTheirCode ==
  kind = "reason" =>
    LET end == A!ReadTurnEnd(input)
        facts(r) == {[f EXCEPT !.message = A!Missing] : f \in A!ReadTurnEnd(r).failure}
        isError == input[1] = "record" /\ input[2].kind = <<"text", "error">>
                     /\ input[2].error[1] = "record"
        reworded(m) == <<"record", [input[2] EXCEPT !.error = <<"record", [@[2] EXCEPT !.message = m]>>]>>
    IN  /\ end.kind # "unknown" => input[2].kind = <<"text", end.kind>>
        /\ end.failure # {} <=> isError
        /\ end.told.detail # A!Missing => end.kind \in {"error", "aborted"}
        /\ isError =>
             /\ \A m \in {A!Missing, <<"text", "quota">>, <<"text", "429">>} :
                  facts(reworded(m)) = facts(input)
             /\ \A f \in end.failure :
                  /\ f.retryAfter # A!Missing => f.retryAfter[2] >= 0
                  /\ \A field \in {"status", "retryAfter", "message"} :
                       f[field] \in {A!Missing, input[2].error[2][field]}

\* A mail of a turn says no more and no less than it may.  Its subject is one line
\* within the limit that begins with the whole status, followed by the failure's code
\* before anything of lower rank.  The text it is given is the turn's within the cap,
\* cut only when it is longer, and if cut the log says so and the footer if there is
\* one, and never otherwise; of what its sections wrote it keeps everything but line
\* breaks, and those too unless more than three follow each other; partial text
\* of a failed turn never passes for an answer, nor is there said to be none when
\* some is left; and what is switched off is absent.  A mail about an approval names
\* what is asked of a human first, then as much of the tool's name as fits one line,
\* and holds the tool, the reason and nothing else of the request (send, renderMail).
MailsSayWhatTheyHold ==
  /\ kind = "approval" /\ UsableApproval(input.data) =>
       LET spelled(v) == [i \in 1 .. Chars(v) |-> "t"]
           asked == ToApproval(input.data)
           notice == [kind |-> "approval", toolName |-> spelled(asked.toolName), reason |-> spelled(asked.reason)]
           requests(mail) == {s \in ToSet(mail.sections) : s[1] = "request"}
       IN  \A mail \in {M!RenderAttention(notice, M!ApprovalLines(notice), input.render)} :
               /\ IsPrefix(M!AttentionPrefix("approval"), mail.subject) /\ "t" \in ToSet(mail.subject)
               /\ Len(mail.subject) <= 200
               /\ requests(mail) = {<<"request", <<<<"tool", notice.toolName>>, <<"reason", notice.reason>>,
                                             <<"arguments-not-included">>>>>>}
               /\ Len(mail.sections) = Cardinality({s \in {"includeMetadata", "includeFooter"} : input.render[s]}) + 1
  /\ kind = "mail" =>
       LET c == input.candidate
           render == input.render
       IN  \A mail \in {M!RenderTurn(c, render)} :
             LET subject == mail.subject
                 status == M!Prefix(c.status)
                 parts(names) == {s \in ToSet(mail.sections) : s[1] \in names}
                 shown == SubSeq(c.visible, 1, mail.bodyChars)
                 cut == mail.bodyChars < Len(c.visible)
                 at(char) == {i \in DOMAIN subject : subject[i] = char}
                 place(name) == {i \in DOMAIN mail.sections : mail.sections[i][1] = name}
                 seconds == M!FormatDuration(c.durationMs)
                 written == M!Written(mail.sections)
                 ink == {t \in ToSet(written) \cup ToSet(mail.text) : t.char # "nl"}
                 fourBreaks(text) == \E i \in 4 .. Len(text) : \A j \in i - 3 .. i : text[j].char = "nl"
             IN  /\ Len(subject) <= 200 /\ "nl" \notin ToSet(subject)
                 /\ IsPrefix(status, subject)
                 /\ at("c") \cup at("4") # {} /\ at("m") # {} => Max(at("c") \cup at("4")) < Min(at("m"))
                 /\ c.status = "error" /\ (\E f \in c.failure : "c" \in ToSet(f.code)) => "c" \in ToSet(subject)
                 /\ mail.bodyChars <= render.maxBodyChars
                 /\ cut => mail.bodyChars = render.maxBodyChars
                 /\ mail.truncated <=> cut
                 /\ Among(mail.text, ink) = Among(written, ink) /\ ~fourBreaks(mail.text)
                 /\ ~fourBreaks(written) => mail.text = written
                 /\ \A s \in parts({"output", "partial"}) : s[2] = shown
                 /\ parts({"output"}) # {} <=> c.status # "error"
                 /\ parts({"no-output"}) # {} <=> c.status = "error" /\ M!Blank(shown)
                 /\ parts({"failure"}) # {} <=> c.status = "error"
                 /\ \A i \in place("failure"), j \in place("partial") : i < j
                 /\ \A s \in parts({"footer"}) : render.includeFooter /\ ("text-was-cut" \in s[2] <=> cut)
                 /\ parts({"footer"}) = {} => ~render.includeFooter
                 /\ parts({"prompt"}) # {} => render.includeUserPrompt /\ parts({"prompt"}) = {<<"prompt", c.userText>>}
                 /\ parts({"metadata"}) # {} <=> render.includeMetadata
                 /\ seconds[1] = "minutes" => (60 * seconds[2] + seconds[3]) * 1000 - c.durationMs \in -500 .. 500
                 /\ seconds[1] = "tenths" => seconds[2] * 100 - c.durationMs \in -50 .. 50

\* The card says what the Host said and no more.  Its call succeeds exactly when the
\* Host took the request for a call of that endpoint, and what it then shows is what
\* the Host reported, a failed delivery included: that one is an answer, and no
\* refusal.  What is no success of the endpoint is none for the card, whatever it
\* carries, a queue is never shown in part, and what is shown was in the answer
\* (createRouteHandler, dispatch, client/wire.ts).
TheCardSaysWhatTheHostSaid ==
  LET outcome(endpoint, response) ==
        IF endpoint = E!StatusEndpoint THEN E!ReadRuntimeStatus(response, "r1") ELSE E!RequestTestEmail(response, "r1")
  IN
  /\ kind = "exchange" =>
       LET request == input.request
           host == input.host
           heard == outcome(input.endpoint, E!HandlePost(host, request))
           asked == /\ request.verb = "POST" /\ request.contentType = "json" /\ request.body[1] = "record"
                    /\ request.body[2] = [type |-> <<"text", "client-request">>, rpcId |-> <<"text", "r1">>,
                                          method |-> <<"text", input.endpoint>>]
       IN  /\ asked => heard.ok
           /\ heard.ok /\ request.body[2].method = <<"text", input.endpoint>> => asked
           /\ asked /\ input.endpoint = E!TestEmailEndpoint =>
                /\ heard.value[2].delivered[2] = host.test.delivered
                /\ heard.value[2].category = E!Missing <=> host.test.delivered
           /\ asked /\ input.endpoint = E!StatusEndpoint =>
                LET shown == heard.value[2]
                IN  /\ shown.active[2] = host.mounted /\ (shown.queue[1] = "record" <=> host.mounted)
                    /\ shown.configError = E!Missing <=> host.effective.errors = {}
                    /\ host.mounted => /\ shown.queue[2].delivered[2] + shown.queue[2].failed[2] = host.queue.processed
                                       /\ shown.queue[2].depth[2] = host.queue.depth
  /\ kind = "result" =>
       LET heard == outcome(input.endpoint, [status |-> 200, rpcId |-> "r1", result |-> input.result])
           said == input.result[2].value[2]
           shown == heard.value[2]
       IN  heard.ok =>
             /\ input.result[2].ok = E!Flag(TRUE)
             /\ \A field \in DOMAIN shown \ {"queue"} :
                  \/ shown[field] \in {E!At(said, field), E!Missing}
                  \/ shown[field] = E!Flag(FALSE) /\ E!At(said, field) # E!Flag(TRUE)
             /\ input.endpoint = E!StatusEndpoint /\ shown.queue # E!Missing =>
                  /\ DOMAIN shown.queue[2] = E!QueueFields
                  /\ \A field \in E!QueueFields :
                       shown.queue[2][field] = said.queue[2][field] /\ E!Count(said.queue[2][field]) # E!Missing
  /\ kind = "description" =>
       LET heard == E!DescribeCredential(input.answer, input.ref)
       IN  /\ heard.ok <=> input.answer[1] = "value" /\ input.ref \in DOMAIN input.answer[2]
           /\ heard.ok => \A field \in {"configured", "writable"} :
                heard.value[field] <=> input.answer[2][input.ref][field] = E!Flag(TRUE)
           /\ E!WriteCredential(input.answer).ok <=> input.answer[1] = "value"

\* The card previews what the Host would say.  Every field of the schema has a
\* control of its type; what the card refuses, the schema would refuse; what it writes,
\* the schema takes, and of recipients only addresses are written.  The one write that
\* the card lets pass and the schema may not take is a credential reference: its
\* pattern (config.ts) is not previewed, and the save comes back refused.
\* Text that is shown and saved again writes the value it was shown for, so that a
\* list emptied on purpose stays empty, except where nothing is shown: that
\* re-inherits.  A list whose one entry is "[]" is the list of none (client/fields.ts).
CardPreviewsTheHost ==
  /\ kind = "draft" =>
       LET f == input.field
           parsed == V!ParseField(f, input.draft)
       IN  /\ f \in V!AllFields
           /\ parsed.kind = "invalid" /\ f # "to" => ~V!SchemaTakes(f, input.draft)
           /\ parsed.kind = "value" /\ f # "smtpPasswordCredential" =>
                V!SchemaTakes(f, parsed.value)
           /\ parsed.kind = "value" /\ f \notin V!SchemaArrays => parsed.value = input.draft
           /\ f = "to" /\ parsed.kind = "value" => \A e \in ToSet(parsed.value) : e[1] = "address"
  /\ kind = "stored" =>
       LET again == V!ParseField(input.field, V!FormatField(input.field, input.value))
       IN  \/ again = V!Writes(input.value)
           \/ again = V!Clears /\ input.value \in {<<"blank">>, <<>>} /\ input.field \notin V!LineFields
           \/ input.value = <<<<"plain", "[]">>>> /\ again = V!Writes(<<>>)

\* The card tells now what a save will have done.  Each field says of an override what
\* it will say once the save landed, and then shows the text its draft is written as;
\* only text that was emptied by hand still counts as an override.  What the card says
\* is in effect does not move with the drafts, Save is offered exactly when a press of
\* it would not be turned away, and a running test locks no draft (project, planOps
\* and save of controller.ts, Card.tsx).
ThePreviewComesTrue ==
  kind = "card" =>
    LET card == input.card
        after == V!Saved(card, input.base)
        fields == DOMAIN card.section
        emptied == {f \in DOMAIN card.staged : card.staged[f] # V!Null /\ V!ParseField(f, card.staged[f]) = V!Clears}
        clean == [card EXCEPT !.staged = <<>>, !.secretDraft = FALSE]
    IN  /\ V!HasInvalid(card) \/
             \A f \in fields :
               LET now == V!FieldState(card, f)
                   then == V!FieldState(after, f)
               IN  /\ f \notin emptied => now.overridden = then.overridden
                   /\ ~then.overridden /\ f \in DOMAIN card.staged => after.section[f] = input.base[f]
                   /\ then.overridden /\ f \in DOMAIN card.staged =>
                        V!ParseField(f, then.text) = V!ParseField(f, now.text)
        /\ V!Summary(card) = V!Summary(clean) /\ V!StatusStrip(card) = V!StatusStrip(clean)
        /\ card.available /\ card.expanded /\ card.writable =>
             (<<"save">> \in V!Offers(card) <=> V!SaveProceeds(card))
        /\ V!Offers(card) # {} => V!Offers(card) \ {<<"send-test">>} = V!Offers([card EXCEPT !.testing = ~@]) \ {<<"send-test">>}
        /\ card.staged # <<>> /\ V!Offers(card) # {} => <<"discard">> \in V!Offers(card)
\* A buffer holds the latest records since it was cleared, in their order and as many
\* as it may, and counts every record that was ever written, kept or not (PluginLogger,
\* createDebugSink).  A record is named by the number of its operation.
BuffersKeepTheLatest ==
  kind = "emission" =>
    LET n == Len(input.operations)
        after[i \in 0 .. n] ==
          IF i = 0 THEN B!NoRecords
          ELSE IF input.operations[i] = "clear" THEN B!ClearRecords(after[i - 1])
          ELSE B!Keep(after[i - 1], i, input.maxRecords)
        buffer == after[n]
        since == {i \in 1 .. n : \A j \in i .. n : input.operations[j] # "clear"}
    IN  /\ ToSet(buffer.records) = {i \in since : i > n - input.maxRecords}
        /\ \A i, j \in DOMAIN buffer.records : i < j => buffer.records[i] < buffer.records[j]
        /\ buffer.emitted = Cardinality({i \in 1 .. n : input.operations[i] = "log"})
=============================================================================
