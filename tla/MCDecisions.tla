----------------------------- MODULE MCDecisions ----------------------------
(***************************************************************************)
(* Decisions over inputs that cross every boundary the code tests: each    *)
(* error code with replies on both sides of each range, switches one by    *)
(* one, calls longer than the question limit and dearer than the budget,   *)
(* and documents with each field right and wrong.                          *)
(***************************************************************************)
EXTENDS LogDecisions

CONSTANTS answer, which, why, because  \* texts of notifications

MCPolicies == [retryAttempts : {0, 3}, baseDelayMs : {1, 2, 9}, maxDelayMs : {9, 30}]
MCReplies == {0, 250, 399, 400, 421, 450, 453, 454, 455, 499, 500, 521, 530, 535, 538,
              549, 550, 554, 557, 558, 600}
MCServers ==
  {[accepts |-> TRUE, code |-> D!NoCode, reply |-> D!NoReply]}
    \cup [accepts : {FALSE}, code : D!TransientCodes \cup D!PermanentCodes \cup {D!NoCode, "EOTHER"},
          reply : MCReplies]
Stored == [mounted |-> TRUE, answers |-> TRUE, value |-> "password"]
MCAttempts ==
  [credentials : {Stored}, server : MCServers, configured : {TRUE}, recipients : {{"a"}},
   attempts : 1 .. 4, policy : MCPolicies]
    \cup [credentials : [mounted : BOOLEAN, answers : BOOLEAN, value : {D!NoValue, "password"}],
          server : {r \in MCServers : r.reply \in {0, 421, 550}}, configured : BOOLEAN,
          recipients : {{}, {"a"}},
          attempts : {1}, policy : MCPolicies]

MCConfigs ==
  [enabled : BOOLEAN, mutedSessions : {{}, {"s1"}}, mutedWorkspaces : {{}, {"w1"}},
   notifyCompleted : BOOLEAN, notifyErrors : BOOLEAN, notifyMaxTokens : BOOLEAN,
   minTurnDurationMs : {0, 5}]
MCVerdicts ==
  [candidate : [sessionId : {"s1"}, cwd : {"w1", NoCwd}, status : Statuses, visible : BOOLEAN,
                durationMs : {UnknownDuration, 0, 4, 5}],
   config : MCConfigs, duplicate : BOOLEAN]

Field(n) == <<"text", n>>
Question(id, question, header, multi, service, options) ==
  <<"record", [id |-> id, question |-> question, header |-> header, multi_select |-> multi,
               multiSelect |-> service, options |-> options]>>
Yes == <<"flag", TRUE>>
No == <<"flag", FALSE>>
OptionOf(label, description) == <<"record", [label |-> label, description |-> description]>>
OptionLists ==
  {Missing, Junk, <<"list", <<>>>>, <<"list", <<Junk, OptionOf(Missing, Field(1))>>>>,
   <<"list", <<OptionOf(Field(3), Missing), Junk, OptionOf(Field(1), Field(1))>>>>,
   <<"list", <<OptionOf(Field(1), Field(2)), OptionOf(Field(1), Missing)>>>>}
\* One question in every shape, and calls of up to four of a few costs.
OneQuestion ==
  {Junk} \cup
  {Question(i, q, h, m, s, o) :
     i \in {Missing, Junk, Field(0), Field(1), Field(2)}, q \in {Missing, Field(0), Field(1), Field(3)},
     h \in {Missing, Field(2)}, m \in {Missing, Null, Junk, Yes, No}, s \in {Missing, Yes, No}, o \in OptionLists}
Plain(n, o) == Question(Field(1), Field(n), Missing, Missing, Yes, o)
FewQuestions ==
  {Junk, Question(Missing, Field(1), Missing, Yes, Missing, Missing)}
    \cup {Plain(n, o) : n \in 1 .. 2, o \in {Missing, <<"list", <<OptionOf(Field(1), Missing), OptionOf(Field(2), Field(1))>>>>}}
Container(questions) == <<"record", [questions |-> questions]>>
MCValues ==
  {Junk, Container(Missing), Container(Junk), Container(<<"list", <<>>>>)}
    \cup {Container(<<"list", <<q>>>>) : q \in OneQuestion}
    \cup {Container(<<"list", s>>) : s \in UNION {[1 .. n -> FewQuestions] : n \in 2 .. 4}}
MCCalls == {Missing, Field(0), Field(1)} \cup MCValues \cup {<<"json", v>> : v \in MCValues}

Texts == {"blank", "spaced", "plain", "address"}
Entries == {<<"blank">>, <<"plain">>} \cup Addresses
MCDocuments ==
  [enabled : {"absent", "true", "false"}, inRange : BOOLEAN,
   credential : {"absent", "blank", "spaced", "plain"},
   host : {"blank", "spaced", "plain"}, user : {"blank", "plain"}, from : Texts,
   to : UNION {[1 .. n -> Entries] : n \in 0 .. 2}]

Words(t) == <<"text", t>>
MCHeaders ==
  [origin : {A!Missing, A!Junk, Words("fork"), Words("subagent")},
   delegationDepth : {A!Missing, A!Junk, Words("1"), <<"number", -1>>, <<"number", 0>>, <<"number", 1>>},
   parentSession : {A!Missing, Words("parent")}]

TextBlock(t) == [type |-> "text", text |-> Words(t)]
Contents(t) ==
  {A!Missing, A!Junk, Words(""), Words(t), <<"list", <<>>>>,
   <<"list", <<TextBlock(t), [type |-> "image", text |-> Words("caption")], TextBlock(t)>>>>}
Message(content, text, source) ==
  [content |-> content, text |-> text, source |-> source, role |-> A!Missing]
Sources == {A!Missing, A!Junk, Words(""), Words("user"), Words("goal")}
Inner ==
  {Message(c, x, s) : c \in Contents("inner"), x \in {A!Missing, Words("inner text")}, s \in Sources}
MCMessages ==
  [content : Contents("outer"), text : {A!Missing, A!Junk, Words("outer text")}, source : Sources,
   role : {A!Missing, Words("user")}, turn : {A!Missing, <<"number", 3>>},
   message : {A!Missing, A!Junk} \cup {<<"message", m>> : m \in Inner}]

Reports == {A!Missing, A!Junk, <<"usage", {}>>, <<"usage", {"input"}>>, <<"usage", {"input", "output"}>>}
Blocks ==
  [type : {"text", "reasoning"}, text : {A!Missing, Words(""), Words("x")}]
MCTurnEvents ==
  [type : A!TurnKinds \cup {"plugin/event"},
   data : [turn : {A!Missing, A!Junk, Words("3"), <<"number", 3>>},
           usage : Reports,
           stream : {A!Missing, A!Junk} \cup {<<"list", <<r, q>>>> : r, q \in Reports \ {A!Missing}},
           content : {A!Missing, <<"list", <<>>>>}
                       \cup {<<"list", <<b, TextBlock("y")>>>> : b \in Blocks}]]

BlockFlags == {A!Junk, <<"flag", TRUE>>, <<"flag", FALSE>>}
MCToolResults ==
  [content : {A!Missing, A!Junk} \cup {<<"list", s>> : s \in UNION {[1 .. n -> BlockFlags] : n \in 0 .. 3}},
   error : {A!Missing, A!Junk, Words("null")}]

MCReasons ==
  {A!Missing, A!Junk}
    \cup {<<"record", [kind |-> k, error |-> e, reason |-> c]>> :
            k \in {A!Missing, A!Junk, Words(""), Words("later")} \cup {Words(n) : n \in A!EndKinds},
            e \in {A!Missing, A!Junk}
                   \cup {<<"record", [code |-> code, message |-> m, status |-> s, retryAfter |-> r]>> :
                           code \in {A!Missing, Words(""), Words("QUOTA")},
                           m \in {A!Missing, Words(""), Words("quota")},
                           s \in {A!Missing, Words("429"), <<"number", 429>>},
                           r \in {A!Missing, A!Junk, <<"number", -1>>, <<"number", 0>>, <<"number", 5>>}},
            c \in {A!Missing, A!Junk}
                   \cup {<<"record", [kind |-> k2, reason |-> n]>> :
                           k2 \in {A!Missing, Words(""), Words("user"), Words("new")},
                           n \in {A!Missing, Words("note")}}}

Times(n, char) == [i \in 1 .. n |-> char]
MCFailures ==
  {{}} \cup {{[code |-> code, status |-> s, retryAfter |-> {}, message |-> <<>>]} :
              code \in {<<>>, <<"nl">>, Times(59, "c") \o <<"nl", "c">>, Times(125, "c")},
              s \in {<<>>, <<"4">>, Times(20, "4")}}
MCBodies == {<<>>, <<"sp">>} \cup [1 .. 3 -> {"x", "nl"}]
MCRenders ==
  [includeMetadata : BOOLEAN, includeUserPrompt : BOOLEAN, includeFooter : BOOLEAN, maxBodyChars : {1, 2, 3}]
Candidates(statuses, bodies, texts, failures, models, durations) ==
  [status : statuses, visible : bodies, userText : texts, model : models,
   durationMs : durations, failure : failures, usageComplete : {TRUE}, usageMissingCount : {0},
   usageUnobservableRetries : {0}]
Plain1 == [includeMetadata |-> TRUE, includeUserPrompt |-> FALSE, includeFooter |-> TRUE, maxBodyChars |-> 1]
LineBreaks == <<"nl", "m", "nl", "nl", "m">>
\* Every subject and duration over one body, every body under few subjects, and long
\* runs of line breaks, one of which is cut in its middle.
Gaping == {Times(1, "x") \o Times(n, "nl") \o Times(m, "x") : n \in {3, 4, 5}, m \in {0, 1}}
MCMails ==
  [candidate : Candidates({"error"}, {<<"x">>}, {<<>>}, MCFailures, {<<>>, LineBreaks, Times(81, "m")}, {0})
                 \cup Candidates(Statuses \ {"error"}, {<<"x">>}, {<<>>}, {{}}, {<<>>, LineBreaks, Times(81, "m")},
                                 {UnknownDuration, 0, 999, 1000, 59960, 119600, 90000}),
   render : {Plain1}]
  \cup
  [candidate : Candidates({"error"}, MCBodies, {<<>>, <<"sp">>, <<"p">>},
                          {{}, {[code |-> <<"c">>, status |-> <<"4">>, retryAfter |-> {}, message |-> <<>>]}},
                          {<<"m">>}, {0})
                 \cup Candidates({"completed-clean", "max-tokens"}, MCBodies, {<<>>, <<"sp">>, <<"p">>}, {{}}, {<<"m">>}, {0}),
   render : MCRenders]
  \cup
  [candidate : Candidates({"error", "completed-clean"}, Gaping, {<<>>, <<"p", "nl", "nl">>}, {{}}, {<<>>}, {0}),
   render : [includeMetadata : BOOLEAN, includeUserPrompt : BOOLEAN, includeFooter : BOOLEAN, maxBodyChars : {5, 9}]]

Lengths == {Missing, Junk, Field(0), Field(1), Field(70), Field(300)}
MCApprovals ==
  [data : {Junk} \cup {<<"record", [id |-> i, toolName |-> t, reason |-> r, callId |-> Field(1)]>> :
                          i \in {A!Missing, A!Junk, Words(""), Words("ask-1"), <<"number", 1>>},
                          t \in Lengths, r \in Lengths},
   render : {r \in MCRenders : r.maxBodyChars = 1 /\ ~r.includeUserPrompt}]

MCHosts ==
  [mounted : BOOLEAN,
   effective : [smtpConfigured : BOOLEAN, credentialRef : {"", "SMTP"}, queueSize : {5}, errors : {{}, {"smtpHost"}}],
   queue : {q \in [depth : {0, 2}, processed : 0 .. 2, failed : 0 .. 2] : q.failed <= q.processed},
   test : [delivered : BOOLEAN, recipientCount : {0, 2}, category : {"config-incomplete"}]]
TextFields == {E!Missing, E!Flag(TRUE), Words(""), Words("r1")}
MCRequests ==
  [verb : {"GET", "POST"}, contentType : {"json", "text"},
   body : {<<"unparsable">>, A!Junk}
     \cup {<<"record", [type |-> t, rpcId |-> i, method |-> m]>> :
             t \in {E!Missing, Words("client-request"), Words("server-response")}, i \in TextFields,
             m \in {E!Missing, Words(""), Words("other"), Words(E!StatusEndpoint), Words(E!TestEmailEndpoint)}}]
MCAsked(endpoint) ==
  [verb |-> "POST", contentType |-> "json",
   body |-> <<"record", [type |-> Words("client-request"), rpcId |-> Words("r1"), method |-> Words(endpoint)]>>]
Endpoint == {E!StatusEndpoint, E!TestEmailEndpoint}
AHost == CHOOSE h \in MCHosts : h.mounted
MCExchanges ==
  {[endpoint |-> e, host |-> h, request |-> MCAsked(e)] : e \in Endpoint, h \in MCHosts}
    \cup [endpoint : Endpoint, host : {AHost}, request : MCRequests]
Counts == {E!Missing, A!Junk, <<"number", -1>>, <<"number", 3>>}
Flags == {E!Missing, A!Junk, Words("true"), E!Flag(TRUE), E!Flag(FALSE)}
MCBodyValues(endpoint) ==
  {E!Missing, A!Junk, Words("r1")} \cup
  IF endpoint = E!TestEmailEndpoint
  THEN {<<"record", [delivered |-> d, recipientCount |-> n, category |-> c, message |-> c]>> :
          d \in Flags, n \in Counts, c \in TextFields}
  ELSE {<<"record", [active |-> a, smtpConfigured |-> E!Flag(TRUE), credentialRef |-> r, queue |-> q, configError |-> t]>> :
          a \in Flags, r \in TextFields, t \in TextFields,
          q \in {E!Missing, A!Junk} \cup {<<"record", [depth |-> <<"number", 3>>, size |-> <<"number", 5>>, delivered |-> x, failed |-> f]>> :
                                       x \in Counts, f \in {E!Missing, <<"number", 0>>}}
                           \cup {<<"record", [f \in E!QueueFields \cup {"more"} |-> <<"number", 3>>]>>}}
MCResultsOf(endpoint) ==
  {[endpoint |-> endpoint, result |-> r] : r \in {E!Missing, A!Junk}
    \cup {<<"record", [ok |-> o, value |-> v, error |-> x]>> :
            o \in {E!Flag(TRUE), E!Flag(FALSE), A!Junk}, v \in MCBodyValues(endpoint),
            x \in {E!Missing, <<"record", [message |-> Words("no")]>>}}}
MCResults == MCResultsOf(E!StatusEndpoint) \cup MCResultsOf(E!TestEmailEndpoint)
MCDescriptions ==
  [ref : {"SMTP"},
   answer : {<<"throws">>, <<"error", "no">>, <<"value", <<>>>>}
     \cup {<<"value", [r \in {ref} |-> [configured |-> c, writable |-> w]]>> :
             ref \in {"SMTP", "OTHER"}, c \in Flags, w \in Flags}]

Leaves == {<<"scalar", "s">>, <<"null">>, <<"lost", "undefined">>, <<"lost", "NaN">>}
\* Keys a dot makes two ways one path of, and the empty one.
DottedKey == <<"a", ".", "b">>
Containers(S) ==
  {<<"list", s>> : s \in UNION {[1 .. n -> S] : n \in 0 .. 2}}
    \cup {<<"object", s>> : s \in {<<>>} \cup {<<<<k, v>>>> : k \in {<<"a">>, <<"b">>, <<>>}, v \in S}
                                 \cup {<<<<k, v>>, <<<<"a">>, w>>>> : k \in {<<"b">>, DottedKey}, v \in S, w \in S}}
MCInner == Leaves \cup Containers(Leaves)
MCValuesLogged == MCInner \cup Containers(MCInner)
MCEmissions == [maxRecords : {0, 1, 2}, operations : UNION {[1 .. n -> {"log", "clear"}] : n \in 0 .. 5}]
MCNotices ==
  [kind : {"turn", "question", "approval"}, sessionId : {"s1", "s2"}, turn : {1, 2}, step : {1, 2}, status : {"error"},
   toolName : {"Bash"}, visible : {answer}, questions : {<<>>, <<which, why>>},
   reason : {because}]

CardFields == {"notifyQuestions", "notifyApprovals", "queueSize", "mutedSessions"}
CardValues(f) ==
  CASE f = "queueSize"     -> {<<"number", 1>>, <<"number", 100>>}
    [] f = "mutedSessions" -> {<<>>, <<<<"plain", "w">>>>}
    [] OTHER               -> {<<"word", "true">>, <<"word", "false">>}
CardDrafts(f) ==
  {V!Null, <<"blank">>, <<"word", "yes">>} \cup {V!FormatField(f, v) : v \in CardValues(f)}
BaseLayer ==
  [notifyQuestions |-> <<"word", "true">>, notifyApprovals |-> <<"word", "false">>,
   queueSize |-> <<"number", 100>>, mutedSessions |-> <<>>]
\* Every state of one field and of its draft beside a second one that is reset.
StagedSets == {<<>>} \cup UNION {[{f} -> CardDrafts(f)] : f \in CardFields}
                \cup {[f \in {g, "notifyApprovals"} |-> IF f = g THEN d ELSE V!Null] :
                         g \in {"queueSize"}, d \in CardDrafts("queueSize")}
UserLayers == {<<>>} \cup UNION {[{f} -> CardValues(f)] : f \in CardFields}
MCStatuses == {{}} \cup {{s} : s \in [active : BOOLEAN, smtpConfigured : BOOLEAN, queue : {{}, {2}}, configError : {{}, {"no host"}}]}
MCCards ==
  {[base |-> BaseLayer,
    card |-> [available |-> flags.available, writable |-> flags.writable, expanded |-> flags.expanded,
              saving |-> flags.saving, testing |-> flags.testing, secretDraft |-> flags.draft,
              section |-> user @@ BaseLayer, user |-> DOMAIN user, staged |-> staged,
              secret |-> [known |-> TRUE, configured |-> TRUE, writable |-> flags.secret], status |-> status]] :
     user \in UserLayers, staged \in StagedSets, status \in {{}, CHOOSE s \in MCStatuses : s # {}},
     flags \in [available : BOOLEAN, writable : BOOLEAN, expanded : BOOLEAN, saving : BOOLEAN,
                testing : BOOLEAN, draft : BOOLEAN, secret : {TRUE, FALSE}]}

Edges == UNION {{n - 1, n, n + 1} : n \in {1, 10, 100, 1000, 10000, 60000, 65535, 100000, 1000000, 3600000}}
Pieces == {<<"blank">>, <<"plain", "w">>, <<"plain", "[]">>, <<"address", "a">>, <<"address", "b">>}
MCControls ==
  [field : DOMAIN V!SchemaBounds \cup V!SchemaBooleans \cup V!SchemaStrings \cup V!SchemaArrays,
   draft : {<<"blank">>} \cup {<<"number", n>> : n \in Edges}
             \cup {<<"word", w>> : w \in {"true", "false", "yes"}}
             \cup {<<"text", w>> : w \in {"[]", "scope/id"}}
             \cup {<<"entries", s>> : s \in Pieces \X Pieces}]
Lists(S) == {<<>>} \cup {<<e>> : e \in S} \cup S \X S
MCStoredValues ==
  {[field |-> f, value |-> <<"number", n>>] : f \in {"queueSize"}, n \in {1, 10000}}
    \cup [field : V!SchemaBooleans, value : {<<"word", "true">>, <<"word", "false">>}]
    \cup [field : V!SchemaStrings \ {"smtpPasswordCredential"},
            value : {<<"blank">>, <<"word", "host">>, <<"text", "a host">>}]
    \cup [field : {"smtpPasswordCredential"}, value : {<<"word", "DSH_MAIL_SMTP_PASSWORD">>}]
    \cup [field : {"to"}, value : Lists({<<"address", "a">>, <<"address", "b">>})]
    \cup [field : {"mutedWorkspaces", "mutedSessions"}, value : Lists({<<"plain", "w">>, <<"plain", "[]">>})]
=============================================================================
