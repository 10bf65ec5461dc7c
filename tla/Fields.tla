------------------------------- MODULE Fields -------------------------------
(***************************************************************************)
(* client/fields.ts: how the card's controls turn stored values into text  *)
(* and text into writes, next to what the schema of config.ts accepts.     *)
(* A draft is <<"blank">>, <<"number", n>> for digits, <<"word", w>> for a *)
(* name in the grammar of credential references, <<"text", w>> for other   *)
(* text, or <<"entries", s>> for text with separators, whose pieces are    *)
(* <<"blank">>, <<"plain", w>> or <<"address", a>>.                        *)
(***************************************************************************)
EXTENDS Naturals, SequencesExt, Selection

\* The control table: which kind of control each field has.
BooleanFields ==
  {"enabled", "includeSubagents", "notifyQuestions", "notifyApprovals", "notifyCompleted",
   "notifyErrors", "notifyMaxTokens", "smtpSecure", "includeMetadata", "includeUserPrompt",
   "includeFooter"}
TextFields == {"smtpHost", "smtpUser", "from", "smtpPasswordCredential"}
AddressFields == {"to"}
LineFields == {"mutedWorkspaces", "mutedSessions"}

\* In milliseconds, and in characters.
Hour == 3600000
Million == 1000000

\* Seeded defect: a queue without room can be typed.
CardBoundsFromZero ==
  [minTurnDurationMs |-> 0 .. Hour, smtpPort |-> 1 .. 65535, maxBodyChars |-> 1000 .. Million,
   queueSize |-> 0 .. 10000, retryAttempts |-> 0 .. 10, retryBaseDelayMs |-> 100 .. 60000,
   maxDedupeEntries |-> 10 .. 100000]

\* The bounds of the natural controls.
CardBounds ==
  [minTurnDurationMs |-> 0 .. Hour, smtpPort |-> 1 .. 65535, maxBodyChars |-> 1000 .. Million,
   queueSize |-> 1 .. 10000, retryAttempts |-> 0 .. 10, retryBaseDelayMs |-> 100 .. 60000,
   maxDedupeEntries |-> 10 .. 100000]

AllFields == BooleanFields \cup TextFields \cup AddressFields \cup LineFields \cup DOMAIN CardBounds

\* fieldSchema: the bounds of its naturals, and its other fields by type.
SchemaBounds ==
  [smtpPort |-> 1 .. 65535, minTurnDurationMs |-> 0 .. Hour, maxBodyChars |-> 1000 .. Million,
   queueSize |-> 1 .. 10000, retryAttempts |-> 0 .. 10, retryBaseDelayMs |-> 100 .. 60000,
   maxDedupeEntries |-> 10 .. 100000]
SchemaBooleans ==
  {"enabled", "smtpSecure", "includeSubagents", "notifyCompleted", "notifyErrors",
   "notifyMaxTokens", "notifyQuestions", "notifyApprovals", "includeMetadata",
   "includeUserPrompt", "includeFooter"}
SchemaStrings == {"smtpHost", "smtpUser", "smtpPasswordCredential", "from"}
SchemaArrays == {"to", "mutedWorkspaces", "mutedSessions"}

\* What fieldSchema takes for a field; a list may hold any strings, and only the
\* credential reference is held to a pattern.
SchemaTakes(f, value) ==
  /\ f \in DOMAIN SchemaBounds => \E n \in SchemaBounds[f] : value = <<"number", n>>
  /\ f \in SchemaBooleans => value \in {<<"word", "true">>, <<"word", "false">>}
  /\ f = "smtpPasswordCredential" => value[1] = "word"

-----------------------------------------------------------------------------
Clears == [kind |-> "clear"]
Refuses == [kind |-> "invalid"]
Writes(value) == [kind |-> "value", value |-> value]

Pieces(draft) ==
  CASE draft[1] = "entries" -> Without(draft[2], {<<"blank">>})
    [] draft[1] \in {"word", "text"} -> <<<<"plain", draft[2]>>>>
    [] OTHER                -> <<draft>>

ParseNatural(bounds, draft) ==
  IF draft[1] = "number" /\ draft[2] \in bounds THEN Writes(draft) ELSE Refuses

\* A list of lines may be written as empty; white space alone re-inherits.
ParseLines(draft) ==
  IF Pieces(draft) = <<>> THEN Clears
  ELSE IF Pieces(draft) = <<<<"plain", "[]">>>> THEN Writes(<<>>)
  ELSE Writes(Pieces(draft))

ParseAddresses(draft) ==
  IF Pieces(draft) = <<>> THEN Clears
  ELSE IF \E e \in ToSet(Pieces(draft)) : e[1] # "address" THEN Refuses
  ELSE Writes(Pieces(draft))

\* parseField.
ParseField(f, draft) ==
  IF draft = <<"blank">> THEN Clears
  ELSE IF f \in BooleanFields
  THEN IF draft \in {<<"word", "true">>, <<"word", "false">>} THEN Writes(draft) ELSE Refuses
  ELSE IF f \in DOMAIN CardBounds THEN ParseNatural(CardBounds[f], draft)
  ELSE IF f \in LineFields THEN ParseLines(draft)
  ELSE IF f \in AddressFields THEN ParseAddresses(draft)
  ELSE Writes(draft)

\* formatField, of a value of the field's type; a stored scalar is written like the
\* draft that shows it, and an empty string is <<"blank">>.
FormatField(f, value) ==
  IF f \notin AddressFields \cup LineFields THEN value
  ELSE IF value # <<>> THEN <<"entries", value>>
  ELSE IF f \in LineFields THEN <<"text", "[]">> ELSE <<"blank">>
=============================================================================
