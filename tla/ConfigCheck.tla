----------------------------- MODULE ConfigCheck -----------------------------
(***************************************************************************)
(* config-check.ts and resolveConfig of config.ts: the one set of rules    *)
(* that two boundaries apply to a configuration document, the Host before  *)
(* it persists an edit and the plugin before it mounts.  A document is     *)
(*   [enabled, inRange, credential, host, user, from, to]                  *)
(* where inRange says that every number and flag fits its field schema, a  *)
(* text is "blank", "spaced" (white space inside), "plain" or "address",   *)
(* and an entry of to is <<text>>, or <<"address", box, spelling>>, where  *)
(* two spellings of one box differ in case only.                           *)
(***************************************************************************)
EXTENDS Naturals, SequencesExt, Selection

CONSTANTS Boxes, Spellings

Addresses == {"address"} \X Boxes \X Spellings

\* readEnabled: only an explicit false switches the plugin off.
ReadEnabled(d) == d.enabled # "false"

\* The field schema: an absent reference takes the default, a present one must
\* match the grammar, which neither blanks nor white space do.
SchemaAccepts(d) == d.inRange /\ d.credential \in {"absent", "plain"}

\* dedupeAddresses: the first spelling of a box stays.
DedupeAddresses(list) ==
  LET upTo[n \in 0 .. Len(list)] ==
        IF n = 0 THEN <<>>
        ELSE LET out == upTo[n - 1]
             IN  IF \E i \in 1 .. Len(out) : out[i][2] = list[n][2] THEN out ELSE Append(out, list[n])
  IN  upTo[Len(list)]

\* normalizeRecipients: blanks are ignored and every other misfit is refused.
NormalizeRecipients(to) ==
  [accepted |-> DedupeAddresses(Among(to, Addresses)),
   refused  |-> Without(to, Addresses \cup {<<"blank">>})]

\* checkProductConfig: the fields of the refusals, in the order of the rules, and
\* the recipients a mail will go to.
CheckProductConfig(d) ==
  LET to == NormalizeRecipients(d.to)
      issue(wrong, field) == IF wrong THEN <<field>> ELSE <<>>
  IN  IF ~ReadEnabled(d) THEN [issues |-> <<>>, recipients |-> <<>>]
      ELSE [issues |-> issue(d.host \in {"blank", "spaced"}, "smtpHost")
                        \o issue(d.user = "blank", "smtpUser")
                        \o issue(d.from # "address", "from")
                        \o [i \in 1 .. Len(to.refused) |-> "to"]
                        \o issue(to.accepted = <<>>, "to"),
            recipients |-> to.accepted]

\* productWarnings, of the five notification switches: "no email can ever be sent".
WarnsOfSilence(switches) == \A s \in ToSet(switches) : ~s

\* Seeded defect: the Host asks the field schema only.
HostAcceptsShape(d) == SchemaAccepts(d)

\* withProductChecks: the Host asks the field schema first, and the product rules
\* only when it is content.
HostAccepts(d) == SchemaAccepts(d) /\ CheckProductConfig(d).issues = <<>>

\* resolveConfig: what the plugin would run, or why it would not.
ResolveConfig(d) ==
  IF ~ReadEnabled(d) THEN [enabled |-> FALSE, errors |-> <<>>, recipients |-> <<>>]
  ELSE IF ~SchemaAccepts(d)
  THEN [enabled |-> FALSE, errors |-> <<"schema">>, recipients |-> <<>>]
  ELSE LET check == CheckProductConfig(d)
       IN  [enabled |-> TRUE, errors |-> check.issues, recipients |-> check.recipients]
=============================================================================
