------------------------------ MODULE CardView ------------------------------
(***************************************************************************)
(* What the settings card shows and offers: project and planOps of         *)
(* client/controller.ts and the view of client/Card.tsx.  A card is        *)
(*   [available, writable, expanded, saving, testing, secretDraft, section,*)
(*    user, staged, secret, status]                                        *)
(* where section holds the composed value of each field, user the fields of*)
(* the user's own layer, staged the drafts by field (Null for a reset),    *)
(* secretDraft says that a password is being typed, secret is [known,      *)
(* configured, writable] and status what the Host last said of the runtime:*)
(* {} or one record [active, smtpConfigured, queue, configError].          *)
(***************************************************************************)
EXTENDS Fields

Null == <<"null">>
Invalid(f, draft) == draft # Null /\ ParseField(f, draft) = Refuses

\* Seeded defect: the badge of a field goes by what is stored only.
FieldStateOfStored(card, f) ==
  IF f \notin DOMAIN card.staged
  THEN [text |-> FormatField(f, card.section[f]), overridden |-> f \in card.user, invalid |-> FALSE]
  ELSE [text |-> IF card.staged[f] = Null THEN <<"blank">> ELSE card.staged[f],
        overridden |-> f \in card.user, invalid |-> Invalid(f, card.staged[f])]

\* project, of one field: a draft answers for what its save would leave.
FieldState(card, f) ==
  IF f \notin DOMAIN card.staged
  THEN [text |-> FormatField(f, card.section[f]), overridden |-> f \in card.user, invalid |-> FALSE]
  ELSE [text |-> IF card.staged[f] = Null THEN <<"blank">> ELSE card.staged[f],
        overridden |-> card.staged[f] # Null, invalid |-> Invalid(f, card.staged[f])]

HasInvalid(card) == \E f \in DOMAIN card.staged : FieldState(card, f).invalid
Dirty(card) == DOMAIN card.staged # {} \/ card.secretDraft

InEffect(card, f) == FormatField(f, card.section[f]) = <<"word", "true">>

-----------------------------------------------------------------------------
\* A save.

\* The early returns of save().
SaveProceeds(card) == ~card.saving /\ ~HasInvalid(card) /\ Dirty(card)

\* planOps: by field, the write or the clear of its draft.
PlanOps(card) ==
  [f \in {g \in DOMAIN card.staged : ~Invalid(g, card.staged[g])} |->
     IF card.staged[f] = Null THEN Clears ELSE ParseField(f, card.staged[f])]

\* The Host's mutation, external, over the layer below the user's; what the card
\* holds once it is in the form again and the drafts are gone.
Saved(card, base) ==
  LET ops == PlanOps(card)
      written == {f \in DOMAIN ops : ops[f] # Clears}
  IN  [card EXCEPT !.staged = <<>>, !.secretDraft = FALSE,
                   !.user = (@ \ DOMAIN ops) \cup written,
                   !.section = [f \in DOMAIN @ |-> IF f \in written THEN ops[f].value
                                                   ELSE IF f \in DOMAIN ops THEN base[f] ELSE @[f]]]

-----------------------------------------------------------------------------
\* The view.

\* summaryOf; what has not been read yet counts as missing.
Summary(card) ==
  [active |-> {s.active : s \in card.status},
   smtp |-> \E s \in card.status : s.smtpConfigured,
   questions |-> InEffect(card, "notifyQuestions"),
   busy |-> card.saving \/ card.testing]

\* StatusStrip.
StatusStrip(card) ==
  [active |-> {s.active : s \in card.status},
   credential |-> IF card.secret.known THEN {card.secret.configured} ELSE {},
   queue |-> UNION {s.queue : s \in card.status},
   questions |-> InEffect(card, "notifyQuestions"),
   approvals |-> InEffect(card, "notifyApprovals"),
   configError |-> UNION {s.configError : s \in card.status}]

Locked(card) == card.saving \/ ~card.writable

\* FieldControl and FieldGroup: a field is reset by a button that only a field shown
\* as overridden has.
FieldOffers(card) ==
  IF Locked(card) THEN {}
  ELSE {<<"edit", f>> : f \in DOMAIN card.section}
         \cup {<<"reset", f>> : f \in {g \in DOMAIN card.section : FieldState(card, g).overridden}}

\* SecretControl.
SecretOffers(card) == IF Locked(card) \/ ~card.secret.writable THEN {} ELSE {<<"secret">>, <<"clear-credential">>}

\* The buttons of MailNotifyCardView.
ButtonOffers(card) ==
  {button \in {<<"send-test">>, <<"reset-all">>, <<"discard">>, <<"save">>} :
     /\ ~Locked(card)
     /\ button = <<"send-test">> => ~card.testing
     /\ button \in {<<"discard">>, <<"save">>} => Dirty(card)
     /\ button = <<"save">> => ~HasInvalid(card)}

\* MailNotifyCardView: nothing unless the Host serves the namespace, the summary
\* alone unless it is expanded.
Offers(card) ==
  IF ~card.available \/ ~card.expanded THEN {}
  ELSE FieldOffers(card) \cup SecretOffers(card) \cup ButtonOffers(card)
=============================================================================
