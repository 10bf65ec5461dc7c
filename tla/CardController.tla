--------------------------- MODULE CardController ---------------------------
(***************************************************************************)
(* client/controller.ts with client/Card.tsx and the credential calls of   *)
(* client/wire.ts: the settings card stages drafts, saves them with one    *)
(* fenced mutation, then stores the password under the reference in        *)
(* effect, asks for test mails, and keeps re-reading what the host says of *)
(* that reference, while other surfaces write the same document and the    *)
(* same credentials.  Of the form's fields the model keeps the credential  *)
(* reference, "ref", and one other, "other"; the runtime's status, which a *)
(* refresh reads beside the reference, is the business of Endpoints.       *)
(*                                                                         *)
(* The host (doc, creds, invalidations) and the shared form service are    *)
(* external: a mutation is atomic, refused unless the fence is the current *)
(* revision, and a call that fails may or may not have been carried out.   *)
(***************************************************************************)
EXTENDS Naturals, Sequences, FiniteSets, Bags

CONSTANTS
  Refs,            \* credential references
  Others,          \* values of the other field
  DefaultRef,      \* what an unset field re-inherits
  DefaultOther,
  Drafts,          \* what may be typed into the fields
  Secrets,
  Budget,          \* model bound: saves, removals, tests and other surfaces' writes
  MaxReads         \* model bound: reads of a reference under way when the poll adds one

ASSUME CardAssumption ==
  /\ DefaultRef \in Refs /\ DefaultOther \in Others
  /\ Budget \in Nat /\ MaxReads \in Nat

VARIABLES
  doc,             \* the host's document: [ref, other, revision]
  creds,           \* the host's secret per reference, or NoSecret
  invalidations,   \* references whose credentials/reference-updated is under way
  form,            \* the document as the shared form shows it
  staged,          \* drafts by field
  secretDraft,
  phase,           \* "idle", "mutating", "storing" or "removing": saving unless idle
  call,            \* the call under way: [ops, fence, ref, reply]
  failed,
  notice,          \* "none", "reset", "saved", "removed" or "refused"
  refreshes,       \* the bag of reads of a reference under way: [ref, answer]
  credential,      \* the reference as shown: "configured", "unconfigured", "unreadable"
  testing,         \* a delivery test is in flight
  testEmail,       \* the outcome of the last one: "none", "delivered" or "refused"
  snapshot,        \* what locks the controls, as published: [saving, testing]
  budget,
  landed           \* history: [ops, secret, ref] the host carried out for this save

host == <<doc, creds, invalidations>>
drafts == <<staged, secretDraft>>
saving == <<phase, call, failed, notice, landed>>
shown == <<refreshes, credential>>
test == <<testing, testEmail>>
vars == <<host, form, drafts, saving, shown, test, snapshot, budget>>

Fields == {"ref", "other"}
NoSecret == "no-secret"
Clear == "clear"           \* the null draft: unset the field on save
Invalid == "invalid"       \* text parseField refuses
Values(f) == IF f = "ref" THEN Refs ELSE Others
Default(f) == IF f = "ref" THEN DefaultRef ELSE DefaultOther
NoOps == <<>>              \* the function without fields

Answers == {"configured", "unconfigured", "unreadable"}

NoCall == [ops |-> NoOps, fence |-> 0, ref |-> DefaultRef, reply |-> "none"]
NothingLanded == [ops |-> NoOps, secret |-> NoSecret, ref |-> DefaultRef]

-----------------------------------------------------------------------------
Init ==
  /\ doc = [ref |-> DefaultRef, other |-> DefaultOther, revision |-> 0]
  /\ creds = [ref \in Refs |-> NoSecret]
  /\ invalidations = {}
  /\ form = doc
  /\ staged = NoOps /\ secretDraft = NoSecret
  /\ phase = "idle" /\ call = NoCall /\ failed = FALSE /\ notice = "none"
  /\ landed = NothingLanded
  /\ refreshes = SetToBag({[ref |-> DefaultRef, answer |-> "none"]})  \* the constructor's
  /\ credential = "unreadable"
  /\ testing = FALSE /\ testEmail = "none"
  /\ snapshot = [saving |-> FALSE, testing |-> FALSE]
  /\ budget = Budget

Spend == budget > 0 /\ budget' = budget - 1

\* publish(): a save is under way unless the phase is idle.
Publish == snapshot' = [saving |-> phase' # "idle", testing |-> testing']

\* refresh() up to its await: the reference is read from the form now.
StartRefresh(ref) == refreshes' = refreshes (+) SetToBag({[ref |-> ref, answer |-> "none"]})

\* Seeded defect: the card polls only until the reference holds a value.
PollUntilConfigured ==
  /\ BagCardinality(refreshes) < MaxReads /\ credential # "configured"
  /\ StartRefresh(form.ref)
  /\ UNCHANGED <<host, form, drafts, saving, credential, test, snapshot, budget>>

\* The poll of a mounted card, useEffect's setInterval.
Poll ==
  /\ BagCardinality(refreshes) < MaxReads
  /\ StartRefresh(form.ref)
  /\ UNCHANGED <<host, form, drafts, saving, credential, test, snapshot, budget>>

-----------------------------------------------------------------------------
\* The user.  Card.tsx disables its controls while the snapshot shows a save under
\* way, Save also while nothing is drafted or a draft is invalid, the password's also
\* while the reference cannot be written, and the test's also while one is in flight.

\* edit(), and resetField() with the null draft.
Edit(f, draft) ==
  /\ ~snapshot.saving
  /\ staged' = [g \in DOMAIN staged \cup {f} |-> IF g = f THEN draft ELSE staged[g]]
  /\ notice' = "none"
  /\ UNCHANGED <<host, form, secretDraft, phase, call, failed, landed, shown, test, budget>>
  /\ Publish

ResetAll ==
  /\ ~snapshot.saving
  /\ staged' = [f \in Fields |-> Clear]
  /\ notice' = "reset"
  /\ UNCHANGED <<host, form, secretDraft, phase, call, failed, landed, shown, test, budget>>
  /\ Publish

SetSecretDraft(secret) ==
  /\ ~snapshot.saving /\ credential # "unreadable"
  /\ secretDraft' = secret
  /\ notice' = "none"
  /\ UNCHANGED <<host, form, staged, phase, call, failed, landed, shown, test, budget>>
  /\ Publish

Dirty == staged # NoOps \/ secretDraft # NoSecret
HasInvalid == \E f \in DOMAIN staged : staged[f] = Invalid

Discard ==
  /\ ~snapshot.saving /\ Dirty
  /\ staged' = NoOps /\ secretDraft' = NoSecret
  /\ notice' = "none" /\ failed' = FALSE
  /\ UNCHANGED <<host, form, phase, call, landed, shown, test, budget>>
  /\ Publish

\* Seeded defect: the fence is whatever the host holds.
SaveUnfenced ==
  /\ ~snapshot.saving /\ Dirty /\ ~HasInvalid /\ Spend
  /\ phase' = IF staged # NoOps THEN "mutating" ELSE "storing"
  /\ call' = [ops |-> staged, fence |-> doc.revision, ref |-> form.ref, reply |-> "none"]
  /\ failed' = FALSE /\ notice' = "none" /\ landed' = NothingLanded
  /\ UNCHANGED <<host, form, drafts, shown, test>>
  /\ Publish

\* save() up to its first await: the fence is the form's revision, and without a
\* draft of a field the password is stored at once.
Save ==
  /\ ~snapshot.saving /\ Dirty /\ ~HasInvalid /\ Spend
  /\ phase' = IF staged # NoOps THEN "mutating" ELSE "storing"
  /\ call' = [ops |-> staged, fence |-> form.revision, ref |-> form.ref, reply |-> "none"]
  /\ failed' = FALSE /\ notice' = "none" /\ landed' = NothingLanded
  /\ UNCHANGED <<host, form, drafts, shown, test>>
  /\ Publish

ClearCredential ==
  /\ ~snapshot.saving /\ credential # "unreadable" /\ Spend
  /\ phase' = "removing"
  /\ call' = [NoCall EXCEPT !.ref = form.ref]
  /\ notice' = "none" /\ landed' = NothingLanded
  /\ UNCHANGED <<host, form, drafts, failed, shown, test>>
  /\ Publish

\* sendTestEmail() up to its await; a save may start before the answer comes.
SendTestEmail ==
  /\ ~snapshot.saving /\ ~snapshot.testing /\ Spend
  /\ testing' = TRUE
  /\ notice' = "none"
  /\ UNCHANGED <<host, form, drafts, phase, call, failed, landed, shown, testEmail>>
  /\ Publish

\* The host's answer, or the failure of the call, after the await.  Nothing is
\* published before the refresh that starts now has returned.
TestReturns ==
  /\ testing
  /\ testing' = FALSE
  /\ testEmail' \in {"delivered", "refused"}
  /\ StartRefresh(form.ref)
  /\ UNCHANGED <<host, form, drafts, saving, credential, snapshot, budget>>

-----------------------------------------------------------------------------
\* save() and clearCredential() after an await.

\* Seeded defect: a refused save looks like one that landed.
EndSaveOptimistic(ok) ==
  /\ staged' = IF ok THEN NoOps ELSE staged
  /\ phase' = "idle" /\ call' = NoCall
  /\ failed' = ~ok
  /\ notice' = "saved"

\* The end of a save: drafts go only when everything landed.  The save is over, but the
\* controls stay locked until something is published, at the latest by the refresh
\* that is awaited then.
EndSave(ok) ==
  /\ staged' = IF ok THEN NoOps ELSE staged
  /\ phase' = "idle" /\ call' = NoCall
  /\ failed' = ~ok
  /\ notice' = IF ok THEN "saved" ELSE "refused"

\* The form tells the card of what it has accepted before save() goes on.
FormPublishes == snapshot' = IF form' = form THEN snapshot ELSE [saving |-> TRUE, testing |-> testing]

\* Seeded defect: the password goes to the reference read before the mutation.
MutateReturnsToOldReference ==
  /\ phase = "mutating" /\ call.reply # "none"
  /\ form' = IF call.reply = "accepted" /\ form.revision <= call.fence THEN doc ELSE form
  /\ IF call.reply = "accepted" /\ secretDraft # NoSecret
     THEN /\ phase' = "storing"
          /\ call' = [call EXCEPT !.reply = "none"]
          /\ UNCHANGED <<staged, failed, notice, refreshes>>
     ELSE EndSave(call.reply = "accepted") /\ StartRefresh(form'.ref)
  /\ UNCHANGED <<host, secretDraft, landed, credential, test, budget>>
  /\ FormPublishes

\* The accepted document is in the form by the time mutate resolves.
MutateReturns ==
  /\ phase = "mutating" /\ call.reply # "none"
  /\ form' = IF call.reply = "accepted" /\ form.revision <= call.fence THEN doc ELSE form
  /\ IF call.reply = "accepted" /\ secretDraft # NoSecret
     THEN /\ phase' = "storing"
          /\ call' = [call EXCEPT !.ref = form'.ref, !.reply = "none"]
          /\ UNCHANGED <<staged, failed, notice, refreshes>>
     ELSE EndSave(call.reply = "accepted") /\ StartRefresh(form'.ref)
  /\ UNCHANGED <<host, secretDraft, landed, credential, test, budget>>
  /\ FormPublishes

\* Seeded defect: only an accepted password ends the save.
StoreReturnsIfAccepted ==
  /\ phase = "storing" /\ call.reply = "accepted"
  /\ secretDraft' = NoSecret
  /\ EndSave(TRUE)
  /\ StartRefresh(form.ref)
  /\ UNCHANGED <<host, form, landed, credential, test, snapshot, budget>>

StoreReturns ==
  /\ phase = "storing" /\ call.reply # "none"
  /\ secretDraft' = IF call.reply = "accepted" THEN NoSecret ELSE secretDraft
  /\ EndSave(call.reply = "accepted")
  /\ StartRefresh(form.ref)
  /\ UNCHANGED <<host, form, landed, credential, test, snapshot, budget>>

RemoveReturns ==
  /\ phase = "removing" /\ call.reply # "none"
  /\ phase' = "idle" /\ call' = NoCall
  /\ failed' = (call.reply # "accepted")
  /\ notice' = IF call.reply = "accepted" THEN "removed" ELSE "refused"
  /\ secretDraft' = IF call.reply = "accepted" THEN NoSecret ELSE secretDraft
  /\ StartRefresh(form.ref)
  /\ UNCHANGED <<host, form, staged, landed, credential, test, snapshot, budget>>

\* Seeded defect: the drafts give way to the document that has moved.
FormMovesAndReseeds ==
  /\ form # doc
  /\ form' = doc
  /\ staged' = NoOps
  /\ UNCHANGED <<host, secretDraft, saving, shown, test, budget>>
  /\ Publish

\* A document change from anywhere reaches the form; staged drafts survive it.
FormMoves ==
  /\ form # doc
  /\ form' = doc
  /\ UNCHANGED <<host, drafts, saving, shown, test, budget>>
  /\ Publish

\* credentials/reference-updated arrives: re-read if it is the one in effect.
CredentialUpdated(ref) ==
  /\ ref \in invalidations
  /\ invalidations' = invalidations \ {ref}
  /\ IF ref = form.ref THEN StartRefresh(ref) ELSE UNCHANGED refreshes
  /\ UNCHANGED <<doc, creds, form, drafts, saving, credential, test, snapshot, budget>>

\* The second half of a refresh, in whatever order the answers come.
RefreshReturns(read) ==
  /\ read.answer # "none"
  /\ credential' = read.answer
  /\ refreshes' = refreshes (-) SetToBag({read})
  /\ UNCHANGED <<host, form, drafts, saving, test, budget>>
  /\ Publish

-----------------------------------------------------------------------------
\* The host, external.

Apply(d, ops) ==
  [ref |-> IF "ref" \notin DOMAIN ops THEN d.ref
           ELSE IF ops["ref"] = Clear THEN DefaultRef ELSE ops["ref"],
   other |-> IF "other" \notin DOMAIN ops THEN d.other
             ELSE IF ops["other"] = Clear THEN DefaultOther ELSE ops["other"],
   revision |-> d.revision + 1]

\* Carried out, or refused by the fence or otherwise; the answer may get lost.
HostMutates(done, answered) ==
  /\ phase = "mutating" /\ call.reply = "none"
  /\ done => doc.revision = call.fence
  /\ doc' = IF done THEN Apply(doc, call.ops) ELSE doc
  /\ landed' = IF done THEN [landed EXCEPT !.ops = call.ops] ELSE landed
  /\ call' = [call EXCEPT !.reply = IF done /\ answered THEN "accepted" ELSE "refused"]
  /\ UNCHANGED <<creds, invalidations, form, drafts, phase, failed, notice, shown, test, snapshot, budget>>

HostWritesSecret(done, answered) ==
  /\ phase \in {"storing", "removing"} /\ call.reply = "none"
  /\ LET secret == IF phase = "storing" THEN secretDraft ELSE NoSecret
     IN  /\ creds' = IF done THEN [creds EXCEPT ![call.ref] = secret] ELSE creds
         /\ landed' = IF done THEN [landed EXCEPT !.secret = secret, !.ref = call.ref] ELSE landed
  /\ invalidations' = IF done THEN invalidations \cup {call.ref} ELSE invalidations
  /\ call' = [call EXCEPT !.reply = IF done /\ answered THEN "accepted" ELSE "refused"]
  /\ UNCHANGED <<doc, form, drafts, phase, failed, notice, shown, test, snapshot, budget>>

\* describe: an error and an unknown reference read as neither configured nor writable.
HostDescribes(read, works) ==
  /\ read.answer = "none"
  /\ LET answer == CASE ~works -> "unreadable"
                     [] creds[read.ref] # NoSecret -> "configured"
                     [] OTHER -> "unconfigured"
     IN  refreshes' = (refreshes (-) SetToBag({read})) (+) SetToBag({[read EXCEPT !.answer = answer]})
  /\ UNCHANGED <<host, form, drafts, saving, credential, test, snapshot, budget>>

OtherSurfaceWrites(f, value) ==
  /\ Spend
  /\ doc' = [[doc EXCEPT ![f] = value] EXCEPT !.revision = @ + 1]
  /\ UNCHANGED <<creds, invalidations, form, drafts, saving, shown, test, snapshot>>

OtherSurfaceSetsSecret(ref, secret) ==
  /\ Spend
  /\ creds' = [creds EXCEPT ![ref] = secret]
  /\ invalidations' = invalidations \cup {ref}
  /\ UNCHANGED <<doc, form, drafts, saving, shown, test, snapshot>>

-----------------------------------------------------------------------------
HostAnswers ==
  \E done, answered \in BOOLEAN : HostMutates(done, answered) \/ HostWritesSecret(done, answered)
Returns == MutateReturns \/ StoreReturns \/ RemoveReturns

Next ==
  \/ \E f \in Fields : \E draft \in Drafts \cap (Values(f) \cup {Clear, Invalid}) : Edit(f, draft)
  \/ \E secret \in Secrets \cup {NoSecret} : SetSecretDraft(secret)
  \/ ResetAll
  \/ Discard
  \/ Save
  \/ ClearCredential
  \/ SendTestEmail
  \/ Returns
  \/ TestReturns
  \/ Poll
  \/ FormMoves
  \/ \E ref \in Refs : CredentialUpdated(ref)
  \/ \E read \in BagToSet(refreshes) : RefreshReturns(read)
  \/ \E read \in BagToSet(refreshes), works \in BOOLEAN : HostDescribes(read, works)
  \/ HostAnswers
  \/ \E f \in Fields : \E value \in Values(f) : OtherSurfaceWrites(f, value)
  \/ \E ref \in Refs, secret \in Secrets \cup {NoSecret} : OtherSurfaceSetsSecret(ref, secret)

\* Calls and reads are answered, if only by an error, and promises are continued.
Fairness ==
  /\ WF_vars(HostAnswers) /\ WF_vars(Returns) /\ WF_vars(TestReturns)
  /\ WF_vars(\E read \in BagToSet(refreshes), works \in BOOLEAN : HostDescribes(read, works))
  /\ WF_vars(\E read \in BagToSet(refreshes) : RefreshReturns(read))

\* A mounted card polls, every read is answered, and the host is readable every now
\* and then, however many reads fail.
FairPolling ==
  /\ WF_vars(FormMoves) /\ WF_vars(Poll)
  /\ SF_vars(\E read \in BagToSet(refreshes) : HostDescribes(read, TRUE))
  /\ \A ref \in Refs, answer \in Answers :
       WF_vars([ref |-> ref, answer |-> answer] \in BagToSet(refreshes)
                 /\ RefreshReturns([ref |-> ref, answer |-> answer]))

Spec == Init /\ [][Next]_vars
FairSpec == Spec /\ Fairness
PollingSpec == FairSpec /\ FairPolling

-----------------------------------------------------------------------------
TypeOK ==
  /\ doc \in [ref : Refs, other : Others, revision : Nat]
  /\ form \in [ref : Refs, other : Others, revision : Nat]
  /\ creds \in [Refs -> Secrets \cup {NoSecret}]
  /\ DOMAIN staged \subseteq Fields
  /\ \A f \in DOMAIN staged : staged[f] \in Values(f) \cup {Clear, Invalid}
  /\ secretDraft \in Secrets \cup {NoSecret}
  /\ phase \in {"idle", "mutating", "storing", "removing"}
  /\ notice \in {"none", "reset", "saved", "removed", "refused"}
  /\ credential \in Answers
  /\ testing \in BOOLEAN /\ testEmail \in {"none", "delivered", "refused"}
  /\ snapshot \in [saving : BOOLEAN, testing : BOOLEAN]
  /\ form.revision <= doc.revision

\* A password is never stored under the reference that the same save has just
\* replaced: it goes under the reference the save wrote, or under a newer one that
\* another surface wrote after it (the order the comment of save() insists on).
SecretUnderTheSavedReference ==
  phase = "storing" /\ "ref" \in DOMAIN call.ops =>
    call.ref = Apply(doc, call.ops).ref \/ form.revision > call.fence + 1

\* "Saved" is shown only for a save of which every draft landed, the password
\* included, and no draft is left then.
SavedMeansLanded ==
  [][notice' = "saved" /\ notice # "saved" =>
       /\ landed.ops = staged
       /\ landed.secret = secretDraft
       /\ staged' = NoOps /\ secretDraft' = NoSecret]_vars

\* What the user typed is lost by nothing but the user's own Discard, by editing or
\* resetting over it, or by the end of a save that gave it to the host; for the password
\* also by its removal from the host.  Neither a refusal, a lost answer, a refresh nor
\* another surface's write ever costs a draft (the promise made to form.subscribe).
Lost(f) == f \notin DOMAIN staged' \/ staged'[f] # staged[f]
GivenToHost(f) ==
  phase \in {"mutating", "storing"} /\ f \in DOMAIN landed.ops /\ landed.ops[f] = staged[f]
PasswordGone ==
  \/ phase = "storing" /\ landed.secret = secretDraft
  \/ phase = "removing" /\ call.reply = "accepted"

DraftsSurvive ==
  [][/\ \A f \in DOMAIN staged : Lost(f) =>
          Discard \/ ResetAll \/ (\E draft \in Drafts : Edit(f, draft)) \/ GivenToHost(f)
     /\ secretDraft # NoSecret /\ secretDraft' # secretDraft =>
          Discard \/ SetSecretDraft(secretDraft') \/ PasswordGone]_vars

\* A save never overwrites what the user could not see: it lands only on the very
\* document the card shows, and changes the staged fields and no other, whatever
\* other surfaces write between Save and the host (the fence of save()).
SaveLandsOnWhatIsShown ==
  [][phase = "mutating" /\ landed' # landed =>
       /\ doc = form
       /\ \A f \in Fields \ DOMAIN staged : doc'[f] = doc[f]]_vars

\* The controls come back: after a save, a removal and a delivery test they are shown
\* unlocked again, whatever was refused, and the test's whether or not a save started
\* after it.  None of the three publishes its own end; a refresh must, the one it awaits
\* or one of the poll.
ControlsComeBack ==
  /\ snapshot.saving ~> ~snapshot.saving
  /\ snapshot.testing ~> ~snapshot.testing

\* The card catches up: nothing tells it that another surface changed which reference
\* is in effect, and a read may fail or be overtaken by an older one, yet once the
\* others are done it shows again and again what the host holds (the poll of Card.tsx).
CardCatchesUp ==
  []<>(form = doc /\ credential = IF creds[form.ref] # NoSecret THEN "configured" ELSE "unconfigured")
=============================================================================
