------------------------ MODULE CardController_proofs ------------------------
(***************************************************************************)
(* Proofs about CardController for any references, values, passwords and   *)
(* bounds: what a save under way has done to the host, and what the card   *)
(* keeps until it knows.  Of the reads of the reference (refreshes and     *)
(* credential) only what they show and publish matters here.               *)
(***************************************************************************)
EXTENDS CardController, TLAPS

-----------------------------------------------------------------------------
\* The types of what a save reads and writes.

Document == [ref : Refs, other : Others, revision : Nat]

Types ==
  /\ doc \in Document /\ form \in Document
  /\ creds \in [Refs -> Secrets \cup {NoSecret}]
  /\ DOMAIN staged \subseteq Fields
  /\ \A f \in DOMAIN staged : staged[f] \in Values(f) \cup {Clear, Invalid}
  /\ secretDraft \in Secrets \cup {NoSecret}
  /\ phase \in {"idle", "mutating", "storing", "removing"}
  /\ notice \in {"none", "reset", "saved", "removed", "refused"}
  /\ call.fence \in Nat /\ call.ref \in Refs
  /\ call = [ops |-> call.ops, fence |-> call.fence, ref |-> call.ref, reply |-> call.reply]
  /\ landed = [ops |-> landed.ops, secret |-> landed.secret, ref |-> landed.ref]

\* The form shows a document the host has held: never a newer one, and of one
\* revision there is one document.
FormFollows ==
  /\ form.revision <= doc.revision
  /\ form.revision = doc.revision => form = doc

\* What a document's reference is after ops, when they are about it.
Wanted(ops) == IF ops["ref"] = Clear THEN DefaultRef ELSE ops["ref"]

\* A document of the revision that the save under way has made has its reference.
MadeBySave(d) ==
  d.revision = call.fence + 1 /\ "ref" \in DOMAIN call.ops => d.ref = Wanted(call.ops)

\* Between Save and the answer to its mutation the drafts stand; the fence is a
\* revision the form has shown; and an accepted mutation landed.
Mutating ==
  phase = "mutating" =>
    /\ call.ops = staged /\ ~HasInvalid
    /\ call.fence <= form.revision
    /\ landed.secret = NoSecret
    /\ call.reply = "accepted" =>
         /\ landed.ops = staged
         /\ doc.revision > call.fence
         /\ MadeBySave(doc) /\ MadeBySave(form)

\* While the password is stored the fields, if any, have landed; the call carries
\* the reference the form showed after them.
Storing ==
  phase = "storing" =>
    /\ call.ops = staged
    /\ landed.ops = staged
    /\ call.reply = "accepted" => landed.secret = secretDraft
    /\ "ref" \in DOMAIN call.ops =>
         call.ref = Wanted(call.ops) \/ form.revision > call.fence + 1

\* Every read under way is of a reference, and is answered with one of the answers.
Reads == [ref : Refs, answer : Answers \cup {"none"}]
Reading == DOMAIN refreshes \subseteq Reads /\ credential \in Answers

\* The delivery test's flag and outcome, and what of the flags has been published.
Testing ==
  /\ testing \in BOOLEAN /\ testEmail \in {"none", "delivered", "refused"}
  /\ snapshot \in [saving : BOOLEAN, testing : BOOLEAN]

\* Controls that look unlocked are: the beginning of a save is published at once, and
\* only its end is not.
Locks == ~snapshot.saving => phase = "idle"

SaveInv == Types /\ FormFollows /\ Mutating /\ Storing
IInv == SaveInv /\ Locks

-----------------------------------------------------------------------------
\* What a mutation makes of a document, field by field.

\* A mutation of valid drafts makes a document of the next revision, with the
\* reference that was wanted, and with every field that was not drafted as it was.
LEMMA ApplyIs ==
  ASSUME NEW d \in Document, NEW ops, DOMAIN ops \subseteq Fields,
         \A f \in DOMAIN ops : ops[f] \in (Values(f) \cup {Clear, Invalid}) \ {Invalid}
  PROVE  /\ Apply(d, ops) \in Document
         /\ Apply(d, ops).revision = d.revision + 1
         /\ "ref" \in DOMAIN ops => Apply(d, ops).ref = Wanted(ops)
         /\ \A f \in Fields \ DOMAIN ops : Apply(d, ops)[f] = d[f]
<1>1. Apply(d, ops).revision = d.revision + 1 /\ d.revision \in Nat
  BY DEF Apply, Document
<1>2. /\ Apply(d, ops).ref \in Refs
      /\ "ref" \in DOMAIN ops => Apply(d, ops).ref = Wanted(ops)
      /\ "ref" \notin DOMAIN ops => Apply(d, ops).ref = d.ref
  BY CardAssumption DEF Apply, Document, Wanted, Values
<1>3. /\ Apply(d, ops).other \in Others
      /\ "other" \notin DOMAIN ops => Apply(d, ops).other = d.other
  BY CardAssumption DEF Apply, Document, Values
<1>4. Apply(d, ops) = [ref |-> Apply(d, ops).ref, other |-> Apply(d, ops).other,
                       revision |-> Apply(d, ops).revision]
  BY DEF Apply
<1>5. Apply(d, ops) \in Document
  BY <1>1, <1>2, <1>3, <1>4 DEF Document
<1>6. ASSUME NEW f \in Fields \ DOMAIN ops
      PROVE  Apply(d, ops)[f] = d[f]
  BY <1>2, <1>3, <1>6 DEF Fields
<1> QED BY <1>1, <1>2, <1>5, <1>6

\* Whoever writes one field makes a document of the next revision.
LEMMA WriteIs ==
  ASSUME NEW d \in Document, NEW f \in Fields, NEW value \in Values(f)
  PROVE  LET e == [[d EXCEPT ![f] = value] EXCEPT !.revision = @ + 1]
         IN  e \in Document /\ e.revision = d.revision + 1
<1> DEFINE w == [d EXCEPT ![f] = value]
<1>1. w \in Document /\ w.revision = d.revision /\ d.revision \in Nat
  <2>1. CASE f = "ref"
    BY <2>1 DEF Document, Values
  <2>2. CASE f = "other"
    BY <2>2 DEF Document, Values
  <2> QED BY <2>1, <2>2 DEF Fields
<1> HIDE DEF w
<1>2. /\ [w EXCEPT !.revision = @ + 1] \in Document
      /\ [w EXCEPT !.revision = @ + 1].revision = d.revision + 1
  BY <1>1 DEF Document
<1> QED BY <1>2 DEF w

-----------------------------------------------------------------------------
\* The invariant holds at first and is kept.

\* A fresh card has nothing under way and shows the host's document.
LEMMA InitIInv == Init => IInv
<1> SUFFICES ASSUME Init
             PROVE  IInv
  OBVIOUS
<1>1. Types
  BY CardAssumption DEF Init, Types, Document, NoOps, NoCall, NothingLanded
<1> QED BY <1>1 DEF Init, IInv, SaveInv, Locks, FormFollows, Mutating, Storing

\* Nothing that a save does unlocks the controls before it is over.
LEMMA NextLocks ==
  ASSUME Locks, [Next]_vars
  PROVE  Locks'
<1>1. CASE \/ \E f \in Fields : \E draft \in Drafts \cap (Values(f) \cup {Clear, Invalid}) : Edit(f, draft)
           \/ \E secret \in Secrets \cup {NoSecret} : SetSecretDraft(secret)
           \/ ResetAll \/ Discard \/ Save \/ ClearCredential \/ SendTestEmail \/ FormMoves
           \/ \E read \in BagToSet(refreshes) : RefreshReturns(read)
  <2>1. Publish
    BY <1>1 DEF Edit, SetSecretDraft, ResetAll, Discard, Save, ClearCredential, SendTestEmail,
                FormMoves, RefreshReturns
  <2> QED BY <2>1 DEF Publish, Locks
<1>2. CASE Returns
  BY <1>2 DEF Returns, MutateReturns, StoreReturns, RemoveReturns, EndSave, FormPublishes, Locks
<1>3. CASE \/ UNCHANGED vars \/ TestReturns \/ Poll \/ HostAnswers
           \/ \E ref \in Refs : CredentialUpdated(ref)
           \/ \E read \in BagToSet(refreshes), works \in BOOLEAN : HostDescribes(read, works)
           \/ \E f \in Fields : \E value \in Values(f) : OtherSurfaceWrites(f, value)
           \/ \E ref \in Refs, secret \in Secrets \cup {NoSecret} : OtherSurfaceSetsSecret(ref, secret)
  <2>1. snapshot' = snapshot /\ phase' = phase
    BY <1>3 DEF vars, saving, TestReturns, Poll, HostAnswers, HostMutates, HostWritesSecret,
                CredentialUpdated, HostDescribes, OtherSurfaceWrites, OtherSurfaceSetsSecret
  <2> QED BY <2>1 DEF Locks
<1> QED BY <1>1, <1>2, <1>3 DEF Next

\* Every action keeps what is known of the save.
LEMMA NextSaveInv ==
  ASSUME IInv, [Next]_vars
  PROVE  SaveInv'
<1> USE DEF IInv, SaveInv
<1>1. CASE UNCHANGED vars
  BY <1>1 DEF vars, host, drafts, saving, Types, FormFollows, Mutating, Storing, HasInvalid, MadeBySave
<1>2. ASSUME NEW f \in Fields, NEW draft \in Values(f) \cup {Clear, Invalid}, Edit(f, draft)
      PROVE  SaveInv'
  BY <1>2 DEF Edit, Locks, host, Types, FormFollows, Mutating, Storing
<1>3. ASSUME NEW secret \in Secrets \cup {NoSecret}, SetSecretDraft(secret)
      PROVE  SaveInv'
  BY <1>3 DEF SetSecretDraft, Locks, host, Types, FormFollows, Mutating, Storing
<1>4. CASE ResetAll
  BY <1>4 DEF ResetAll, Locks, host, Types, FormFollows, Mutating, Storing
<1>5. CASE Discard
  BY <1>5 DEF Discard, Locks, host, Types, FormFollows, Mutating, Storing, NoOps
<1>6. CASE Save
  <2>1. /\ phase = "idle" /\ ~HasInvalid
        /\ phase' = IF staged # NoOps THEN "mutating" ELSE "storing"
        /\ call' = [ops |-> staged, fence |-> form.revision, ref |-> form.ref, reply |-> "none"]
        /\ notice' = "none" /\ landed' = NothingLanded
        /\ doc' = doc /\ creds' = creds /\ form' = form
        /\ staged' = staged /\ secretDraft' = secretDraft
    BY <1>6 DEF Save, Locks, host, drafts
  <2>2. Types'
    BY <2>1 DEF Types, Document, NothingLanded
  <2>3. FormFollows'
    BY <2>1 DEF FormFollows
  <2>4. Mutating'
    <3>1. form.revision \in Nat
      BY DEF Types, Document
    <3> QED BY <2>1, <3>1 DEF Mutating, HasInvalid, NothingLanded
  <2>5. Storing'
    BY <2>1 DEF Storing, NothingLanded, NoOps
  <2> QED BY <2>2, <2>3, <2>4, <2>5
<1>7. CASE ClearCredential
  <2>1. /\ phase' = "removing" /\ call' = [NoCall EXCEPT !.ref = form.ref]
        /\ notice' = "none" /\ landed' = NothingLanded
        /\ doc' = doc /\ creds' = creds /\ form' = form
        /\ staged' = staged /\ secretDraft' = secretDraft
    BY <1>7 DEF ClearCredential, host, drafts
  <2>2. Types'
    BY <2>1 DEF Types, Document, NothingLanded, NoCall
  <2> QED BY <2>1, <2>2 DEF FormFollows, Mutating, Storing
<1>8. CASE SendTestEmail
  BY <1>8 DEF SendTestEmail, Locks, host, drafts, Types, FormFollows, Mutating, Storing
<1>9. CASE TestReturns
  BY <1>9 DEF TestReturns, host, drafts, saving, Types, FormFollows, Mutating, Storing, HasInvalid, MadeBySave
<1>10. CASE MutateReturns
  <2>1. /\ phase = "mutating" /\ call.reply # "none"
        /\ form' = IF call.reply = "accepted" /\ form.revision <= call.fence THEN doc ELSE form
        /\ doc' = doc /\ creds' = creds /\ secretDraft' = secretDraft /\ landed' = landed
    BY <1>10 DEF MutateReturns, host
  <2>2. form' \in Document /\ FormFollows'
    BY <2>1 DEF Types, FormFollows, Document
  <2>3. CASE call.reply = "accepted" /\ secretDraft # NoSecret
    <3>1. /\ phase' = "storing" /\ call' = [call EXCEPT !.ref = form'.ref, !.reply = "none"]
          /\ staged' = staged /\ notice' = notice
      BY <1>10, <2>3 DEF MutateReturns
    <3>2. /\ call'.ops = call.ops /\ call'.fence = call.fence /\ call'.ref = form'.ref
          /\ call'.reply = "none"
          /\ call' = [ops |-> call.ops, fence |-> call.fence, ref |-> form'.ref, reply |-> "none"]
      BY <3>1 DEF Types
    <3>3. Types'
      BY <2>1, <2>2, <3>1, <3>2 DEF Types, Document
    <3>4. form'.revision > call.fence /\ MadeBySave(doc) /\ MadeBySave(form)
      BY <2>1, <2>3 DEF Mutating, Types, Document
    <3>5. "ref" \in DOMAIN call.ops => form'.ref = Wanted(call.ops) \/ form'.revision > call.fence + 1
      BY <2>1, <2>2, <3>4 DEF MadeBySave, Types, Document
    <3>6. Storing'
      BY <2>1, <2>3, <3>1, <3>2, <3>5 DEF Storing, Mutating
    <3> QED BY <2>2, <3>1, <3>3, <3>6 DEF Mutating
  <2>4. CASE ~ (call.reply = "accepted" /\ secretDraft # NoSecret)
    <3>1. EndSave(call.reply = "accepted")
      BY <1>10, <2>4 DEF MutateReturns
    <3>2. Types'
      BY <2>1, <2>2, <3>1, CardAssumption DEF EndSave, Types, NoCall, NoOps
    <3> QED BY <2>2, <3>1, <3>2 DEF EndSave, Mutating, Storing
  <2> QED BY <2>3, <2>4
<1>11. CASE StoreReturns
  <2>1. /\ EndSave(call.reply = "accepted")
        /\ secretDraft' = IF call.reply = "accepted" THEN NoSecret ELSE secretDraft
        /\ doc' = doc /\ creds' = creds /\ form' = form /\ landed' = landed
    BY <1>11 DEF StoreReturns, host
  <2>2. Types'
    BY <2>1, CardAssumption DEF EndSave, Types, NoCall, NoOps
  <2> QED BY <2>1, <2>2 DEF EndSave, FormFollows, Mutating, Storing
<1>12. CASE RemoveReturns
  <2>1. Types'
    BY <1>12, CardAssumption DEF RemoveReturns, host, Types, NoCall
  <2> QED BY <1>12, <2>1 DEF RemoveReturns, host, FormFollows, Mutating, Storing
<1>13. CASE FormMoves
  <2>1. /\ form' = doc /\ doc' = doc /\ creds' = creds /\ staged' = staged /\ secretDraft' = secretDraft
        /\ phase' = phase /\ call' = call /\ notice' = notice /\ landed' = landed
    BY <1>13 DEF FormMoves, host, drafts, saving
  <2>2. Types' /\ FormFollows'
    BY <2>1 DEF Types, FormFollows, Document
  <2>3. Mutating'
    BY <2>1 DEF Mutating, HasInvalid, MadeBySave, FormFollows, Types, Document
  <2>4. Storing'
    BY <2>1 DEF Storing, FormFollows, Types, Document
  <2> QED BY <2>2, <2>3, <2>4
<1>14. ASSUME \/ Poll
              \/ \E ref \in Refs : CredentialUpdated(ref)
              \/ \E read \in BagToSet(refreshes) : RefreshReturns(read)
              \/ \E read \in BagToSet(refreshes), works \in BOOLEAN : HostDescribes(read, works)
       PROVE  SaveInv'
  <2>1. /\ form' = form /\ doc' = doc /\ creds' = creds /\ staged' = staged /\ secretDraft' = secretDraft
        /\ phase' = phase /\ call' = call /\ notice' = notice /\ landed' = landed
    BY <1>14 DEF Poll, CredentialUpdated, RefreshReturns, HostDescribes, host, drafts, saving
  <2> QED BY <2>1 DEF Types, FormFollows, Mutating, Storing, HasInvalid, MadeBySave
<1>15. ASSUME NEW done \in BOOLEAN, NEW answered \in BOOLEAN, HostMutates(done, answered)
       PROVE  SaveInv'
  <2>1. /\ phase = "mutating" /\ call.reply = "none"
        /\ done => doc.revision = call.fence
        /\ doc' = IF done THEN Apply(doc, call.ops) ELSE doc
        /\ landed' = IF done THEN [landed EXCEPT !.ops = call.ops] ELSE landed
        /\ call' = [call EXCEPT !.reply = IF done /\ answered THEN "accepted" ELSE "refused"]
        /\ creds' = creds /\ form' = form /\ staged' = staged /\ secretDraft' = secretDraft
        /\ phase' = phase /\ notice' = notice
    BY <1>15 DEF HostMutates, drafts
  <2>2. /\ call'.ops = call.ops /\ call'.fence = call.fence /\ call'.ref = call.ref
        /\ call'.reply = "accepted" => done
        /\ call' = [ops |-> call.ops, fence |-> call.fence, ref |-> call.ref, reply |-> call'.reply]
    BY <2>1 DEF Types
  <2>3. /\ landed'.secret = landed.secret
        /\ landed' = [ops |-> landed'.ops, secret |-> landed.secret, ref |-> landed.ref]
        /\ done => landed'.ops = call.ops
    BY <2>1 DEF Types
  <2>4. done => /\ doc' \in Document /\ doc'.revision = doc.revision + 1
                /\ "ref" \in DOMAIN call.ops => doc'.ref = Wanted(call.ops)
    BY <2>1, ApplyIs DEF Mutating, HasInvalid, Types
  <2>5. /\ doc \in Document /\ form \in Document /\ doc.revision \in Nat /\ form.revision \in Nat
        /\ call.fence \in Nat
    BY DEF Types, Document
  <2>6. Types'
    BY <2>1, <2>2, <2>3, <2>4, <2>5 DEF Types
  <2>7. FormFollows'
    BY <2>1, <2>4, <2>5 DEF FormFollows
  <2>8. done => doc'.revision = call.fence + 1 /\ form.revision <= call.fence
    BY <2>1, <2>4, <2>5 DEF FormFollows
  <2>9. done => MadeBySave(doc)' /\ MadeBySave(form)'
    BY <2>1, <2>2, <2>4, <2>5, <2>8 DEF MadeBySave
  <2>10. Mutating'
    <3>1. /\ call.ops = staged /\ ~HasInvalid' /\ call.fence <= form.revision /\ landed.secret = NoSecret
      BY <2>1 DEF Mutating, HasInvalid
    <3>2. call'.reply = "accepted" => landed'.ops = staged' /\ doc'.revision > call'.fence
      BY <2>1, <2>2, <2>3, <2>5, <2>8, <3>1
    <3> QED BY <2>1, <2>2, <2>3, <2>9, <3>1, <3>2 DEF Mutating
  <2> QED BY <2>1, <2>6, <2>7, <2>10 DEF Storing
<1>16. ASSUME NEW done \in BOOLEAN, NEW answered \in BOOLEAN, HostWritesSecret(done, answered)
       PROVE  SaveInv'
  <2> DEFINE secret == IF phase = "storing" THEN secretDraft ELSE NoSecret
  <2>1. /\ phase \in {"storing", "removing"}
        /\ creds' = IF done THEN [creds EXCEPT ![call.ref] = secret] ELSE creds
        /\ landed' = IF done THEN [landed EXCEPT !.secret = secret, !.ref = call.ref] ELSE landed
        /\ call' = [call EXCEPT !.reply = IF done /\ answered THEN "accepted" ELSE "refused"]
        /\ doc' = doc /\ form' = form /\ staged' = staged /\ secretDraft' = secretDraft
        /\ phase' = phase /\ notice' = notice
    BY <1>16 DEF HostWritesSecret, drafts
  <2>2. /\ call'.ops = call.ops /\ call'.fence = call.fence /\ call'.ref = call.ref
        /\ call'.reply = "accepted" => done
        /\ call' = [ops |-> call.ops, fence |-> call.fence, ref |-> call.ref, reply |-> call'.reply]
    BY <2>1 DEF Types
  <2>3. /\ landed'.ops = landed.ops
        /\ landed' = [ops |-> landed.ops, secret |-> landed'.secret, ref |-> landed'.ref]
        /\ done => landed'.secret = secret
    BY <2>1 DEF Types
  <2>4. Types'
    BY <2>1, <2>2, <2>3 DEF Types
  <2>5. Storing'
    BY <2>1, <2>2, <2>3 DEF Storing
  <2> QED BY <2>1, <2>4, <2>5 DEF FormFollows, Mutating
<1>17. ASSUME NEW f \in Fields, NEW value \in Values(f), OtherSurfaceWrites(f, value)
       PROVE  SaveInv'
  <2> DEFINE e == [[doc EXCEPT ![f] = value] EXCEPT !.revision = @ + 1]
  <2>1. /\ doc' = e /\ creds' = creds /\ form' = form /\ staged' = staged /\ secretDraft' = secretDraft
        /\ phase' = phase /\ call' = call /\ notice' = notice /\ landed' = landed
    BY <1>17 DEF OtherSurfaceWrites, drafts, saving
  <2>2. doc \in Document
    BY DEF Types
  <2>3. e \in Document /\ e.revision = doc.revision + 1
    BY <2>2, WriteIs
  <2>4. /\ doc.revision \in Nat /\ form.revision \in Nat /\ call.fence \in Nat
    BY DEF Types, Document
  <2> HIDE DEF e
  <2>5. Types' /\ FormFollows'
    BY <2>1, <2>3, <2>4 DEF Types, FormFollows
  <2>6. Mutating'
    BY <2>1, <2>3, <2>4 DEF Mutating, HasInvalid, MadeBySave
  <2> QED BY <2>1, <2>5, <2>6 DEF Storing
<1>18. ASSUME NEW ref \in Refs, NEW secret \in Secrets \cup {NoSecret}, OtherSurfaceSetsSecret(ref, secret)
       PROVE  SaveInv'
  <2>1. /\ form' = form /\ doc' = doc /\ staged' = staged /\ secretDraft' = secretDraft
        /\ phase' = phase /\ call' = call /\ notice' = notice /\ landed' = landed
        /\ creds' = [creds EXCEPT ![ref] = secret]
    BY <1>18 DEF OtherSurfaceSetsSecret, drafts, saving
  <2>2. Types'
    BY <2>1 DEF Types
  <2> QED BY <2>1, <2>2 DEF FormFollows, Mutating, Storing, HasInvalid, MadeBySave
<1> QED BY <1>1, <1>2, <1>3, <1>4, <1>5, <1>6, <1>7, <1>8, <1>9, <1>10, <1>11, <1>12, <1>13, <1>14,
           <1>15, <1>16, <1>17, <1>18 DEF Next, Returns, HostAnswers

\* Every action keeps it.
LEMMA NextIInv ==
  ASSUME IInv, [Next]_vars
  PROVE  IInv'
BY NextSaveInv, NextLocks DEF IInv

\* In every state the form shows a document the host has held, and a save under way
\* has done to the host what the card believes it has.
THEOREM InductiveInvariant == Spec => []IInv
<1> QED BY InitIInv, NextIInv, PTL DEF Spec

-----------------------------------------------------------------------------
\* The reads.

\* A read that is started, or that changes, is one of the reads.
LEMMA ReadsAdded ==
  ASSUME NEW bag, DOMAIN bag \subseteq Reads, NEW read \in Reads
  PROVE  DOMAIN (bag (+) SetToBag({read})) \subseteq Reads
BY DEF (+), SetToBag

\* What is left when one has returned are reads.
LEMMA ReadsTaken ==
  ASSUME NEW bag, DOMAIN bag \subseteq Reads, NEW read
  PROVE  DOMAIN (bag (-) SetToBag({read})) \subseteq Reads
BY DEF (-), SetToBag

\* What the reads under way are of and answer, as the invariant of the documents lets
\* them be started.
LEMMA NextReading ==
  ASSUME Types, Reading, [Next]_vars, form' \in Document
  PROVE  Reading'
<1>1. ASSUME NEW ref \in Refs, StartRefresh(ref), credential' = credential
      PROVE  Reading'
  <2>1. [ref |-> ref, answer |-> "none"] \in Reads
    BY DEF Reads
  <2> QED BY <1>1, <2>1, ReadsAdded DEF Reading, StartRefresh
<1>2. ASSUME refreshes' = refreshes, credential' = credential
      PROVE  Reading'
  BY <1>2 DEF Reading
<1>3. form.ref \in Refs /\ form'.ref \in Refs
  BY DEF Types, Document
<1>4. ASSUME NEW read \in BagToSet(refreshes), RefreshReturns(read)
      PROVE  Reading'
  <2>1. read \in Reads
    BY DEF Reading, BagToSet
  <2> QED BY <1>4, <2>1, ReadsTaken DEF RefreshReturns, Reading, Reads
<1>5. ASSUME NEW read \in BagToSet(refreshes), NEW works \in BOOLEAN, HostDescribes(read, works)
      PROVE  Reading'
  <2>1. read \in Reads
    BY DEF Reading, BagToSet
  <2>2. PICK answer \in Answers :
          /\ refreshes' = (refreshes (-) SetToBag({read})) (+) SetToBag({[read EXCEPT !.answer = answer]})
          /\ credential' = credential
    BY <1>5 DEF HostDescribes, Answers
  <2>3. [read EXCEPT !.answer = answer] \in Reads
    BY <2>1 DEF Reads
  <2> QED BY <2>2, <2>3, ReadsTaken, ReadsAdded DEF Reading
<1>6. CASE Returns
  <2>1. CASE MutateReturns
    BY <1>1, <1>2, <1>3, <2>1 DEF MutateReturns
  <2>2. CASE StoreReturns
    BY <1>1, <1>3, <2>2 DEF StoreReturns
  <2>3. CASE RemoveReturns
    BY <1>1, <1>3, <2>3 DEF RemoveReturns
  <2> QED BY <1>6, <2>1, <2>2, <2>3 DEF Returns
<1>7. CASE TestReturns \/ Poll
  BY <1>1, <1>3, <1>7 DEF TestReturns, Poll
<1>8. ASSUME NEW ref \in Refs, CredentialUpdated(ref)
      PROVE  Reading'
  BY <1>1, <1>2, <1>8 DEF CredentialUpdated
<1>9. CASE \/ UNCHANGED vars
           \/ \E f \in Fields : \E draft \in Drafts \cap (Values(f) \cup {Clear, Invalid}) : Edit(f, draft)
           \/ \E secret \in Secrets \cup {NoSecret} : SetSecretDraft(secret)
           \/ ResetAll \/ Discard \/ Save \/ ClearCredential \/ SendTestEmail \/ FormMoves
           \/ HostAnswers
           \/ \E f \in Fields : \E value \in Values(f) : OtherSurfaceWrites(f, value)
           \/ \E ref \in Refs, secret \in Secrets \cup {NoSecret} : OtherSurfaceSetsSecret(ref, secret)
  <2>1. refreshes' = refreshes /\ credential' = credential
    BY <1>9 DEF vars, shown, Edit, SetSecretDraft, ResetAll, Discard, Save, ClearCredential,
                SendTestEmail, FormMoves, HostAnswers, HostMutates, HostWritesSecret,
                OtherSurfaceWrites, OtherSurfaceSetsSecret
  <2> QED BY <2>1, <1>2
<1> QED BY <1>4, <1>5, <1>6, <1>7, <1>8, <1>9 DEF Next

-----------------------------------------------------------------------------
\* What follows.

\* Every state of the card and the host is well formed, and the form is never ahead of
\* the host.
THEOREM CardTypeCorrect == Spec => []TypeOK
<1>1. Init => Reading
  BY CardAssumption DEF Init, Reading, Reads, Answers, SetToBag
<1>2. IInv /\ IInv' /\ Reading /\ [Next]_vars => Reading'
  BY NextReading DEF IInv, SaveInv, Types
<1>3. ASSUME Init
      PROVE  Testing
  <2>1. /\ testing = FALSE /\ testEmail = "none"
        /\ snapshot = [saving |-> FALSE, testing |-> FALSE]
    BY <1>3 DEF Init
  <2> QED BY <2>1 DEF Testing
<1>4. ASSUME Testing, [Next]_vars
      PROVE  Testing'
  <2>1. testing' \in BOOLEAN /\ testEmail' \in {"none", "delivered", "refused"}
    BY <1>4 DEF Testing, vars, test, Next, Edit, SetSecretDraft, ResetAll, Discard, Save,
         ClearCredential, SendTestEmail, TestReturns, Returns, MutateReturns, StoreReturns,
         RemoveReturns, Poll, FormMoves, CredentialUpdated, RefreshReturns, HostDescribes,
         HostAnswers, HostMutates, HostWritesSecret, OtherSurfaceWrites, OtherSurfaceSetsSecret
  <2>2. snapshot' = snapshot \/ Publish \/ FormPublishes
    BY <1>4 DEF vars, Next, Edit, SetSecretDraft, ResetAll, Discard, Save,
         ClearCredential, SendTestEmail, TestReturns, Returns, MutateReturns, StoreReturns,
         RemoveReturns, Poll, FormMoves, CredentialUpdated, RefreshReturns, HostDescribes,
         HostAnswers, HostMutates, HostWritesSecret, OtherSurfaceWrites, OtherSurfaceSetsSecret
  <2>3. (phase' # "idle") \in BOOLEAN
    OBVIOUS
  <2>4. CASE Publish
    BY <2>1, <2>3, <2>4 DEF Publish, Testing
  <2>5. CASE FormPublishes
    BY <1>4, <2>1, <2>5 DEF FormPublishes, Testing
  <2>6. CASE snapshot' = snapshot
    BY <1>4, <2>1, <2>6 DEF Testing
  <2> QED BY <2>2, <2>4, <2>5, <2>6
<1>5. IInv /\ Reading /\ Testing => TypeOK
  BY DEF IInv, SaveInv, Types, FormFollows, Reading, Testing, TypeOK, Document
<1> QED BY <1>1, <1>2, <1>3, <1>4, <1>5, InductiveInvariant, PTL DEF Spec

\* A password never goes under the reference its own save has replaced, whoever writes
\* the document meanwhile and however late the form hears of it (save()).
THEOREM SecretFollowsReference == Spec => []SecretUnderTheSavedReference
<1>1. IInv => SecretUnderTheSavedReference
  BY DEF IInv, SaveInv, Storing, SecretUnderTheSavedReference, Apply, Wanted
<1> QED BY <1>1, InductiveInvariant, PTL

\* "Saved" appears only when every draft and the password are with the host, whatever
\* answer was lost (save() after its awaits).
THEOREM SavedIsTrue == Spec => SavedMeansLanded
<1>1. IInv /\ [Next]_vars =>
        [notice' = "saved" /\ notice # "saved" =>
           /\ landed.ops = staged
           /\ landed.secret = secretDraft
           /\ staged' = NoOps /\ secretDraft' = NoSecret]_vars
  <2> SUFFICES ASSUME IInv, Next, notice' = "saved", notice # "saved"
               PROVE  /\ landed.ops = staged
                      /\ landed.secret = secretDraft
                      /\ staged' = NoOps /\ secretDraft' = NoSecret
    OBVIOUS
  <2>1. CASE MutateReturns
    <3>1. /\ phase = "mutating" /\ call.reply = "accepted" /\ secretDraft = NoSecret
          /\ staged' = NoOps /\ secretDraft' = secretDraft
      BY <2>1 DEF MutateReturns, EndSave
    <3> QED BY <3>1 DEF IInv, SaveInv, Mutating
  <2>2. CASE StoreReturns
    BY <2>2 DEF StoreReturns, EndSave, IInv, SaveInv, Storing
  <2>3. ~RemoveReturns
    BY DEF RemoveReturns
  <2>4. CASE ~Returns
    <3>1. notice' \in {notice, "none", "reset"}
      BY <2>4 DEF Next, saving, Edit, SetSecretDraft, ResetAll, Discard, Save, ClearCredential,
                  SendTestEmail, TestReturns, Poll, FormMoves, CredentialUpdated, RefreshReturns,
                  HostDescribes, HostAnswers, HostMutates, HostWritesSecret, OtherSurfaceWrites,
                  OtherSurfaceSetsSecret
    <3> QED BY <3>1
  <2> QED BY <2>1, <2>2, <2>3, <2>4 DEF Returns
<1> QED BY <1>1, InductiveInvariant, PTL DEF Spec, SavedMeansLanded

\* Nothing typed is lost but by the user's own hand or because the host has it, at any
\* time and whatever else happens: another surface's write, a read, a refusal (save() and
\* clearCredential() after their awaits, and form.subscribe's listener).
THEOREM NothingTypedIsLost == Spec => DraftsSurvive
<1> DEFINE ByHand(f) == Discard \/ ResetAll \/ (\E draft \in Drafts : Edit(f, draft))
<1>1. ASSUME IInv, [Next]_vars, NEW f \in DOMAIN staged, Lost(f)
      PROVE  ByHand(f) \/ GivenToHost(f)
  <2>1. ASSUME NEW g \in Fields, NEW draft \in Drafts, Edit(g, draft)
        PROVE  ByHand(f)
    <3>1. staged' = [h \in DOMAIN staged \cup {g} |-> IF h = g THEN draft ELSE staged[h]]
      BY <2>1 DEF Edit
    <3>2. f = g
      BY <1>1, <3>1 DEF Lost
    <3> QED BY <2>1, <3>2
  <2>2. CASE Discard \/ ResetAll
    BY <2>2
  <2>3. CASE MutateReturns
    <3>1. phase = "mutating" /\ (staged' = staged \/ call.reply = "accepted")
      BY <2>3 DEF MutateReturns, EndSave
    <3>2. call.reply = "accepted"
      BY <1>1, <3>1 DEF Lost
    <3> QED BY <1>1, <3>1, <3>2 DEF GivenToHost, IInv, SaveInv, Mutating
  <2>4. CASE StoreReturns
    BY <1>1, <2>4 DEF StoreReturns, GivenToHost, IInv, SaveInv, Storing
  <2>5. CASE /\ ~MutateReturns /\ ~StoreReturns /\ ~Discard /\ ~ResetAll
             /\ ~(\E g \in Fields : \E draft \in Drafts \cap (Values(g) \cup {Clear, Invalid}) : Edit(g, draft))
    <3>1. ASSUME UNCHANGED vars \/ Save \/ ClearCredential \/ SendTestEmail \/ RemoveReturns
                 \/ TestReturns \/ Poll \/ FormMoves \/ HostAnswers
          PROVE  staged' = staged
      BY <3>1 DEF vars, drafts, Save, ClearCredential, SendTestEmail, RemoveReturns, TestReturns,
                  Poll, FormMoves, HostAnswers, HostMutates, HostWritesSecret
    <3>2. ASSUME \/ \E secret \in Secrets \cup {NoSecret} : SetSecretDraft(secret)
                 \/ \E ref \in Refs : CredentialUpdated(ref)
                 \/ \E read \in BagToSet(refreshes) : RefreshReturns(read)
                 \/ \E read \in BagToSet(refreshes), works \in BOOLEAN : HostDescribes(read, works)
                 \/ \E g \in Fields : \E value \in Values(g) : OtherSurfaceWrites(g, value)
                 \/ \E ref \in Refs, secret \in Secrets \cup {NoSecret} : OtherSurfaceSetsSecret(ref, secret)
          PROVE  staged' = staged
      BY <3>2 DEF drafts, SetSecretDraft, CredentialUpdated, RefreshReturns, HostDescribes,
                  OtherSurfaceWrites, OtherSurfaceSetsSecret
    <3>3. staged' = staged
      BY <1>1, <2>5, <3>1, <3>2, Zenon DEF Next, Returns
    <3> QED BY <1>1, <3>3 DEF Lost
  <2>6. CASE \E g \in Fields : \E draft \in Drafts \cap (Values(g) \cup {Clear, Invalid}) : Edit(g, draft)
    BY <2>1, <2>6
  <2> QED BY <2>2, <2>3, <2>4, <2>5, <2>6
<1>2. ASSUME IInv, [Next]_vars, secretDraft # NoSecret, secretDraft' # secretDraft
      PROVE  Discard \/ SetSecretDraft(secretDraft') \/ PasswordGone
  <2>1. ASSUME NEW secret, SetSecretDraft(secret)
        PROVE  SetSecretDraft(secretDraft')
    <3>1. secretDraft' = secret
      BY <2>1 DEF SetSecretDraft
    <3> QED BY <2>1, <3>1
  <2>2. CASE StoreReturns
    BY <1>2, <2>2 DEF StoreReturns, PasswordGone, IInv, SaveInv, Storing
  <2>3. CASE RemoveReturns
    BY <1>2, <2>3 DEF RemoveReturns, PasswordGone
  <2>4. CASE ~(StoreReturns \/ RemoveReturns \/ Discard \/ \E secret \in Secrets \cup {NoSecret} : SetSecretDraft(secret))
    <3>1. secretDraft' = secretDraft
      BY <1>2, <2>4 DEF vars, drafts, Next, Edit, ResetAll, Save, ClearCredential, SendTestEmail,
             Returns, MutateReturns, TestReturns, Poll, FormMoves, CredentialUpdated, RefreshReturns,
             HostDescribes, HostAnswers, HostMutates, HostWritesSecret, OtherSurfaceWrites,
             OtherSurfaceSetsSecret
    <3> QED BY <1>2, <3>1
  <2> QED BY <2>1, <2>2, <2>3, <2>4
<1>3. IInv /\ [Next]_vars =>
        [/\ \A f \in DOMAIN staged : Lost(f) =>
               Discard \/ ResetAll \/ (\E draft \in Drafts : Edit(f, draft)) \/ GivenToHost(f)
         /\ secretDraft # NoSecret /\ secretDraft' # secretDraft =>
               Discard \/ SetSecretDraft(secretDraft') \/ PasswordGone]_vars
  BY <1>1, <1>2
<1> QED BY <1>3, InductiveInvariant, PTL DEF Spec, DraftsSurvive

\* A save changes only what was drafted, on the very document the card shows (the fence
\* of save() against writers that come between).
THEOREM SaveOnlyOverwritesTheSeen == Spec => SaveLandsOnWhatIsShown
<1>1. IInv /\ [Next]_vars =>
        [phase = "mutating" /\ landed' # landed =>
           /\ doc = form
           /\ \A f \in Fields \ DOMAIN staged : doc'[f] = doc[f]]_vars
  <2> SUFFICES ASSUME IInv, Next, phase = "mutating", landed' # landed
               PROVE  /\ doc = form
                      /\ \A f \in Fields \ DOMAIN staged : doc'[f] = doc[f]
    OBVIOUS
  <2>1. \E done, answered \in BOOLEAN : HostMutates(done, answered)
    BY DEF IInv, Locks, Next, saving, Edit, SetSecretDraft, ResetAll, Discard, Save,
           ClearCredential, SendTestEmail, TestReturns, Poll, FormMoves, CredentialUpdated,
           RefreshReturns, HostDescribes, HostAnswers, HostWritesSecret, OtherSurfaceWrites,
           OtherSurfaceSetsSecret, Returns, MutateReturns, StoreReturns, RemoveReturns
  <2>2. doc.revision = call.fence /\ doc' = Apply(doc, call.ops)
    BY <2>1 DEF HostMutates
  <2>3. doc = form
    BY <2>2 DEF IInv, SaveInv, Types, Document, FormFollows, Mutating
  <2>4. \A f \in Fields \ DOMAIN staged : doc'[f] = doc[f]
    BY <2>2, ApplyIs DEF IInv, SaveInv, Types, Mutating, HasInvalid
  <2> QED BY <2>3, <2>4
<1> QED BY <1>1, InductiveInvariant, PTL DEF Spec, SaveLandsOnWhatIsShown
=============================================================================
