------------------------------ MODULE Delivery ------------------------------
(***************************************************************************)
(* One attempt to deliver a mail: mailer.ts with credentials.ts, and the   *)
(* delivery test of test-email.ts that takes the same path.  Rendering is  *)
(* left out; credentials says what the Credential service would answer now *)
(*   [mounted, answers, value]                                             *)
(* and server what the SMTP exchange would come to                         *)
(*   [accepts, code, reply].                                               *)
(***************************************************************************)
EXTENDS Retry, FiniteSets

NoValue == "no-value"     \* undefined, or the empty string

\* resolveSmtpPassword: a service that is missing, that rejects, or that has
\* nothing under the reference gives no password.
ResolveSmtpPassword(credentials) ==
  IF credentials.mounted /\ credentials.answers THEN credentials.value ELSE NoValue

Delivered == [ok |-> TRUE, class |-> "none", category |-> "none"]
Failed(class, category) == [ok |-> FALSE, class |-> class, category |-> category]

\* deliver: the password is read for this attempt, and without one there is no
\* exchange and no second attempt.
Deliver(credentials, server) ==
  IF ResolveSmtpPassword(credentials) = NoValue THEN Failed("permanent", "credential-missing")
  ELSE IF server.accepts THEN Delivered
  ELSE Failed(ClassifyError(server.code, server.reply), Category(server.code, server.reply))

\* sendTestEmail and toTestEmailValue.
SendTestEmail(smtpConfigured, recipients, credentials, server) ==
  LET result == Deliver(credentials, server)
  IN  IF ~smtpConfigured \/ recipients = {}
      THEN [delivered |-> FALSE, recipientCount |-> 0, category |-> "config-incomplete"]
      ELSE [delivered |-> result.ok, recipientCount |-> Cardinality(recipients), category |-> result.category]
=============================================================================
