------------------------------- MODULE Retry -------------------------------
(***************************************************************************)
(* The retry policy of src/retry.ts: how a failed send is classified and   *)
(* whether, and after how long, another attempt is made.  Error codes are  *)
(* the strings the transport reports; NoCode and NoReply stand for a field *)
(* that is absent or unusable.                                             *)
(***************************************************************************)
EXTENDS Integers

NoCode == "none"
NoReply == 0

TransientCodes == {"ETIMEDOUT", "ESOCKET", "ECONNRESET", "ECONNABORTED", "EPIPE",
                   "EAI_AGAIN", "EHOSTUNREACH", "ENETUNREACH", "ENETDOWN"}
PermanentCodes == {"ENOTFOUND", "ECONNREFUSED", "EAUTH", "EENVELOPE", "EMESSAGE", "EDNS"}
AuthReplyCodes == {454, 530, 534, 535, 538}
EnvelopeReplyCodes == 550 .. 557

\* Seeded defect: a transient code is believed before a 5xx reply is looked at.
CategoryCodeFirst(code, reply) ==
  IF code = "EAUTH" \/ reply \in AuthReplyCodes              THEN "smtp-auth"
  ELSE IF code = "EENVELOPE" \/ reply \in EnvelopeReplyCodes THEN "envelope-rejected"
  ELSE IF code \in PermanentCodes                            THEN "permanent-code"
  ELSE IF code \in TransientCodes                            THEN "transient-code"
  ELSE IF reply >= 500                                       THEN "smtp-5xx"
  ELSE IF reply \in 400 .. 499                               THEN "smtp-4xx"
  ELSE "unknown-error"

\* classifyError's tests in the order the code makes them: the first that
\* matches names the category.
Category(code, reply) ==
  IF code = "EAUTH" \/ reply \in AuthReplyCodes              THEN "smtp-auth"
  ELSE IF code = "EENVELOPE" \/ reply \in EnvelopeReplyCodes THEN "envelope-rejected"
  ELSE IF code \in PermanentCodes                            THEN "permanent-code"
  ELSE IF reply >= 500                                       THEN "smtp-5xx"
  ELSE IF code \in TransientCodes                            THEN "transient-code"
  ELSE IF reply \in 400 .. 499                               THEN "smtp-4xx"
  ELSE "unknown-error"

\* classifyError: the verdict on one thrown value.
ClassifyError(code, reply) ==
  IF Category(code, reply) \in {"transient-code", "smtp-4xx"} THEN "retry" ELSE "permanent"

\* Seeded defect: one retry too many.
DecideRetryOnceMore(class, attempts, retryAttempts) ==
  class = "retry" /\ attempts <= retryAttempts + 1

\* decideRetry: attempts counts the failed one, so a job is tried at most
\* retryAttempts + 1 times.
DecideRetry(class, attempts, retryAttempts) ==
  class = "retry" /\ attempts < retryAttempts + 1

\* The wait before the n-th retry, 1-based: the base times 3 to the n - 1, capped.
BackoffDelayMs(n, policy) ==
  LET exponent == IF n > 1 THEN n - 1 ELSE 0
      raw[k \in 0 .. exponent] == IF k = 0 THEN policy.baseDelayMs ELSE 3 * raw[k - 1]
  IN  IF raw[exponent] < policy.maxDelayMs THEN raw[exponent] ELSE policy.maxDelayMs

\* The waits of a job that fails retryably every time.
BackoffSequence(policy) ==
  [n \in 1 .. policy.retryAttempts |-> BackoffDelayMs(n, policy)]
=============================================================================
