------------------------------ MODULE Endpoints ------------------------------
(***************************************************************************)
(* The two Web endpoints from the card's call to its outcome: web-rpc.ts   *)
(* and the dispatch of index.ts on the Host, client/wire.ts in the browser.*)
(* A value on the wire is <<"missing">>, <<"junk">>, <<"text", t>>,        *)
(* <<"flag", b>>, <<"number", n>> or <<"record", r>>; "" is the empty text.*)
(*                                                                         *)
(* host is [mounted, effective, queue, test]: effective holds              *)
(* [smtpConfigured, credentialRef, queueSize, errors], queue the statistics*)
(* [depth, processed, failed] of the mounted runtime, and test the result  *)
(* [delivered, recipientCount, category] a delivery test has now.          *)
(***************************************************************************)
EXTENDS Integers

Missing == <<"missing">>
At(r, field) == IF field \in DOMAIN r THEN r[field] ELSE Missing
Text(v) == IF v[1] = "text" THEN v ELSE Missing
Count(v) == IF v[1] = "number" /\ v[2] >= 0 THEN v ELSE Missing
Flag(b) == <<"flag", b>>

StatusEndpoint == "dsh-mail-notify/status"
TestEmailEndpoint == "dsh-mail-notify/test-email"

-----------------------------------------------------------------------------
\* The Host.

\* status: the counters are those of the mounted runtime, everything else is the
\* configuration last acted on.
Status(host) ==
  LET config == host.effective
      least(n) == IF n < 0 THEN 0 ELSE n
  IN  <<"record",
        [active |-> Flag(host.mounted), smtpConfigured |-> Flag(config.smtpConfigured),
         credentialRef |-> <<"text", config.credentialRef>>,
         queue |-> IF ~host.mounted THEN Missing
                   ELSE <<"record", [depth |-> <<"number", host.queue.depth>>,
                                     size |-> <<"number", config.queueSize>>,
                                     delivered |-> <<"number", least(host.queue.processed - host.queue.failed)>>,
                                     failed |-> <<"number", host.queue.failed>>]>>,
         configError |-> IF config.errors = {} THEN Missing ELSE <<"text", "errors">>]>>

\* toTestEmailValue: a failed delivery is an answer.
TestEmail(host) ==
  <<"record", [delivered |-> Flag(host.test.delivered), recipientCount |-> <<"number", host.test.recipientCount>>,
               category |-> IF host.test.delivered THEN Missing ELSE <<"text", host.test.category>>,
               message |-> IF host.test.delivered THEN Missing ELSE <<"text", "diagnostic">>]>>

Success(value) == <<"record", [ok |-> Flag(TRUE), value |-> value, error |-> Missing]>>
Failure(message) ==
  <<"record", [ok |-> Flag(FALSE), value |-> Missing, error |-> <<"record", [message |-> <<"text", message>>]>>]>>

Dispatch(host, method) ==
  CASE method = StatusEndpoint    -> Success(Status(host))
    [] method = TestEmailEndpoint -> Success(TestEmail(host))
    [] OTHER                      -> Failure("not-found")

\* decodeRequest of the parsed body.
DecodesAsRequest(body) ==
  /\ body[1] = "record"
  /\ body[2].type = <<"text", "client-request">>
  /\ \A field \in {"rpcId", "method"} : Text(body[2][field]) \notin {Missing, <<"text", "">>}

TransportFailure(status) == [status |-> status, rpcId |-> "", result |-> Missing]

\* createRouteHandler: an endpoint's outcome comes in an envelope under HTTP 200,
\* everything else is a fault of the transport.
HandlePost(host, request) ==
  CASE request.verb # "POST"                -> TransportFailure(404)
    [] request.contentType # "json"         -> TransportFailure(415)
    [] request.body = <<"unparsable">>      -> TransportFailure(400)
    [] ~DecodesAsRequest(request.body)      -> TransportFailure(400)
    [] OTHER -> [status |-> 200, rpcId |-> request.body[2].rpcId[2],
                 result |-> Dispatch(host, request.body[2].method[2])]

-----------------------------------------------------------------------------
\* The browser.

\* The Connection's call, which rejects unless its own envelope is answered.
Rejected(message) == Failure(message)
CallEndpoint(response, rpcId) ==
  IF response.status = 200 /\ response.rpcId = rpcId THEN response.result ELSE Rejected("transport")

QueueFields == {"depth", "size", "delivered", "failed"}

\* readStatusValue: without a reference it is no status; a queue block is read
\* whole or not at all; a flag that is no flag is down.
ReadStatusValue(raw) ==
  IF raw[1] # "record" \/ Text(At(raw[2], "credentialRef")) = Missing THEN Missing
  ELSE LET at(field) == At(raw[2], field)
           queue == at("queue")
           whole == queue[1] = "record" /\ \A field \in QueueFields : Count(At(queue[2], field)) # Missing
       IN  <<"record", [active |-> Flag(at("active") = Flag(TRUE)),
                        smtpConfigured |-> Flag(at("smtpConfigured") = Flag(TRUE)),
                        credentialRef |-> at("credentialRef"),
                        queue |-> IF whole THEN <<"record", [field \in QueueFields |-> queue[2][field]]>> ELSE Missing,
                        configError |-> Text(at("configError"))]>>

ReadTestEmailValue(raw) ==
  IF raw[1] # "record" \/ At(raw[2], "delivered")[1] # "flag" \/ Count(At(raw[2], "recipientCount")) = Missing THEN Missing
  ELSE <<"record", [delivered |-> raw[2].delivered, recipientCount |-> raw[2].recipientCount,
                    category |-> Text(At(raw[2], "category")), message |-> Text(At(raw[2], "message"))]>>

Ok(value) == [ok |-> TRUE, value |-> value]
Refused(message) == [ok |-> FALSE, value |-> message]

\* Seeded defect: what carries a value is a success.
ProjectCarried(result, value) ==
  IF result[1] # "record" THEN Refused("no-decodable-response")
  ELSE IF result[2].value # Missing
  THEN IF value = Missing THEN Refused("unexpected-fields") ELSE Ok(value)
  ELSE Refused("host-refused")

\* project: only an explicit success counts as one; value is what the endpoint's
\* reader makes of the result's.
Project(result, value) ==
  IF result[1] # "record" THEN Refused("no-decodable-response")
  ELSE IF result[2].ok = Flag(TRUE)
  THEN IF value = Missing THEN Refused("unexpected-fields") ELSE Ok(value)
  ELSE IF result[2].error[1] = "record" /\ Text(result[2].error[2].message) # Missing
  THEN Refused(result[2].error[2].message[2])
  ELSE Refused("host-refused")

Value(result) == IF result[1] = "record" THEN result[2].value ELSE Missing
ReadRuntimeStatus(response, rpcId) ==
  LET result == CallEndpoint(response, rpcId) IN Project(result, ReadStatusValue(Value(result)))
RequestTestEmail(response, rpcId) ==
  LET result == CallEndpoint(response, rpcId) IN Project(result, ReadTestEmailValue(Value(result)))

-----------------------------------------------------------------------------
\* The credential calls: answer is <<"throws">>, <<"error", message>> or
\* <<"value", v>>; describe is asked of one reference and reads no other.
DescribeCredential(answer, ref) ==
  CASE answer[1] = "throws" -> Refused("transport")
    [] answer[1] = "error"  -> Refused(answer[2])
    [] OTHER ->
         IF ref \notin DOMAIN answer[2] THEN Refused("not-described")
         ELSE Ok([configured |-> answer[2][ref].configured = Flag(TRUE),
                  writable |-> answer[2][ref].writable = Flag(TRUE)])

\* setCredential and unsetCredential.
WriteCredential(answer) ==
  CASE answer[1] = "throws" -> Refused("transport")
    [] answer[1] = "error"  -> Refused(answer[2])
    [] OTHER                -> Ok(Missing)
=============================================================================
