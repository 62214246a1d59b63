------------------------------ MODULE ErrorPath ------------------------------
(***************************************************************************)
(* What becomes of a failure between the place that throws and the person  *)
(* who reads a sentence about it: the exception filter's answer, the body  *)
(* on the wire, the client's error, the catalogue.                         *)
(***************************************************************************)
EXTENDS Integers

CONSTANTS
    Codes,          \* codes both catalogues know
    NewCodes        \* codes of a library newer than the page

TOKEN_INVALID == "auth.token_invalid"
FORBIDDEN == "auth.forbidden"
TOO_MANY_REQUESTS == "auth.too_many_requests"
INTERNAL == "auth.internal"
NoCode == "no code"
GENERIC == "an unexpected error"
NETWORK_ERROR_MESSAGE == "could not reach the server"

ASSUME ErrorPathAssumption ==
    /\ {TOKEN_INVALID, FORBIDDEN, TOO_MANY_REQUESTS, INTERNAL} \subseteq Codes
    /\ NoCode \notin Codes \cup NewCodes
    /\ Codes \cap NewCodes = {}
    /\ {GENERIC, NETWORK_ERROR_MESSAGE} \cap Codes = {}

(* What is thrown.  An exception of the library carries its envelope unless *)
(* that has another shape than expected; "words" are those of whoever      *)
(* threw: a service for the person, or a driver for nobody.                *)
Statuses == {400, 401, 403, 404, 409, 429, 500, 503}
Exceptions ==
    [kind : {"AuthException"}, status : {400, 401, 403, 503}, code : Codes \cup NewCodes]
    \cup [kind : {"AuthException"}, status : {401, 403}, code : {NoCode}]
    \cup [kind : {"ThrottlerException"}, status : {429}, code : {NoCode}]
    \cup [kind : {"HttpException"}, status : Statuses, code : Codes \cup {NoCode}]
    \cup [kind : {"Error"}, status : {500}, code : {NoCode}]

(* What a request may meet besides: no answer, or one of the proxy's.      *)
Elsewhere == [kind : {"no response", "gateway page"}, status : {502}, code : {NoCode}]

VARIABLE failure    \* the last failure of a call, as it was thrown

-----------------------------------------------------------------------------
(* The filter.                                                             *)

(* Fault: every 400 is taken for a failed validation.                      *)
CodeForAnyStatus(status) ==
    CASE status = 401 -> TOKEN_INVALID
      [] status = 403 -> FORBIDDEN
      [] status = 429 -> TOO_MANY_REQUESTS
      [] status = 400 -> "auth.validation"
      [] OTHER -> NoCode

codeForStatus(status) ==
    CASE status = 401 -> TOKEN_INVALID
      [] status = 403 -> FORBIDDEN
      [] status = 429 -> TOO_MANY_REQUESTS
      [] OTHER -> NoCode

Envelope(code) == [shape |-> "envelope", code |-> code]
OwnBody == [shape |-> "message", code |-> NoCode]

catch(e) ==
    IF e.kind = "AuthException" THEN Envelope(IF e.code = NoCode THEN TOKEN_INVALID ELSE e.code)
    ELSE IF e.kind = "ThrottlerException" THEN Envelope(TOO_MANY_REQUESTS)
    ELSE IF e.kind = "HttpException" THEN
         IF e.code # NoCode THEN Envelope(e.code)
         ELSE IF codeForStatus(e.status) # NoCode THEN Envelope(codeForStatus(e.status))
         ELSE IF e.status < 500 THEN OwnBody
         ELSE Envelope(INTERNAL)
    ELSE Envelope(INTERNAL)

(* What the browser is handed; the same body as an API sends that is one   *)
(* release older.                                                          *)
Body(e) == IF e.kind = "gateway page" THEN [shape |-> "text", code |-> NoCode] ELSE catch(e)
Legacy(body) == IF body.shape = "envelope" THEN [body EXCEPT !.shape = "flat"] ELSE body

-----------------------------------------------------------------------------
(* The client.                                                             *)

(* apiFetch, platformApiFetch: the code of the thrown AuthClientError; the *)
(* body's own message is kept beside it.                                   *)
buildAuthClientError(body) ==
    IF body.shape = "flat" THEN body.code
    ELSE IF body.shape = "envelope" THEN body.code
    ELSE NoCode

(* For the two pages that parse the body themselves.                       *)
readAuthErrorCode(body) == IF body.shape \in {"envelope", "flat"} THEN body.code ELSE NoCode

translateAuthError(code) == IF code \in Codes THEN code ELSE GENERIC

mapAuthClientError(e, body) ==
    IF e.kind = "no response" THEN NETWORK_ERROR_MESSAGE
    ELSE translateAuthError(buildAuthClientError(body))

(* Those two: response.json() throws on a page that is none of the API's,  *)
(* into the catch that a request without a response ends in.               *)
pageSays(e, body) ==
    IF e.kind = "no response" \/ body.shape = "text" THEN NETWORK_ERROR_MESSAGE
    ELSE translateAuthError(readAuthErrorCode(body))

-----------------------------------------------------------------------------
ErrorInit == failure = [kind |-> "no response", status |-> 502, code |-> NoCode]

CallMeets(e) == failure' = e

ErrorNext == \E e \in Exceptions \cup Elsewhere : CallMeets(e)

SpecError == ErrorInit /\ [][ErrorNext]_failure

KeepsItsMeaning(e) ==
    LET said == mapAuthClientError(e, Body(e))
        uncoded == e.kind = "HttpException" /\ e.code = NoCode
    IN  /\ e.code # NoCode => said = translateAuthError(e.code)
        /\ (uncoded /\ e.status = 401) => said = TOKEN_INVALID
        /\ (uncoded /\ e.status = 403) => said = FORBIDDEN
        /\ (e.status = 429 /\ e.code = NoCode) => said = TOO_MANY_REQUESTS
        /\ (uncoded /\ e.status \in {400, 404, 409}) => said = GENERIC
        /\ (e.kind = "Error" \/ (uncoded /\ e.status >= 500)) => said = INTERNAL
        /\ said = NETWORK_ERROR_MESSAGE <=> e.kind = "no response"
        /\ \A body \in {Body(e), Legacy(Body(e))} :
             /\ mapAuthClientError(e, body) = said
             /\ pageSays(e, body) = IF e.kind = "gateway page" THEN NETWORK_ERROR_MESSAGE ELSE said

(* What the person is told is about what happened: the sentence of the     *)
(* code that was thrown; of the session, of the permission or of the rate  *)
(* when that alone is known; a fault of the service for one, with none of  *)
(* its words; and for a business rule or an unknown code nothing that      *)
(* means something else.  That the server was not reached is only said     *)
(* when nothing came back.  Pages that still meet the former release say   *)
(* the same, and so do the two that read the body themselves, but for the  *)
(* page of a gateway: there they say that the server was not reached.      *)
ErrorsKeepTheirMeaning == KeepsItsMeaning(failure)

=============================================================================
