------------------------------- MODULE Wire -------------------------------
(***************************************************************************)
(* What the client and the server make of the JSON objects they exchange.  *)
(* The client writes objects, well-formed or not; the server reads each    *)
(* one as a Message and routes it: requests into the IncomingRequests      *)
(* table, $/cancelRequest to the token of the request it names, responses  *)
(* to the table that waits for them.  Handlers answer with the             *)
(* constructors of Response and routing.rs, the server may cancel requests *)
(* of its own, and the client reads what comes back.                       *)
(*                                                                         *)
(* The client knows its requests by the JSON value of the id it wrote, the *)
(* server by the RequestId it read: the properties relate the two.         *)
(***************************************************************************)
EXTENDS Routing

CONSTANTS
    ClientObjects,   \* the objects the client may write
    Questions        \* the ids of the server's own requests

Keys == {"jsonrpc", "id", "method", "params", "result", "error"}

(* a value as Message writes it down *)
IsJson(value) ==
    /\ Is(value, "string") => value = String(value[2])
    /\ Is(value, "number") => value = Number(value[2])

(* an error object without its text, and with no keys that are ignored *)
IsBareError(value) ==
    /\ value = Object(value[2])
    /\ value[2] = [key \in DOMAIN value[2] |-> value[2][key]]
    /\ DOMAIN value[2] \in {{"code", "message"}, {"code", "message", "data"}}
    /\ IsJson(value[2].code) /\ value[2].message = String("text")
    /\ Has(value[2], "data") => value[2].data # Null

(* a RequestId *)
IsId(i) ==
    \/ i[1] = "Integer" /\ i = Integer(i[2]) /\ i[2] \in I32
    \/ i[1] = "String" /\ i = StringId(i[2])

ASSUME WireAssumption ==
    /\ \A object \in ClientObjects :
          /\ DOMAIN object \subseteq Keys
          /\ \A key \in DOMAIN object : IsJson(object[key])
          /\ Has(object, "params") /\ Is(object.params, "object") /\ Has(object.params[2], "id")
                => IsJson(object.params[2].id)
          /\ Has(object, "error") /\ IsResponseError(object.error) => IsBareError(object.error)
    /\ \A i \in Questions : IsId(i)

VARIABLES
    frame,      \* the object on its way to the server, or None
    loop,       \* the server's main loop: "running" or "ended"
    waiting,    \* ids of the requests the client has no answer to
    stopped,    \* those of them it has cancelled
    wellFormed, \* history: every object written was valid JSON-RPC 2.0
    queue,      \* the tables of the server's Connection
    reply,      \* a message on its way to the client and what it means, or None
    heard       \* the answer just routed to a waiter: object and body, or None

clientVars == <<waiting, stopped, wellFormed>>
vars == <<frame, clientVars, loop, queue, reply, heard>>

(* the server's requests were sent through ClientSender, or registered in  *)
(* request_queue.outgoing                                                  *)
Init ==
    /\ frame = None
    /\ loop = "running"
    /\ waiting = {} /\ stopped = {}
    /\ wellFormed = TRUE
    /\ \E sent \in SUBSET Questions :
         queue = [NewQueue EXCEPT !.responseMap = sent, !.outgoing = Questions \ sent]
    /\ reply = None
    /\ heard = None

---------------------------------------------------------------------------
(* The client *)

(* "Request: Has `id` AND `method` fields" *)
IsClientRequest(object) == Has(object, "id") /\ Has(object, "method")

(* the JSON-RPC 2.0 grammar, for ids that an i32 or a string can hold *)
WellFormed(object) ==
    /\ ValidVersion(object)
    /\ Has(object, "method") => HasMethod(object)
    /\ Has(object, "error") => IsResponseError(object.error)
    /\ \E key \in {"method", "result", "error"} :
           DOMAIN object \cap {"method", "result", "error"} = {key}
    /\ Has(object, "id") =>
           IsRequestId(object.id) \/ (object.id = Null /\ Has(object, "error"))
    /\ Has(object, "id") \/ Has(object, "method")

(* the id that a cancellation names *)
Names(object) ==
    IF /\ object.method = String(CancelRequestMethod)
       /\ Has(object, "params") /\ Is(object.params, "object")
       /\ Has(object.params[2], "id")
      THEN {object.params[2].id} ELSE {}

Write(object) ==
    /\ frame = None /\ loop = "running"
    /\ IsClientRequest(object) => object.id \notin waiting
    /\ frame' = Some(object)
    /\ wellFormed' = (wellFormed /\ WellFormed(object))
    /\ waiting' = IF IsClientRequest(object) THEN waiting \cup {object.id} ELSE waiting
    /\ stopped' = IF Has(object, "method") /\ ~IsClientRequest(object)
                    THEN stopped \cup (Names(object) \cap waiting) ELSE stopped
    /\ heard' = None
    /\ UNCHANGED <<loop, queue, reply>>

ReadReply ==
    /\ reply # None
    /\ waiting' = {id \in waiting : ~Has(reply[2].json, "id") \/ reply[2].json.id # id}
    /\ stopped' = stopped \cap waiting'
    /\ reply' = None
    /\ UNCHANGED <<frame, wellFormed, loop, queue, heard>>

---------------------------------------------------------------------------
(* The server: receiver.next(), then route() *)

Received == MessageFrom(frame[2])

(* from_slice fails, next() is an error, the loop ends *)
ReadError ==
    /\ frame # None /\ Received = None
    /\ frame' = None
    /\ loop' = "ended"
    /\ UNCHANGED <<clientVars, queue, reply, heard>>

ReadMessage ==
    /\ frame # None /\ Received # None
    /\ frame' = None
    /\ LET routed == Route(queue, Received[2]) IN
       /\ queue' = routed.queue
       /\ heard' = IF routed.value[1] = "ResponseRouted"
                     THEN Some([object |-> frame[2], body |-> Received[2].body]) ELSE None
    /\ UNCHANGED <<clientVars, loop, reply>>

SendClient(means, message) == reply' = Some([means |-> means, json |-> MessageTo(message)])

(* A handler answers: with a result, or in the words of routing.rs; the    *)
(* entry is completed.                                                     *)
Respond(i) ==
    /\ loop = "running" /\ reply = None
    /\ \/ SendClient(<<"result">>, ResponseOk(i, Null))
       \/ SendClient(<<"MethodNotFound">>, MethodNotFoundResponse(i))
       \/ /\ GetToken(queue, i) = Some(TRUE)
          /\ SendClient(<<"RequestCancelled">>, CancelledResponse(i))
    /\ queue' = Complete(queue, i).queue
    /\ UNCHANGED <<frame, clientVars, loop, heard>>

(* Connection::cancel of a request of the server's own *)
Cancel(i) ==
    /\ loop = "running" /\ reply = None
    /\ queue' = CancelOutgoing(queue, i).queue
    /\ SendClient(<<"cancel", i>>, CancelOutgoing(queue, i).value.sent)
    /\ UNCHANGED <<frame, clientVars, loop, heard>>

---------------------------------------------------------------------------
Next ==
    \/ \E object \in ClientObjects : Write(object)
    \/ ReadReply
    \/ ReadError \/ ReadMessage
    \/ \E i \in DOMAIN queue.incoming : Respond(i)
    \/ \E i \in queue.outgoing : Cancel(i)

Spec == Init /\ [][Next]_vars

---------------------------------------------------------------------------
(* The type invariant: the ids of the table fit their type. *)
TypeOK ==
    /\ frame = None \/ DOMAIN frame[2] \subseteq Keys
    /\ loop \in {"running", "ended"}
    /\ stopped \subseteq waiting
    /\ wellFormed \in BOOLEAN
    /\ \A i \in DOMAIN queue.incoming :
           /\ i[1] = "Integer" => i[2] \in I32
           /\ queue.incoming[i] \in BOOLEAN
    /\ queue.outgoing \subseteq Questions /\ queue.responseMap \subseteq Questions
    /\ reply = None \/ DOMAIN reply[2] = {"means", "json"}
    /\ heard = None \/ DOMAIN heard[2] = {"object", "body"}

(* what a reader of the message makes of it, by the code of this library *)
Understood(json) ==
    LET m == MessageFrom(json) IN
    CASE m = None -> <<"nothing">>
      [] m # None /\ IsKind(m[2], "Notification") ->
           <<"cancel", ParseCancelParams(m[2].params)[2]>>
      [] m # None /\ IsKind(m[2], "Response") ->
           IF IsOk(m[2]) THEN <<"result">> ELSE <<TryFrom(ErrorOf(m[2])[2].code)[2]>>

(* What the client gets carries the very id of one of its open requests,   *)
(* an integer or a string as it wrote it, and says what the handler meant; *)
(* a cancellation names the request the server cancelled.  Reading,        *)
(* writing and reading again lose nothing.                                 *)
RepliesUnderstood ==
    reply # None =>
        /\ Has(reply[2].json, "id") => reply[2].json.id \in waiting
        /\ Understood(reply[2].json) = reply[2].means

(* As long as the client writes valid JSON-RPC 2.0, nothing it writes ends *)
(* the loop, and every request it waits for is in the table or answered.   *)
WellFormedServed ==
    wellFormed =>
        /\ loop = "running"
        /\ frame = None => \A id \in waiting :
               \/ IsPending(queue, RequestIdFrom(id))
               \/ reply # None /\ Has(reply[2].json, "id") /\ reply[2].json.id = id

(* A $/cancelRequest names a request by the JSON value of its id, read by  *)
(* other code than the id of the request itself.  The token it cancels is  *)
(* that request's, and never that of a request whose id is the same        *)
(* number modulo 2^32, or the same digits in a string.                     *)
CancelReaches ==
    wellFormed /\ frame = None => \A id \in waiting :
        IsPending(queue, RequestIdFrom(id)) =>
            (GetToken(queue, RequestIdFrom(id)) = Some(TRUE) <=> id \in stopped)

(* A response is a failure exactly when it carries an error that is not    *)
(* null, and a waiter gets the result or the error the client wrote, also  *)
(* from clients that send both fields.                                     *)
AnswersUnderstood ==
    heard # None =>
        LET object == heard[2].object IN
        IF Has(object, "error") /\ object.error # Null
          THEN heard[2].body[1] = "Error" /\ ResponseErrorTo(heard[2].body[2]) = object.error
          ELSE heard[2].body = Success(object.result)

(* "Notification: Has `method` field but NO `id` field" (message.rs): what *)
(* the server takes for a notification, and never answers, has no id.      *)
NotificationHasNoId ==
    frame # None /\ Received # None /\ IsKind(Received[2], "Notification")
        => ~Has(frame[2], "id")
===========================================================================
