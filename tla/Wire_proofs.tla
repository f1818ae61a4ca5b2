---------------------------- MODULE Wire_proofs ----------------------------
(***************************************************************************)
(* Proofs about Wire, for every set of client objects and of server        *)
(* requests.  The first part is about message.rs alone: what it writes, it *)
(* reads back.  The second follows each request of the client from the     *)
(* frame through the IncomingRequests table to its reply, by the JSON      *)
(* value of its id on one side and the RequestId on the other.             *)
(***************************************************************************)
EXTENDS Wire, TLAPS

---------------------------------------------------------------------------
(* Message: reading back what was written *)

(* Some(x) is not None, and holds x. *)
LEMMA OptionFacts ==
    ASSUME NEW x
    PROVE  Some(x) # None /\ Some(x)[2] = x
  BY DEF Some, None

(* A RequestId is written as a value that reads as the same RequestId; in  *)
(* particular it is never null.                                            *)
LEMMA IdRoundTrip ==
    ASSUME NEW i, IsId(i)
    PROVE  /\ IsRequestId(RequestIdTo(i)) /\ IsJson(RequestIdTo(i))
           /\ RequestIdFrom(RequestIdTo(i)) = i
           /\ RequestIdTo(i) # Null
<1>1. CASE i[1] = "Integer" /\ i = Integer(i[2]) /\ i[2] \in I32
  BY <1>1 DEF RequestIdTo, RequestIdFrom, IsRequestId, IsJson, Is, Number, String, Null, Integer
<1>2. CASE i[1] = "String" /\ i = StringId(i[2])
  BY <1>2 DEF RequestIdTo, RequestIdFrom, IsRequestId, IsJson, Is, Number, String, Null, StringId
<1>. QED  BY <1>1, <1>2 DEF IsId

(* A JSON value that is read as a RequestId is written back as it was. *)
LEMMA ValueRoundTrip ==
    ASSUME NEW value, IsRequestId(value), IsJson(value)
    PROVE  IsId(RequestIdFrom(value)) /\ RequestIdTo(RequestIdFrom(value)) = value
<1>1. CASE Is(value, "string")
  BY <1>1 DEF IsId, RequestIdTo, RequestIdFrom, IsRequestId, IsJson, Is, Number, String, Integer, StringId
<1>2. CASE Is(value, "number") /\ value[2] \in I32
  BY <1>2 DEF IsId, RequestIdTo, RequestIdFrom, IsRequestId, IsJson, Is, Number, String, Integer, StringId
<1>. QED  BY <1>1, <1>2 DEF IsRequestId

---------------------------------------------------------------------------
(* A message whose ids and codes fit their type.  Params and error data    *)
(* that are Some(null) are left out: they are written as null, and read    *)
(* back as None.                                                           *)

IsParams(option) == option = None \/ \E value : value # Null /\ option = Some(value)
IsBody(body) ==
    \/ \E value : body = Success(value)
    \/ \E code \in I32 : \E data : IsParams(data) /\ body = Failure(ResponseError(code, data))

IsMessage(m) ==
    \/ \E id, method, params : IsId(id) /\ IsParams(params) /\ m = Request(id, method, params)
    \/ \E method, params : IsParams(params) /\ m = Notification(method, params)
    \/ \E id, body : /\ id = None \/ \E i : IsId(i) /\ id = Some(i)
                     /\ IsBody(body) /\ m = Response(id, body)

(* The params field that is written reads as it was, also when it is left  *)
(* out, and the other fields stay.                                         *)
LEMMA WithParamsFacts ==
    ASSUME NEW object, NEW params, IsParams(params), ~Has(object, "params")
    PROVE  LET json == WithParams(object, params) IN
           /\ OptionValue(json, "params") = params
           /\ \A key : key # "params" =>
                  /\ Has(json, key) <=> Has(object, key)
                  /\ Has(object, key) => json[key] = object[key]
<1>1. CASE params = None
  BY <1>1 DEF WithParams, OptionValue, Has
<1>2. CASE params # None
  <2>1. PICK value : value # Null /\ params = Some(value)
    BY <1>2 DEF IsParams
  <2> DEFINE json == WithParams(object, params)
  <2>2. json = [key \in DOMAIN object \cup {"params"} |-> IF key = "params" THEN value ELSE object[key]]
    BY <1>2, <2>1, OptionFacts DEF WithParams
  <2>3. /\ DOMAIN json = DOMAIN object \cup {"params"} /\ json["params"] = value
        /\ \A key \in DOMAIN object : key # "params" => json[key] = object[key]
    BY <2>2
  <2> HIDE DEF json
  <2>4. OptionValue(json, "params") = params
    BY <2>1, <2>3 DEF OptionValue, Has
  <2>5. \A key : key # "params" => /\ Has(json, key) <=> Has(object, key)
                                   /\ Has(object, key) => json[key] = object[key]
    BY <2>3 DEF Has
  <2>. QED  BY <2>4, <2>5 DEF json
<1>. QED  BY <1>1, <1>2

(* A request reads back as itself. *)
LEMMA RequestReadsBack ==
    ASSUME NEW id, IsId(id), NEW method, NEW params, IsParams(params)
    PROVE  LET m == Request(id, method, params) IN MessageFrom(MessageTo(m)) = Some(m)
<1> DEFINE m == Request(id, method, params)
           bare == [jsonrpc |-> String("2.0"), id |-> RequestIdTo(id), method |-> String(method)]
           json == WithParams(bare, params)
<1>1. m.kind = "Request" /\ m.id = id /\ m.method = method /\ m.params = params
  BY DEF Request
<1>2. MessageTo(m) = json
  BY <1>1 DEF MessageTo, IsKind, RequestTo
<1>3. /\ Has(bare, "jsonrpc") /\ Has(bare, "id") /\ Has(bare, "method") /\ ~Has(bare, "params")
      /\ bare["jsonrpc"] = String("2.0") /\ bare["id"] = RequestIdTo(id)
      /\ bare["method"] = String(method)
  BY DEF Has
<1> HIDE DEF bare
<1>4. /\ OptionValue(json, "params") = params
      /\ Has(json, "jsonrpc") /\ Has(json, "id") /\ Has(json, "method")
      /\ json["jsonrpc"] = String("2.0") /\ json["id"] = RequestIdTo(id)
      /\ json["method"] = String(method)
  BY <1>3, WithParamsFacts
<1> HIDE DEF json
<1>5. json.method[2] = method /\ Is(json.method, "string")
  BY <1>4 DEF String, Is
<1>6. RequestFrom(json) = Some(m)
  BY <1>4, <1>5, IdRoundTrip DEF RequestFrom, ValidVersion, HasMethod
<1>. QED  BY <1>2, <1>6, OptionFacts DEF MessageFrom

(* A notification reads back as itself, and has no id. *)
LEMMA NotificationReadsBack ==
    ASSUME NEW method, NEW params, IsParams(params)
    PROVE  LET m == Notification(method, params) IN
           MessageFrom(MessageTo(m)) = Some(m) /\ ~Has(MessageTo(m), "id")
<1> DEFINE m == Notification(method, params)
           bare == [jsonrpc |-> String("2.0"), method |-> String(method)]
           json == WithParams(bare, params)
<1>1. m.kind = "Notification" /\ m.method = method /\ m.params = params
  BY DEF Notification
<1>2. MessageTo(m) = json
  BY <1>1 DEF MessageTo, IsKind, NotificationTo
<1>3. /\ Has(bare, "jsonrpc") /\ Has(bare, "method") /\ ~Has(bare, "params")
      /\ ~Has(bare, "id") /\ ~Has(bare, "result") /\ ~Has(bare, "error")
      /\ bare["jsonrpc"] = String("2.0") /\ bare["method"] = String(method)
  BY DEF Has
<1> HIDE DEF bare
<1>4. /\ OptionValue(json, "params") = params
      /\ Has(json, "jsonrpc") /\ Has(json, "method")
      /\ ~Has(json, "id") /\ ~Has(json, "result") /\ ~Has(json, "error")
      /\ json["jsonrpc"] = String("2.0") /\ json["method"] = String(method)
  BY <1>3, WithParamsFacts
<1> HIDE DEF json
<1>5. json.method[2] = method /\ Is(json.method, "string")
  BY <1>4 DEF String, Is
<1>6. RequestFrom(json) = None /\ ResponseFrom(json) = None /\ NotificationFrom(json) = Some(m)
  BY <1>4, <1>5 DEF RequestFrom, ResponseFrom, NotificationFrom, ValidVersion, HasMethod
<1>. QED  BY <1>2, <1>4, <1>6 DEF MessageFrom

(* An error object reads back as itself. *)
LEMMA ErrorReadsBack ==
    ASSUME NEW code \in I32, NEW data, IsParams(data)
    PROVE  LET error == ResponseError(code, data)
               value == ResponseErrorTo(error)
           IN  IsResponseError(value) /\ ResponseErrorFrom(value) = error /\ value # Null
<1> DEFINE error == ResponseError(code, data)
           value == ResponseErrorTo(error)
           fields == value[2]
<1>1. error.code = code /\ error.data = data
  BY DEF ResponseError
<1>2. /\ value = Object(fields)
      /\ Has(fields, "code") /\ Has(fields, "message")
      /\ fields.code = Number(code) /\ fields.message = String("text")
      /\ OptionValue(fields, "data") = data
  <2>1. CASE data = None
    <3>1. value = Object([code |-> Number(code), message |-> String("text")])
      BY <1>1, <2>1 DEF ResponseErrorTo
    <3>. QED  BY <2>1, <3>1 DEF Object, Has, OptionValue
  <2>2. CASE data # None
    <3>1. PICK v : v # Null /\ data = Some(v)
      BY <2>2 DEF IsParams
    <3>2. value = Object([code |-> Number(code), message |-> String("text"), data |-> v])
      BY <1>1, <2>2, <3>1, OptionFacts DEF ResponseErrorTo
    <3>. QED  BY <3>1, <3>2 DEF Object, Has, OptionValue
  <2>. QED  BY <2>1, <2>2
<1> HIDE DEF value
<1>3. value[1] = "object" /\ value # Null
  <2>1. Object(fields)[1] = "object" /\ Object(fields) # Null
    BY DEF Object, Null
  <2>. QED  BY <1>2, <2>1
<1>4. Number(code)[1] = "number" /\ Number(code)[2] = code /\ String("text")[1] = "string"
  BY DEF Number, String
<1>5. IsResponseError(value)
  BY <1>2, <1>3, <1>4 DEF IsResponseError, Is
<1>6. ResponseErrorFrom(value) = error
  BY <1>2, <1>4 DEF ResponseErrorFrom
<1>. QED  BY <1>3, <1>5, <1>6 DEF value

(* A response reads back as itself, with its id or with null in its place: *)
(* never as a notification or a request, since it has no method.           *)
LEMMA ResponseReadsBack ==
    ASSUME NEW id, id = None \/ (\E i : IsId(i) /\ id = Some(i)), NEW body, IsBody(body)
    PROVE  LET m == Response(id, body)
               json == MessageTo(m)
           IN  /\ MessageFrom(json) = Some(m)
               /\ Has(json, "id") /\ json.id = IF id = None THEN Null ELSE RequestIdTo(id[2])
<1> DEFINE m == Response(id, body)
           json == MessageTo(m)
           written == IF id = None THEN Null ELSE RequestIdTo(id[2])
<1>1. m.kind = "Response" /\ m.id = id /\ m.body = body
  BY DEF Response
<1>2. json = ResponseTo(m)
  BY <1>1 DEF MessageTo, IsKind
<1>3. /\ ValidVersion(json) /\ Has(json, "id") /\ json.id = written
      /\ ~Has(json, "method")
      /\ Has(json, "result") \/ Has(json, "error")
      /\ BodyFrom(json) = Some(body)
  <2>1. CASE \E value : body = Success(value)
    <3>1. PICK value : body = Success(value)
      BY <2>1
    <3>2. IsOk(m) /\ m.body[2] = value
      BY <1>1, <3>1 DEF IsOk, Success
    <3>3. json = [jsonrpc |-> String("2.0"), id |-> written, result |-> value]
      BY <1>1, <1>2, <3>2 DEF ResponseTo
    <3>4. /\ ValidVersion(json) /\ Has(json, "id") /\ json.id = written
          /\ ~Has(json, "method") /\ ~Has(json, "error")
          /\ Has(json, "result") /\ json.result = value
      BY <3>3 DEF Has, ValidVersion
    <3> HIDE DEF json, written
    <3>. QED  BY <3>1, <3>4 DEF BodyFrom
  <2>2. CASE \E code \in I32 : \E data : IsParams(data) /\ body = Failure(ResponseError(code, data))
    <3>1. PICK code \in I32 : \E data : IsParams(data) /\ body = Failure(ResponseError(code, data))
      BY <2>2
    <3>2. PICK data : IsParams(data) /\ body = Failure(ResponseError(code, data))
      BY <3>1
    <3> DEFINE error == ResponseError(code, data)
               value == ResponseErrorTo(error)
    <3>3. ~IsOk(m) /\ m.body[2] = error
      BY <1>1, <3>2 DEF IsOk, Failure
    <3>4. IsResponseError(value) /\ ResponseErrorFrom(value) = error /\ value # Null
      BY <3>2, ErrorReadsBack
    <3> HIDE DEF error
    <3>5. json = [jsonrpc |-> String("2.0"), id |-> written, error |-> value]
      BY <1>1, <1>2, <3>3 DEF ResponseTo
    <3> HIDE DEF value
    <3>6. /\ ValidVersion(json) /\ Has(json, "id") /\ json.id = written
          /\ ~Has(json, "method") /\ ~Has(json, "result")
          /\ Has(json, "error") /\ json.error = value
      BY <3>5 DEF Has, ValidVersion
    <3> HIDE DEF json, written
    <3>. QED  BY <3>2, <3>4, <3>6 DEF BodyFrom, error
  <2>. QED  BY <2>1, <2>2 DEF IsBody
<1> HIDE DEF json
<1>4. RequestFrom(json) = None
  BY <1>3 DEF RequestFrom, HasMethod
<1>5. ResponseFrom(json) = Some(m)
  <2>1. CASE id = None
    <3>1. NoId(json)
      BY <1>3, <2>1 DEF NoId
    <3>. QED  BY <1>3, <2>1, <3>1, OptionFacts DEF ResponseFrom
  <2>2. CASE id # None
    <3>1. PICK i : IsId(i) /\ id = Some(i)
      BY <2>2
    <3>2. json.id = RequestIdTo(i)
      BY <1>3, <2>2, <3>1, OptionFacts
    <3>3. ~NoId(json) /\ IsRequestId(json.id) /\ RequestIdFrom(json.id) = i
      BY <1>3, <3>1, <3>2, IdRoundTrip DEF NoId
    <3>. QED  BY <1>3, <3>1, <3>3, OptionFacts DEF ResponseFrom
  <2>. QED  BY <2>1, <2>2
<1>6. MessageFrom(json) = Some(m)
  BY <1>4, <1>5, OptionFacts DEF MessageFrom
<1>. QED  BY <1>3, <1>6 DEF json

(* What the writer of message.rs makes of a message, its reader, which     *)
(* guesses the kind from the fields that are there, reads as the same      *)
(* message: the kind, the id with its type, the params, the body and the   *)
(* error code.                                                             *)
THEOREM MessagesReadBack ==
    ASSUME NEW m, IsMessage(m)
    PROVE  MessageFrom(MessageTo(m)) = Some(m)
<1>1. CASE \E id, method, params : IsId(id) /\ IsParams(params) /\ m = Request(id, method, params)
  BY <1>1, RequestReadsBack
<1>2. CASE \E method, params : IsParams(params) /\ m = Notification(method, params)
  BY <1>2, NotificationReadsBack
<1>3. CASE \E id, body : /\ id = None \/ \E i : IsId(i) /\ id = Some(i)
                         /\ IsBody(body) /\ m = Response(id, body)
  BY <1>3, ResponseReadsBack
<1>. QED  BY <1>1, <1>2, <1>3 DEF IsMessage

---------------------------------------------------------------------------
(* A success is written with its id and understood as a result. *)
LEMMA OkUnderstood ==
    ASSUME NEW i, IsId(i), NEW value
    PROVE  LET json == MessageTo(ResponseOk(i, value)) IN
           /\ Has(json, "id") /\ json.id = RequestIdTo(i)
           /\ Understood(json) = <<"result">>
<1> DEFINE m == ResponseOk(i, value)
           json == MessageTo(m)
<1>1. m.kind = "Response" /\ m.body = Success(value)
  BY DEF ResponseOk, Response
<1>2. IsOk(m)
  BY <1>1 DEF IsOk, Success
<1>3. IsBody(Success(value))
  BY DEF IsBody
<1>4. MessageFrom(json) = Some(m) /\ Has(json, "id") /\ json.id = RequestIdTo(i)
  BY <1>3, ResponseReadsBack, OptionFacts DEF ResponseOk
<1> HIDE DEF json, m
<1>5. Understood(json) = <<"result">>
  BY <1>1, <1>2, <1>4, OptionFacts, Zenon DEF Understood, IsKind
<1>. QED  BY <1>4, <1>5 DEF json, m

(* An error response without data is written with its id and understood by *)
(* the name of its code.                                                   *)
LEMMA ErrUnderstood ==
    ASSUME NEW i, IsId(i), NEW code \in I32, NEW name, TryFrom(code) = Some(name)
    PROVE  LET json == MessageTo(ResponseErr(i, ResponseError(code, None))) IN
           /\ Has(json, "id") /\ json.id = RequestIdTo(i)
           /\ Understood(json) = <<name>>
<1> DEFINE error == ResponseError(code, None)
           m == ResponseErr(i, error)
           json == MessageTo(m)
<1>1. m.kind = "Response" /\ m.body = Failure(error) /\ error.code = code
  BY DEF ResponseErr, Response, ResponseError
<1>2. ~IsOk(m) /\ ErrorOf(m) = Some(error)
  BY <1>1 DEF IsOk, IsErr, ErrorOf, Failure
<1>3. IsBody(Failure(error))
  BY DEF IsBody, IsParams
<1>4. MessageFrom(json) = Some(m) /\ Has(json, "id") /\ json.id = RequestIdTo(i)
  BY <1>3, ResponseReadsBack, OptionFacts DEF ResponseErr
<1> HIDE DEF json, m, error
<1>5. Understood(json) = <<name>>
  <2>1. m = MessageFrom(json)[2] /\ MessageFrom(json) # None
    BY <1>4, OptionFacts
  <2>2. ErrorOf(m)[2].code = code
    BY <1>1, <1>2, OptionFacts
  <2>3. TryFrom(code)[2] = name
    BY OptionFacts
  <2>. QED  BY <1>1, <1>2, <2>1, <2>2, <2>3, Zenon DEF Understood, IsKind
<1>. QED  BY <1>4, <1>5 DEF json, m, error

(* The two codes that routing.rs answers with. *)
LEMMA CodesAreNamed ==
    /\ TryFrom(ErrorCode.MethodNotFound) = Some("MethodNotFound")
    /\ TryFrom(ErrorCode.RequestCancelled) = Some("RequestCancelled")
    /\ ErrorCode.MethodNotFound \in I32 /\ ErrorCode.RequestCancelled \in I32
<1>1. ErrorCode.MethodNotFound = -32601 /\ ErrorCode.RequestCancelled = -32800
  BY DEF ErrorCode
<1>2. "MethodNotFound" \in DOMAIN ErrorCode /\ "RequestCancelled" \in DOMAIN ErrorCode
  BY DEF ErrorCode
<1>3. ErrorCode["MethodNotFound"] \in I32 /\ ErrorCode["RequestCancelled"] \in I32
  BY <1>2, CodesAssumption
<1>. QED  BY <1>1, <1>3 DEF TryFrom

(* The notification of Connection::cancel names the request it is about. *)
LEMMA CancelUnderstood ==
    ASSUME NEW i, IsId(i)
    PROVE  LET m == Notification(CancelRequestMethod, Some(Object([id |-> RequestIdTo(i)])))
               json == MessageTo(m)
           IN  ~Has(json, "id") /\ Understood(json) = <<"cancel", i>>
<1> DEFINE params == Object([id |-> RequestIdTo(i)])
           m == Notification(CancelRequestMethod, Some(params))
           json == MessageTo(m)
<1>1. m.kind = "Notification" /\ m.params = Some(params)
  BY DEF Notification
<1>2. params # Null /\ Is(params, "object") /\ Has(params[2], "id") /\ params[2].id = RequestIdTo(i)
  BY DEF Object, Null, Is, Has
<1>3. IsParams(Some(params))
  BY <1>2 DEF IsParams
<1>4. MessageFrom(json) = Some(m) /\ ~Has(json, "id")
  BY <1>3, NotificationReadsBack
<1> HIDE DEF json, m, params
<1>5. ParseCancelParams(Some(params)) = Some(i)
  <2>1. CASE i[1] = "Integer" /\ i = Integer(i[2]) /\ i[2] \in I32
    BY <2>1, <1>2, OptionFacts DEF RequestIdTo, ParseCancelParams, Number, Is
  <2>2. CASE i[1] = "String" /\ i = StringId(i[2])
    BY <2>2, <1>2, OptionFacts DEF RequestIdTo, ParseCancelParams, String, Is
  <2>. QED  BY <2>1, <2>2 DEF IsId
<1>6. Understood(json) = <<"cancel", i>>
  BY <1>1, <1>4, <1>5, OptionFacts, Zenon DEF Understood, IsKind
<1>. QED  BY <1>4, <1>6 DEF json, m, params

---------------------------------------------------------------------------
(* The inductive invariant *)

(* The frame is a request of this id. *)
Writes(id) == frame # None /\ IsClientRequest(frame[2]) /\ frame[2].id = id
(* The frame is a cancellation of this id. *)
Stops(id) ==
    /\ frame # None /\ Has(frame[2], "method") /\ ~IsClientRequest(frame[2])
    /\ id \in Names(frame[2])
(* The reply on its way is the answer to this id. *)
Answers(id) == reply # None /\ Has(reply[2].json, "id") /\ reply[2].json.id = id

(* What each variable holds; the frame is an object the client may write. *)
Shapes ==
    /\ frame # None => frame = Some(frame[2]) /\ frame[2] \in ClientObjects
    /\ loop \in {"running", "ended"} /\ wellFormed \in BOOLEAN
    /\ reply # None => DOMAIN reply[2] = {"means", "json"}
    /\ heard # None => DOMAIN heard[2] = {"object", "body"}

(* The server's tables: incoming requests have ids that fit, a token each, *)
(* and the connection is not shutting down.                                *)
Tables ==
    /\ queue = [incoming |-> queue.incoming, outgoing |-> queue.outgoing,
                responseMap |-> queue.responseMap, shutdown |-> queue.shutdown]
    /\ queue.shutdown = FALSE
    /\ queue.incoming = [i \in DOMAIN queue.incoming |-> queue.incoming[i]]
    /\ \A i \in DOMAIN queue.incoming : IsId(i) /\ queue.incoming[i] \in BOOLEAN
    /\ queue.outgoing \subseteq Questions /\ queue.responseMap \subseteq Questions

(* A request of the client is in the frame, in the table or answered, and  *)
(* in no two of them: so the answer that arrives closes the request it is  *)
(* for, and the id can be used again.                                      *)
Apart ==
    /\ stopped \subseteq waiting
    /\ \A id : Writes(id) => id \in waiting \ stopped /\ ~Answers(id)
    /\ \A id : Answers(id) => id \in waiting
    /\ \A i \in DOMAIN queue.incoming :
           /\ RequestIdTo(i) \in waiting
           /\ ~Writes(RequestIdTo(i)) /\ ~Answers(RequestIdTo(i))

(* While the client writes valid JSON-RPC, a request it waits for is in    *)
(* one of the three places.                                                *)
Served ==
    wellFormed =>
        /\ loop = "running"
        /\ frame # None => WellFormed(frame[2])
        /\ \A id \in waiting :
               /\ IsRequestId(id) /\ IsJson(id)
               /\ Writes(id) \/ IsPending(queue, RequestIdFrom(id)) \/ Answers(id)

(* And the token of a request in the table is cancelled exactly when the   *)
(* client has cancelled it, unless the cancellation is still in the frame. *)
Tokens ==
    wellFormed => \A i \in DOMAIN queue.incoming :
        RequestIdTo(i) \in stopped <=> (queue.incoming[i] \/ Stops(RequestIdTo(i)))

(* The reply on its way says what the server meant. *)
Meant == reply # None => Understood(reply[2].json) = reply[2].means

Inv == Shapes /\ Tables /\ Apart /\ Served /\ Tokens /\ Meant /\ AnswersUnderstood

---------------------------------------------------------------------------
(* What is read as a request has an id and a method, and the id is one. *)
LEMMA ReadAsRequest ==
    ASSUME NEW object, RequestFrom(object) # None
    PROVE  /\ IsClientRequest(object) /\ IsRequestId(object.id)
           /\ MessageFrom(object) = Some(Request(RequestIdFrom(object.id), object.method[2],
                                                 OptionValue(object, "params")))
  BY DEF RequestFrom, MessageFrom, IsClientRequest, HasMethod

(* What is read as a response has a result or an error, and the body read  *)
(* from them.                                                              *)
LEMMA ReadAsResponse ==
    ASSUME NEW object, RequestFrom(object) = None, ResponseFrom(object) # None
    PROVE  \E id, body :
               /\ MessageFrom(object) = Some(Response(id, body))
               /\ BodyFrom(object) = Some(body)
               /\ Has(object, "result") \/ Has(object, "error")
               /\ id = None \/ id = Some(RequestIdFrom(object.id))
<1>1. /\ BodyFrom(object) # None
      /\ Has(object, "result") \/ Has(object, "error")
      /\ MessageFrom(object) =
             Some(Response(IF NoId(object) THEN None ELSE Some(RequestIdFrom(object.id)),
                           BodyFrom(object)[2]))
  BY DEF ResponseFrom, MessageFrom
<1>2. BodyFrom(object) = Some(BodyFrom(object)[2])
  BY <1>1, OptionFacts DEF BodyFrom
<1>. QED  BY <1>1, <1>2

(* What is read as neither, and yet as a message, is a notification. *)
LEMMA ReadAsNotification ==
    ASSUME NEW object, RequestFrom(object) = None, ResponseFrom(object) = None,
           MessageFrom(object) # None
    PROVE  /\ HasMethod(object)
           /\ MessageFrom(object) = Some(Notification(object.method[2], OptionValue(object, "params")))
  BY DEF NotificationFrom, MessageFrom

(* Valid JSON-RPC 2.0 is always read; what has an id and a method is read  *)
(* as a request, and what has a method never as a response.                *)
LEMMA WellFormedIsRead ==
    ASSUME NEW object, WellFormed(object)
    PROVE  /\ MessageFrom(object) # None
           /\ IsClientRequest(object) => RequestFrom(object) # None
           /\ RequestFrom(object) = None /\ ResponseFrom(object) # None => ~Has(object, "method")
<1>1. CASE Has(object, "method") /\ Has(object, "id")
  <2>1. ~Has(object, "error") /\ IsRequestId(object.id) /\ HasMethod(object) /\ ValidVersion(object)
    BY <1>1 DEF WellFormed, Has
  <2>. QED  BY <1>1, <2>1, OptionFacts DEF RequestFrom, MessageFrom
<1>2. CASE Has(object, "method") /\ ~Has(object, "id")
  <2>1. HasMethod(object) /\ ValidVersion(object) /\ ~Has(object, "result") /\ ~Has(object, "error")
    BY <1>2 DEF WellFormed, Has
  <2>2. ResponseFrom(object) = None
    BY <2>1 DEF ResponseFrom
  <2>. QED  BY <1>2, <2>1, <2>2, OptionFacts DEF NotificationFrom, MessageFrom, IsClientRequest
<1>3. CASE ~Has(object, "method")
  <2>1. ValidVersion(object) /\ Has(object, "id") /\ (Has(object, "result") \/ Has(object, "error"))
    BY <1>3 DEF WellFormed, Has
  <2>2. NoId(object) \/ IsRequestId(object.id)
    BY <2>1 DEF WellFormed, NoId
  <2>3. BodyFrom(object) # None
    <3>1. CASE Has(object, "error")
      <4>1. IsResponseError(object.error) /\ object.error # Null
        BY <3>1 DEF WellFormed, IsResponseError, Is, Null
      <4>. QED  BY <3>1, <4>1, OptionFacts DEF BodyFrom
    <3>. QED  BY <2>1, <3>1, OptionFacts DEF BodyFrom
  <2>4. ResponseFrom(object) # None
    BY <2>1, <2>2, <2>3, OptionFacts DEF ResponseFrom
  <2>. QED  BY <1>3, <2>4 DEF MessageFrom, IsClientRequest
<1>. QED  BY <1>1, <1>2, <1>3

(* Routing a request enters it into the table. *)
LEMMA RouteOfRequest ==
    ASSUME NEW q, NEW id, NEW method, NEW params
    PROVE  Route(q, Request(id, method, params)) =
               Returns(Register(q, id, q.shutdown), <<"Request">>)
<1> DEFINE m == Request(id, method, params)
<1>1. m.kind = "Request" /\ m.id = id
  BY DEF Request
<1> HIDE DEF m
<1>2. Route(q, m) = RouteRequest(q, m)
  BY <1>1, Zenon DEF Route
<1>. QED  BY <1>1, <1>2 DEF m, RouteRequest

(* Routing a notification cancels the request it names, if it is a         *)
(* $/cancelRequest that names one, and does nothing else.                  *)
LEMMA RouteOfNotification ==
    ASSUME NEW q, NEW method, NEW params
    PROVE  LET id == ParseCancelParams(params) IN
           Route(q, Notification(method, params)) =
               IF method = CancelRequestMethod /\ id # None
                 THEN Returns(CancelIncoming(q, id[2]).queue, <<"CancelHandled">>)
                 ELSE Returns(q, <<"Notification">>)
<1> DEFINE m == Notification(method, params)
<1>1. m.kind = "Notification" /\ m.method = method /\ m.params = params
  BY DEF Notification
<1> HIDE DEF m
<1>2. Route(q, m) = RouteNotification(q, m)
  <2>1. m.kind # "Request" /\ m.kind # "Response"
    BY <1>1
  <2>. QED  BY <1>1, <2>1, Zenon DEF Route
<1>. QED  BY <1>1, <1>2 DEF m, RouteNotification

(* Routing a response takes at most one waiter, and leaves the incoming    *)
(* requests alone.                                                         *)
LEMMA RouteOfResponse ==
    ASSUME NEW q, NEW id, NEW body
    PROVE  LET routed == Route(q, Response(id, body)) IN
           \/ /\ routed.queue = q /\ routed.value = <<"ResponseUnknown">>
           \/ /\ routed.queue = [q EXCEPT !.responseMap = @ \ {id[2]}]
              /\ id # None /\ id[2] \in q.responseMap
           \/ /\ routed.queue = [q EXCEPT !.outgoing = @ \ {id[2]}]
              /\ id # None /\ id[2] \in q.outgoing
<1> DEFINE m == Response(id, body)
<1>1. m.kind = "Response" /\ m.id = id
  BY DEF Response
<1> HIDE DEF m
<1>2. Route(q, m) = RouteResponse(q, m)
  <2>1. m.kind # "Request" /\ m.kind # "Notification"
    BY <1>1
  <2>. QED  BY <1>1, <2>1, Zenon DEF Route
<1>3. CASE id = None
  BY <1>1, <1>2, <1>3 DEF m, RouteResponse, Returns
<1>4. CASE id # None
  BY <1>1, <1>2, <1>4 DEF m, RouteResponse, Returns, CompleteOutgoing
<1>. QED  BY <1>3, <1>4

(* parse_cancel_params gives the RequestId of exactly the request whose    *)
(* id, as the client wrote it, the cancellation names: no other id of the  *)
(* table is the same value, and a value that fits no RequestId names none. *)
LEMMA CancelParse ==
    ASSUME NEW object \in ClientObjects, HasMethod(object), NEW i, IsId(i)
    PROVE  RequestIdTo(i) \in Names(object) <=>
               /\ object.method[2] = CancelRequestMethod
               /\ ParseCancelParams(OptionValue(object, "params")) = Some(i)
<1>1. object.method = String(object.method[2])
  BY WireAssumption DEF HasMethod, IsJson, Has
<1>2. object.method = String(CancelRequestMethod) <=> object.method[2] = CancelRequestMethod
  BY <1>1 DEF String
<1> DEFINE params == OptionValue(object, "params")
           named == /\ Has(object, "params") /\ Is(object.params, "object")
                    /\ Has(object.params[2], "id")
<1>3. CASE ~named
  <2>1. ParseCancelParams(params) = None
    BY <1>3, OptionFacts DEF ParseCancelParams, OptionValue
  <2>2. RequestIdTo(i) \notin Names(object)
    BY <1>3 DEF Names
  <2>. QED  BY <2>1, <2>2, OptionFacts
<1>4. CASE named
  <2> DEFINE value == object.params[2].id
  <2>1. IsJson(value)
    BY <1>4, WireAssumption
  <2>2. params = Some(object.params)
    BY <1>4 DEF OptionValue, Is, Null
  <2>3. ParseCancelParams(params) =
          IF Is(value, "number") /\ value[2] \in I32 THEN Some(Integer(value[2]))
          ELSE IF Is(value, "string") THEN Some(StringId(value[2])) ELSE None
    <3>1. /\ params # None /\ Is(params[2], "object") /\ Has(params[2][2], "id")
          /\ params[2][2].id = value
      BY <1>4, <2>2, OptionFacts
    <3> HIDE DEF params, value
    <3>. QED  BY <3>1 DEF ParseCancelParams, Is
  <2>4. ParseCancelParams(params) = Some(i) <=> value = RequestIdTo(i)
    <3> HIDE DEF params, value
    <3>1. CASE i[1] = "Integer" /\ i = Integer(i[2]) /\ i[2] \in I32
      BY <2>1, <2>3, <3>1, OptionFacts
         DEF RequestIdTo, IsJson, Is, Number, String, Integer, StringId, Some, None
    <3>2. CASE i[1] = "String" /\ i = StringId(i[2])
      BY <2>1, <2>3, <3>2, OptionFacts
         DEF RequestIdTo, IsJson, Is, Number, String, Integer, StringId, Some, None
    <3>. QED  BY <3>1, <3>2 DEF IsId
  <2>5. Names(object) = IF object.method = String(CancelRequestMethod) THEN {value} ELSE {}
    BY <1>4 DEF Names
  <2>. QED  BY <1>2, <2>4, <2>5
<1>. QED  BY <1>3, <1>4

---------------------------------------------------------------------------
(* Changing the incoming table leaves the other tables as they are. *)
LEMMA QueueFields ==
    ASSUME Tables, NEW table
    PROVE  [queue EXCEPT !.incoming = table] =
             [incoming |-> table, outgoing |-> queue.outgoing,
              responseMap |-> queue.responseMap, shutdown |-> queue.shutdown]
<1>1. PICK a, b, c, d : queue = [incoming |-> a, outgoing |-> b, responseMap |-> c, shutdown |-> d]
  BY Zenon DEF Tables
<1>. QED  BY <1>1

(* What registering a request, or cancelling its token, does to the        *)
(* tables.                                                                 *)
LEMMA PutFacts ==
    ASSUME Tables, NEW i, IsId(i), NEW token \in BOOLEAN
    PROVE  LET q == Register(queue, i, token) IN
           /\ q.incoming = Put(queue.incoming, i, token)
           /\ q.outgoing = queue.outgoing /\ q.responseMap = queue.responseMap
           /\ DOMAIN q.incoming = DOMAIN queue.incoming \cup {i}
           /\ q.incoming[i] = token
           /\ \A j \in DOMAIN queue.incoming \ {i} : q.incoming[j] = queue.incoming[j]
           /\ queue' = q => Tables'
<1> DEFINE table == Put(queue.incoming, i, token)
<1>1. Register(queue, i, token) =
        [incoming |-> table, outgoing |-> queue.outgoing,
         responseMap |-> queue.responseMap, shutdown |-> queue.shutdown]
  BY QueueFields DEF Register
<1>2. /\ DOMAIN table = DOMAIN queue.incoming \cup {i} /\ table[i] = token
      /\ \A j \in DOMAIN queue.incoming \ {i} : table[j] = queue.incoming[j]
      /\ table = [j \in DOMAIN table |-> table[j]]
  BY DEF Put
<1> HIDE DEF table
<1>3. \A j \in DOMAIN table : IsId(j) /\ table[j] \in BOOLEAN
  BY <1>2 DEF Tables
<1>4. queue' = Register(queue, i, token) => Tables'
  BY <1>1, <1>2, <1>3 DEF Tables
<1>. QED  BY <1>1, <1>2, <1>4 DEF table

(* What completing a request does to the tables. *)
LEMMA RemoveFacts ==
    ASSUME Tables, NEW i
    PROVE  LET q == Complete(queue, i).queue IN
           /\ DOMAIN q.incoming = DOMAIN queue.incoming \ {i}
           /\ \A j \in DOMAIN queue.incoming \ {i} : q.incoming[j] = queue.incoming[j]
           /\ queue' = q => Tables'
<1> DEFINE table == Remove(queue.incoming, i)
<1>1. Complete(queue, i).queue =
        [incoming |-> table, outgoing |-> queue.outgoing,
         responseMap |-> queue.responseMap, shutdown |-> queue.shutdown]
  BY QueueFields DEF Complete, Returns
<1>2. /\ DOMAIN table = DOMAIN queue.incoming \ {i}
      /\ \A j \in DOMAIN queue.incoming \ {i} : table[j] = queue.incoming[j]
      /\ table = [j \in DOMAIN table |-> table[j]]
  BY DEF Remove
<1> HIDE DEF table
<1>3. queue' = Complete(queue, i).queue => Tables'
  BY <1>1, <1>2 DEF Tables
<1>. QED  BY <1>1, <1>2, <1>3

(* Different ids are written differently. *)
LEMMA Injective ==
    ASSUME NEW i, NEW j, IsId(i), IsId(j), RequestIdTo(i) = RequestIdTo(j)
    PROVE  i = j
  BY IdRoundTrip

(* Initially nobody waits. *)
LEMMA InitInv == Init => Inv
<1> SUFFICES ASSUME Init PROVE Inv
  OBVIOUS
<1>1. PICK sent \in SUBSET Questions :
        queue = [NewQueue EXCEPT !.responseMap = sent, !.outgoing = Questions \ sent]
  BY DEF Init
<1>2. queue = [incoming |-> <<>>, outgoing |-> Questions \ sent, responseMap |-> sent, shutdown |-> FALSE]
  BY <1>1 DEF NewQueue
<1>3. DOMAIN queue.incoming = {} /\ queue.incoming = [i \in DOMAIN queue.incoming |-> queue.incoming[i]]
  BY <1>2
<1>4. Tables
  BY <1>2, <1>3 DEF Tables
<1>5. Shapes /\ Meant /\ AnswersUnderstood
  BY DEF Init, Shapes, Meant, AnswersUnderstood
<1>6. Apart /\ Served /\ Tokens
  BY <1>3 DEF Init, Apart, Served, Tokens, Writes, Answers
<1>. QED  BY <1>4, <1>5, <1>6 DEF Inv

(* The client writes an object: a request with an id that is not in use, a *)
(* cancellation, or anything else.                                         *)
LEMMA WriteInv ==
    ASSUME Inv, NEW object \in ClientObjects, Write(object)
    PROVE  Inv'
<1>1. frame = None /\ frame' = Some(object) /\ frame' # None /\ frame'[2] = object
  BY OptionFacts DEF Write
<1>2. UNCHANGED <<loop, queue, reply>> /\ heard' = None /\ loop = "running"
  BY DEF Write
<1>3. \A id : ~Writes(id) /\ ~Stops(id)
  BY <1>1 DEF Writes, Stops
<1>4. \A id : Writes(id)' <=> IsClientRequest(object) /\ object.id = id
  BY <1>1 DEF Writes
<1>5. \A id : Answers(id)' <=> Answers(id)
  BY <1>2 DEF Answers
<1>6. \A id : Stops(id)' <=> Has(object, "method") /\ ~IsClientRequest(object) /\ id \in Names(object)
  BY <1>1 DEF Stops
<1>7. IsClientRequest(object) => object.id \notin waiting
  BY DEF Write
<1>8. waiting' = IF IsClientRequest(object) THEN waiting \cup {object.id} ELSE waiting
  BY DEF Write
<1>9. stopped' = IF Has(object, "method") /\ ~IsClientRequest(object)
                   THEN stopped \cup (Names(object) \cap waiting) ELSE stopped
  BY DEF Write
<1>10. wellFormed' = (wellFormed /\ WellFormed(object))
  BY DEF Write
<1>11. Shapes'
  BY <1>1, <1>2, <1>10 DEF Inv, Shapes
<1>12. Tables' /\ Meant' /\ AnswersUnderstood'
  BY <1>2 DEF Inv, Tables, Meant, AnswersUnderstood
<1>13. Apart'
  BY <1>2, <1>4, <1>5, <1>7, <1>8, <1>9 DEF Inv, Apart
<1>14. Served'
  <2> SUFFICES ASSUME wellFormed'
               PROVE  /\ loop' = "running" /\ WellFormed(frame'[2])
                      /\ \A id \in waiting' :
                            /\ IsRequestId(id) /\ IsJson(id)
                            /\ Writes(id)' \/ IsPending(queue, RequestIdFrom(id))' \/ Answers(id)'
    BY DEF Served
  <2>1. wellFormed /\ WellFormed(object)
    BY <1>10
  <2>2. IsClientRequest(object) => IsRequestId(object.id) /\ IsJson(object.id)
    BY <2>1, WireAssumption DEF WellFormed, IsClientRequest, Has
  <2>3. \A id \in waiting : /\ IsRequestId(id) /\ IsJson(id)
                            /\ IsPending(queue, RequestIdFrom(id)) \/ Answers(id)
    BY <1>3, <2>1 DEF Inv, Served
  <2>4. ASSUME NEW id \in waiting
        PROVE  /\ IsRequestId(id) /\ IsJson(id)
               /\ IsPending(queue, RequestIdFrom(id))' \/ Answers(id)'
    BY <1>2, <1>5, <2>3 DEF IsPending
  <2>. QED  BY <1>1, <1>2, <1>4, <1>8, <2>1, <2>2, <2>4
<1>15. Tokens'
  <2> SUFFICES ASSUME wellFormed', NEW i \in DOMAIN queue.incoming
               PROVE  (RequestIdTo(i) \in stopped)' <=> queue.incoming[i]' \/ Stops(RequestIdTo(i))'
    BY <1>2 DEF Tokens
  <2>1. RequestIdTo(i) \in waiting /\ (RequestIdTo(i) \in stopped <=> queue.incoming[i])
    BY <1>3, <1>10 DEF Inv, Apart, Tokens
  <2>. QED  BY <1>2, <1>6, <1>9, <2>1
<1>. QED  BY <1>11, <1>12, <1>13, <1>14, <1>15 DEF Inv

(* The client reads a reply, and waits no longer for the request it        *)
(* answers.                                                                *)
LEMMA ReadReplyInv ==
    ASSUME Inv, ReadReply
    PROVE  Inv'
<1>1. UNCHANGED <<frame, wellFormed, loop, queue, heard>> /\ reply' = None
  BY DEF ReadReply
<1>2. \A id : (Writes(id)' <=> Writes(id)) /\ (Stops(id)' <=> Stops(id)) /\ ~Answers(id)'
  BY <1>1 DEF Writes, Stops, Answers
<1>3. \A id : id \in waiting' <=> id \in waiting /\ ~Answers(id)
  BY DEF ReadReply, Answers
<1>4. \A id : id \in stopped' <=> id \in stopped /\ id \in waiting'
  BY DEF ReadReply
<1>5. Shapes' /\ Tables' /\ Meant' /\ AnswersUnderstood'
  BY <1>1 DEF Inv, Shapes, Tables, Meant, AnswersUnderstood
<1>6. Apart'
  BY <1>1, <1>2, <1>3, <1>4 DEF Inv, Apart
<1>7. Served'
  <2>1. ASSUME wellFormed, NEW id \in waiting, ~Answers(id)
        PROVE  /\ IsRequestId(id) /\ IsJson(id)
               /\ Writes(id)' \/ IsPending(queue, RequestIdFrom(id))'
    BY <1>1, <1>2, <2>1 DEF Inv, Served, IsPending
  <2>. QED  BY <1>1, <1>3, <2>1 DEF Inv, Served
<1>8. Tokens'
  BY <1>1, <1>2, <1>3, <1>4 DEF Inv, Tokens, Apart
<1>. QED  BY <1>5, <1>6, <1>7, <1>8 DEF Inv

(* An object that cannot be read ends the loop; the client had written     *)
(* something invalid.                                                      *)
LEMMA ReadErrorInv ==
    ASSUME Inv, ReadError
    PROVE  Inv'
<1>1. frame # None /\ MessageFrom(frame[2]) = None /\ frame' = None /\ loop' = "ended"
  BY DEF ReadError, Received
<1>2. UNCHANGED <<waiting, stopped, wellFormed, queue, reply, heard>>
  BY DEF ReadError, clientVars
<1>3. ~wellFormed
  BY <1>1, WellFormedIsRead DEF Inv, Served
<1>4. \A id : ~Writes(id)' /\ (Answers(id)' <=> Answers(id))
  BY <1>1, <1>2 DEF Writes, Answers
<1>5. Shapes' /\ Tables' /\ Meant' /\ AnswersUnderstood'
  BY <1>1, <1>2 DEF Inv, Shapes, Tables, Meant, AnswersUnderstood
<1>6. Apart' /\ Served' /\ Tokens'
  BY <1>2, <1>3, <1>4 DEF Inv, Apart, Served, Tokens
<1>. QED  BY <1>5, <1>6 DEF Inv

(* What every case of ReadMessage has in common. *)
LEMMA Untouched ==
    ASSUME Inv, ReadMessage
    PROVE  /\ frame # None /\ frame' = None
           /\ frame[2] \in ClientObjects
           /\ UNCHANGED <<waiting, stopped, wellFormed, loop, reply>>
           /\ \A id : ~Writes(id)' /\ ~Stops(id)' /\ (Answers(id)' <=> Answers(id))
           /\ Meant'
<1>1. /\ frame # None /\ frame' = None
      /\ UNCHANGED <<waiting, stopped, wellFormed, loop, reply>>
  BY DEF ReadMessage, clientVars
<1>2. frame[2] \in ClientObjects
  BY <1>1 DEF Inv, Shapes
<1>3. \A id : ~Writes(id)' /\ ~Stops(id)' /\ (Answers(id)' <=> Answers(id))
  BY <1>1 DEF Writes, Stops, Answers
<1>4. Meant'
  BY <1>1 DEF Inv, Meant
<1>. QED  BY <1>1, <1>2, <1>3, <1>4

(* A request leaves the frame for the table, with a fresh token. *)
LEMMA ReadRequestInv ==
    ASSUME Inv, ReadMessage, RequestFrom(frame[2]) # None
    PROVE  Inv'
<1> DEFINE o == frame[2]
           i == RequestIdFrom(o.id)
           m == Request(i, o.method[2], OptionValue(o, "params"))
<1>1. /\ frame # None /\ frame' = None /\ o \in ClientObjects
      /\ UNCHANGED <<waiting, stopped, wellFormed, loop, reply>>
      /\ \A id : ~Writes(id)' /\ ~Stops(id)' /\ (Answers(id)' <=> Answers(id))
      /\ Meant'
  BY Untouched
<1>2. IsClientRequest(o) /\ IsRequestId(o.id) /\ MessageFrom(o) = Some(m)
  BY ReadAsRequest
<1>3. IsJson(o.id)
  BY <1>1, <1>2, WireAssumption DEF IsClientRequest, Has
<1>4. IsId(i) /\ RequestIdTo(i) = o.id
  BY <1>2, <1>3, ValueRoundTrip
<1>5. \A id : Writes(id) <=> id = o.id
  BY <1>1, <1>2 DEF Writes
<1> HIDE DEF i
<1>6. queue' = Register(queue, i, FALSE) /\ heard' = None
  <2>1. Received[2] = m
    BY <1>2, OptionFacts DEF Received
  <2>2. Route(queue, m) = Returns(Register(queue, i, queue.shutdown), <<"Request">>)
    BY RouteOfRequest
  <2>3. /\ Route(queue, m).queue = Register(queue, i, FALSE)
        /\ Route(queue, m).value[1] = "Request"
    <3>1. queue.shutdown = FALSE
      BY DEF Inv, Tables
    <3>2. /\ Route(queue, m).queue = Register(queue, i, queue.shutdown)
          /\ Route(queue, m).value[1] = "Request"
      BY <2>2 DEF Returns
    <3>. QED  BY <3>1, <3>2, Zenon
  <2> HIDE DEF m
  <2>. QED  BY <2>1, <2>3 DEF ReadMessage
<1>7. Tables
  BY DEF Inv
<1>8. /\ DOMAIN queue'.incoming = DOMAIN queue.incoming \cup {i}
      /\ queue'.incoming[i] = FALSE
      /\ \A j \in DOMAIN queue.incoming \ {i} : queue'.incoming[j] = queue.incoming[j]
      /\ Tables'
  BY <1>4, <1>6, <1>7, PutFacts
<1>9. o.id \in waiting /\ o.id \notin stopped /\ ~Answers(o.id)
  BY <1>5 DEF Inv, Apart
<1>10. \A j \in DOMAIN queue.incoming : RequestIdTo(j) \in waiting /\ ~Answers(RequestIdTo(j)) /\ j # i
  BY <1>4, <1>5 DEF Inv, Apart
<1>11. Shapes' /\ AnswersUnderstood'
  BY <1>1, <1>6 DEF Inv, Shapes, AnswersUnderstood
<1>12. Apart'
  BY <1>1, <1>4, <1>8, <1>9, <1>10 DEF Inv, Apart
<1>13. Served'
  <2> SUFFICES ASSUME wellFormed, NEW id \in waiting
               PROVE  /\ IsRequestId(id) /\ IsJson(id)
                      /\ IsPending(queue, RequestIdFrom(id))' \/ Answers(id)
    BY <1>1 DEF Inv, Served
  <2>1. /\ IsRequestId(id) /\ IsJson(id)
        /\ Writes(id) \/ IsPending(queue, RequestIdFrom(id)) \/ Answers(id)
    BY DEF Inv, Served
  <2>2. CASE id = o.id
    <3>1. RequestIdFrom(id) = i
      BY <2>2 DEF i
    <3>. QED  BY <1>8, <2>1, <3>1 DEF IsPending
  <2>3. CASE id # o.id
    BY <1>5, <1>8, <2>1, <2>3 DEF IsPending
  <2>. QED  BY <2>2, <2>3
<1>14. Tokens'
  <2> SUFFICES ASSUME wellFormed, NEW j \in DOMAIN queue'.incoming
               PROVE  RequestIdTo(j) \in stopped <=> queue'.incoming[j]
    BY <1>1 DEF Tokens
  <2>1. CASE j = i
    BY <1>4, <1>8, <1>9, <2>1
  <2>2. CASE j # i
    <3>1. j \in DOMAIN queue.incoming /\ queue'.incoming[j] = queue.incoming[j]
      BY <1>8, <2>2
    <3>2. ~Stops(RequestIdTo(j))
      BY <1>2 DEF Stops
    <3>. QED  BY <3>1, <3>2 DEF Inv, Tokens
  <2>. QED  BY <2>1, <2>2
<1>. QED  BY <1>1, <1>8, <1>11, <1>12, <1>13, <1>14 DEF Inv

(* The body of a response is the error the client wrote, if there is one   *)
(* that is not null, and else the result.                                  *)
LEMMA BodyIsWritten ==
    ASSUME NEW object \in ClientObjects, NEW body, BodyFrom(object) = Some(body)
    PROVE  IF Has(object, "error") /\ object.error # Null
             THEN body[1] = "Error" /\ ResponseErrorTo(body[2]) = object.error
             ELSE body = Success(object.result)
<1>1. CASE Has(object, "error") /\ object.error # Null
  <2> DEFINE value == object.error
             error == ResponseErrorFrom(value)
  <2>1. IsResponseError(value) /\ Some(Failure(error)) = Some(body)
    BY <1>1, OptionFacts DEF BodyFrom
  <2>2. body = Failure(error)
    BY <2>1, OptionFacts
  <2>3. IsBareError(value)
    BY <1>1, <2>1, WireAssumption
  <2>4. value[2].code = Number(value[2].code[2])
    BY <2>1, <2>3 DEF IsResponseError, IsBareError, IsJson
  <2>5. error.code = value[2].code[2] /\ error.data = OptionValue(value[2], "data")
    BY DEF ResponseErrorFrom, ResponseError
  <2> DEFINE fields == value[2]
  <2>6. ResponseErrorTo(error) = Object(fields)
    <3> HIDE DEF error
    <3>1. CASE Has(fields, "data")
      <4>1. error.data = Some(fields.data) /\ error.data # None
        BY <2>3, <2>5, <3>1, OptionFacts DEF OptionValue, IsBareError
      <4>2. DOMAIN fields = {"code", "message", "data"}
        BY <2>3, <3>1 DEF IsBareError, Has
      <4>3. fields = [code |-> fields.code, message |-> fields.message, data |-> fields.data]
        BY <2>3, <4>2 DEF IsBareError
      <4>. QED  BY <2>3, <2>4, <2>5, <4>1, <4>3, OptionFacts DEF ResponseErrorTo, IsBareError
    <3>2. CASE ~Has(fields, "data")
      <4>1. error.data = None
        BY <2>5, <3>2 DEF OptionValue
      <4>2. DOMAIN fields = {"code", "message"}
        BY <2>3, <3>2 DEF IsBareError, Has
      <4>3. fields = [code |-> fields.code, message |-> fields.message]
        BY <2>3, <4>2 DEF IsBareError
      <4>. QED  BY <2>3, <2>4, <2>5, <4>1, <4>3 DEF ResponseErrorTo, IsBareError
    <3>. QED  BY <3>1, <3>2
  <2>7. value = Object(fields)
    BY <2>3 DEF IsBareError
  <2> HIDE DEF error, fields, value
  <2>8. body[1] = "Error" /\ body[2] = error
    BY <2>2 DEF Failure
  <2>. QED  BY <1>1, <2>6, <2>7, <2>8 DEF value
<1>2. CASE ~(Has(object, "error") /\ object.error # Null)
  <2>1. Some(Success(object.result)) = Some(body)
    BY <1>2, OptionFacts DEF BodyFrom
  <2>. QED  BY <1>2, <2>1, OptionFacts
<1>. QED  BY <1>1, <1>2

(* A response goes to its waiter, or to nobody. *)
LEMMA ReadResponseInv ==
    ASSUME Inv, ReadMessage, RequestFrom(frame[2]) = None, ResponseFrom(frame[2]) # None
    PROVE  Inv'
<1> DEFINE o == frame[2]
<1>1. /\ frame # None /\ frame' = None /\ o \in ClientObjects
      /\ UNCHANGED <<waiting, stopped, wellFormed, loop, reply>>
      /\ \A id : ~Writes(id)' /\ ~Stops(id)' /\ (Answers(id)' <=> Answers(id))
      /\ Meant'
  BY Untouched
<1>2. PICK id, body : MessageFrom(o) = Some(Response(id, body)) /\ BodyFrom(o) = Some(body)
  BY ReadAsResponse
<1> DEFINE m == Response(id, body)
           routed == Route(queue, m)
<1>3. Received[2] = m
  BY <1>2, OptionFacts DEF Received
<1>4. /\ queue' = routed.queue
      /\ heard' = IF routed.value[1] = "ResponseRouted"
                    THEN Some([object |-> o, body |-> m.body]) ELSE None
  BY <1>3 DEF ReadMessage
<1>5. m.body = body
  BY DEF Response
<1>6. queue' = queue \/ queue' = [queue EXCEPT !.responseMap = @ \ {id[2]}]
                     \/ queue' = [queue EXCEPT !.outgoing = @ \ {id[2]}]
  BY <1>4, RouteOfResponse
<1> HIDE DEF m, routed
<1>7. Tables' /\ queue'.incoming = queue.incoming
  <2>1. Tables
    BY DEF Inv
  <2>2. PICK a, b, c, d : queue = [incoming |-> a, outgoing |-> b, responseMap |-> c, shutdown |-> d]
    BY <2>1, Zenon DEF Tables
  <2>3. /\ queue.incoming = a /\ queue.outgoing = b /\ queue.responseMap = c /\ queue.shutdown = d
        /\ DOMAIN queue.incoming = DOMAIN a
    BY <2>2
  <2>4. PICK b2, c2 : /\ queue' = [incoming |-> a, outgoing |-> b2, responseMap |-> c2, shutdown |-> d]
                      /\ b2 \subseteq b /\ c2 \subseteq c
    <3>1. CASE queue' = queue
      BY <2>2, <3>1
    <3>2. CASE queue' = [queue EXCEPT !.responseMap = @ \ {id[2]}]
      <4>1. queue' = [incoming |-> a, outgoing |-> b, responseMap |-> c \ {id[2]}, shutdown |-> d]
        BY <2>2, <3>2
      <4>. QED  BY <4>1
    <3>3. CASE queue' = [queue EXCEPT !.outgoing = @ \ {id[2]}]
      <4>1. queue' = [incoming |-> a, outgoing |-> b \ {id[2]}, responseMap |-> c, shutdown |-> d]
        BY <2>2, <3>3
      <4>. QED  BY <4>1
    <3>. QED  BY <1>6, <3>1, <3>2, <3>3
  <2>5. /\ queue'.incoming = a /\ queue'.outgoing = b2 /\ queue'.responseMap = c2
        /\ queue'.shutdown = d
    BY <2>4
  <2>6. queue' = [incoming |-> queue'.incoming, outgoing |-> queue'.outgoing,
                  responseMap |-> queue'.responseMap, shutdown |-> queue'.shutdown]
    BY <2>4, <2>5
  <2>7. /\ d = FALSE /\ a = [i \in DOMAIN a |-> a[i]]
        /\ \A i \in DOMAIN a : IsId(i) /\ a[i] \in BOOLEAN
        /\ b \subseteq Questions /\ c \subseteq Questions
    BY <2>1, <2>3, Zenon DEF Tables
  <2>8. Tables'
    BY <2>4, <2>5, <2>6, <2>7 DEF Tables
  <2>. QED  BY <2>3, <2>5, <2>8
<1>8. AnswersUnderstood' /\ Shapes'
  <2>1. heard' = None \/ heard' = Some([object |-> o, body |-> body])
    BY <1>4, <1>5
  <2>2. CASE heard' = None
    BY <1>1, <2>2 DEF AnswersUnderstood, Inv, Shapes
  <2>3. CASE heard' = Some([object |-> o, body |-> body])
    <3>1. heard'[2].object = o /\ heard'[2].body = body /\ DOMAIN heard'[2] = {"object", "body"}
      BY <2>3, OptionFacts
    <3>2. AnswersUnderstood'
      BY <1>1, <1>2, <3>1, BodyIsWritten DEF AnswersUnderstood
    <3>. QED  BY <1>1, <3>1, <3>2 DEF Inv, Shapes
  <2>. QED  BY <2>1, <2>2, <2>3
<1>9. Apart'
  BY <1>1, <1>7 DEF Inv, Apart
<1>10. ASSUME wellFormed
       PROVE  \A v : ~Writes(v) /\ ~Stops(v)
  <2>1. ~Has(o, "method")
    BY <1>1, <1>10, WellFormedIsRead DEF Inv, Served
  <2>. QED  BY <2>1 DEF Writes, Stops, IsClientRequest
<1>11. Served'
  <2> SUFFICES ASSUME wellFormed, NEW v \in waiting
               PROVE  /\ IsRequestId(v) /\ IsJson(v)
                      /\ IsPending(queue, RequestIdFrom(v))' \/ Answers(v)
    BY <1>1 DEF Inv, Served
  <2>. QED  BY <1>7, <1>10 DEF Inv, Served, IsPending
<1>12. Tokens'
  BY <1>1, <1>7, <1>10 DEF Inv, Tokens
<1>. QED  BY <1>1, <1>7, <1>8, <1>9, <1>11, <1>12 DEF Inv

(* A notification that cancels a request cancels the token of the one it   *)
(* names.                                                                  *)
LEMMA ReadNotificationInv ==
    ASSUME Inv, ReadMessage, RequestFrom(frame[2]) = None, ResponseFrom(frame[2]) = None
    PROVE  Inv'
<1> DEFINE o == frame[2]
           m == Notification(o.method[2], OptionValue(o, "params"))
           parsed == ParseCancelParams(OptionValue(o, "params"))
           cancels == o.method[2] = CancelRequestMethod /\ parsed # None
<1>1. /\ frame # None /\ frame' = None /\ o \in ClientObjects
      /\ UNCHANGED <<waiting, stopped, wellFormed, loop, reply>>
      /\ \A id : ~Writes(id)' /\ ~Stops(id)' /\ (Answers(id)' <=> Answers(id))
      /\ Meant'
  BY Untouched
<1>2. HasMethod(o) /\ MessageFrom(o) = Some(m)
  BY ReadAsNotification DEF ReadMessage, Received
<1>3. Received[2] = m
  BY <1>2, OptionFacts DEF Received
<1>4. Route(queue, m) = IF cancels
                          THEN Returns(CancelIncoming(queue, parsed[2]).queue, <<"CancelHandled">>)
                          ELSE Returns(queue, <<"Notification">>)
  BY RouteOfNotification
<1> HIDE DEF m, parsed
<1>5. /\ queue' = IF cancels THEN CancelIncoming(queue, parsed[2]).queue ELSE queue
      /\ heard' = None
  <2>1. /\ Route(queue, m).queue = IF cancels THEN CancelIncoming(queue, parsed[2]).queue ELSE queue
        /\ Route(queue, m).value[1] # "ResponseRouted"
    BY <1>4 DEF Returns
  <2>. QED  BY <1>3, <2>1 DEF ReadMessage
<1> DEFINE j == parsed[2]
           hits == cancels /\ j \in DOMAIN queue.incoming
<1>6. queue' = IF hits THEN Register(queue, j, TRUE) ELSE queue
  BY <1>5 DEF CancelIncoming, IsPending, Returns
<1>7. Tables
  BY DEF Inv
<1>8. /\ Tables' /\ DOMAIN queue'.incoming = DOMAIN queue.incoming
      /\ \A i \in DOMAIN queue.incoming :
             queue'.incoming[i] <=> (queue.incoming[i] \/ (hits /\ i = j))
  <2>1. CASE hits
    <3>1. IsId(j) /\ j \in DOMAIN queue.incoming
      BY <2>1 DEF Inv, Tables
    <3>2. queue' = Register(queue, j, TRUE)
      BY <1>6, <2>1
    <3> HIDE DEF j
    <3>3. /\ Tables' /\ DOMAIN queue'.incoming = DOMAIN queue.incoming \cup {j}
          /\ queue'.incoming[j] = TRUE
          /\ \A i \in DOMAIN queue.incoming \ {j} : queue'.incoming[i] = queue.incoming[i]
      BY <1>7, <3>1, <3>2, PutFacts
    <3>. QED  BY <2>1, <3>1, <3>3
  <2>2. CASE ~hits
    <3>1. queue' = queue
      BY <1>6, <2>2
    <3>. QED  BY <1>7, <2>2, <3>1 DEF Tables
  <2>. QED  BY <2>1, <2>2
<1>9. Shapes' /\ AnswersUnderstood'
  BY <1>1, <1>5 DEF Inv, Shapes, AnswersUnderstood
<1>10. Apart'
  BY <1>1, <1>8 DEF Inv, Apart
<1>11. ASSUME wellFormed
       PROVE  ~IsClientRequest(o)
  BY <1>1, <1>11, WellFormedIsRead DEF Inv, Served
<1>12. Served'
  <2> SUFFICES ASSUME wellFormed, NEW v \in waiting
               PROVE  /\ IsRequestId(v) /\ IsJson(v)
                      /\ IsPending(queue, RequestIdFrom(v))' \/ Answers(v)
    BY <1>1 DEF Inv, Served
  <2>1. ~Writes(v)
    BY <1>11 DEF Writes
  <2>. QED  BY <1>8, <2>1 DEF Inv, Served, IsPending
<1>13. Tokens'
  <2> SUFFICES ASSUME wellFormed, NEW i \in DOMAIN queue.incoming
               PROVE  RequestIdTo(i) \in stopped <=> queue'.incoming[i]
    BY <1>1, <1>8 DEF Tokens
  <2>1. IsId(i)
    BY <1>7 DEF Tables
  <2>2. RequestIdTo(i) \in Names(o) <=> o.method[2] = CancelRequestMethod /\ parsed = Some(i)
    BY <1>1, <1>2, <2>1, CancelParse DEF parsed
  <2>3. RequestIdTo(i) \in Names(o) <=> hits /\ i = j
    <3>1. parsed = None \/ parsed = Some(parsed[2])
      BY OptionFacts DEF parsed, ParseCancelParams
    <3>. QED  BY <2>2, <3>1, OptionFacts
  <2>4. Stops(RequestIdTo(i)) <=> RequestIdTo(i) \in Names(o)
    BY <1>1, <1>2, <1>11 DEF Stops, HasMethod
  <2>5. RequestIdTo(i) \in stopped <=> (queue.incoming[i] \/ Stops(RequestIdTo(i)))
    BY DEF Inv, Tokens
  <2>. QED  BY <1>8, <2>3, <2>4, <2>5
<1>. QED  BY <1>1, <1>8, <1>9, <1>10, <1>12, <1>13 DEF Inv

(* A handler answers: the request leaves the table, and the reply carries  *)
(* its id.                                                                 *)
LEMMA RespondInv ==
    ASSUME Inv, NEW i \in DOMAIN queue.incoming, Respond(i)
    PROVE  Inv'
<1>1. /\ loop = "running" /\ reply = None
      /\ UNCHANGED <<frame, waiting, stopped, wellFormed, loop, heard>>
      /\ queue' = Complete(queue, i).queue
  BY DEF Respond, clientVars
<1>2. Tables /\ IsId(i)
  BY DEF Inv, Tables
<1>3. PICK means, json : /\ reply' = Some([means |-> means, json |-> json])
                         /\ Has(json, "id") /\ json.id = RequestIdTo(i)
                         /\ Understood(json) = means
  <2>1. CASE SendClient(<<"result">>, ResponseOk(i, Null))
    BY <1>2, <2>1, OkUnderstood DEF SendClient
  <2>2. CASE SendClient(<<"MethodNotFound">>, MethodNotFoundResponse(i))
    BY <1>2, <2>2, ErrUnderstood, CodesAreNamed DEF SendClient, MethodNotFoundResponse
  <2>3. CASE SendClient(<<"RequestCancelled">>, CancelledResponse(i))
    BY <1>2, <2>3, ErrUnderstood, CodesAreNamed DEF SendClient, CancelledResponse
  <2>. QED  BY <2>1, <2>2, <2>3 DEF Respond
<1>4. /\ DOMAIN queue'.incoming = DOMAIN queue.incoming \ {i}
      /\ \A j \in DOMAIN queue.incoming \ {i} : queue'.incoming[j] = queue.incoming[j]
      /\ Tables'
  BY <1>1, <1>2, RemoveFacts
<1>5. /\ reply' # None /\ reply'[2].json = json /\ reply'[2].means = means
      /\ DOMAIN reply'[2] = {"means", "json"}
  BY <1>3, OptionFacts
<1>6. \A id : /\ Writes(id)' <=> Writes(id)
              /\ Stops(id)' <=> Stops(id)
              /\ ~Answers(id) /\ (Answers(id)' <=> id = RequestIdTo(i))
  BY <1>1, <1>3, <1>5 DEF Writes, Stops, Answers
<1>7. Shapes' /\ Meant' /\ AnswersUnderstood'
  BY <1>1, <1>3, <1>5 DEF Inv, Shapes, Meant, AnswersUnderstood
<1>8. Apart'
  <2>1. \A j \in DOMAIN queue.incoming \ {i} : RequestIdTo(j) # RequestIdTo(i)
    BY <1>2, Injective DEF Tables
  <2>. QED  BY <1>1, <1>4, <1>6, <2>1 DEF Inv, Apart
<1>9. Served'
  <2> SUFFICES ASSUME wellFormed, NEW id \in waiting
               PROVE  /\ IsRequestId(id) /\ IsJson(id)
                      /\ Writes(id)' \/ IsPending(queue, RequestIdFrom(id))' \/ Answers(id)'
    BY <1>1 DEF Inv, Served
  <2>1. /\ IsRequestId(id) /\ IsJson(id)
        /\ Writes(id) \/ IsPending(queue, RequestIdFrom(id))
    BY <1>6 DEF Inv, Served
  <2>2. RequestIdTo(RequestIdFrom(id)) = id
    BY <2>1, ValueRoundTrip
  <2>. QED  BY <1>4, <1>6, <2>1, <2>2 DEF IsPending
<1>10. Tokens'
  BY <1>1, <1>4, <1>6 DEF Inv, Tokens
<1>. QED  BY <1>4, <1>7, <1>8, <1>9, <1>10 DEF Inv

(* The server cancels a request of its own. *)
LEMMA CancelInv ==
    ASSUME Inv, NEW i \in queue.outgoing, Cancel(i)
    PROVE  Inv'
<1>1. /\ reply = None
      /\ UNCHANGED <<frame, waiting, stopped, wellFormed, loop, heard>>
      /\ queue' = [queue EXCEPT !.outgoing = @ \ {i}]
  BY DEF Cancel, clientVars, CancelOutgoing, Returns
<1>2. Tables /\ IsId(i)
  BY WireAssumption DEF Inv, Tables
<1> DEFINE m == Notification(CancelRequestMethod, Some(Object([id |-> RequestIdTo(i)])))
           json == MessageTo(m)
<1>3. reply' = Some([means |-> <<"cancel", i>>, json |-> json])
  BY DEF Cancel, SendClient, CancelOutgoing, Returns
<1>4. ~Has(json, "id") /\ Understood(json) = <<"cancel", i>>
  BY <1>2, CancelUnderstood
<1> HIDE DEF json
<1>5. /\ reply' # None /\ reply'[2].json = json /\ reply'[2].means = <<"cancel", i>>
      /\ DOMAIN reply'[2] = {"means", "json"}
  BY <1>3, OptionFacts
<1>6. Tables' /\ queue'.incoming = queue.incoming
  <2>1. PICK a, b, c, d : queue = [incoming |-> a, outgoing |-> b, responseMap |-> c, shutdown |-> d]
    BY <1>2, Zenon DEF Tables
  <2>2. /\ queue.incoming = a /\ queue.outgoing = b /\ queue.responseMap = c /\ queue.shutdown = d
        /\ DOMAIN queue.incoming = DOMAIN a
    BY <2>1
  <2>3. queue' = [incoming |-> a, outgoing |-> b \ {i}, responseMap |-> c, shutdown |-> d]
    BY <1>1, <2>1
  <2>4. /\ queue'.incoming = a /\ queue'.outgoing = b \ {i} /\ queue'.responseMap = c
        /\ queue'.shutdown = d
    BY <2>3
  <2>5. queue' = [incoming |-> queue'.incoming, outgoing |-> queue'.outgoing,
                  responseMap |-> queue'.responseMap, shutdown |-> queue'.shutdown]
    BY <2>3, <2>4
  <2>6. /\ d = FALSE /\ a = [j \in DOMAIN a |-> a[j]]
        /\ \A j \in DOMAIN a : IsId(j) /\ a[j] \in BOOLEAN
        /\ b \subseteq Questions /\ c \subseteq Questions
    BY <1>2, <2>2, Zenon DEF Tables
  <2>7. Tables'
    BY <2>4, <2>5, <2>6 DEF Tables
  <2>. QED  BY <2>2, <2>4, <2>7
<1>7. \A id : /\ Writes(id)' <=> Writes(id)
              /\ Stops(id)' <=> Stops(id)
              /\ ~Answers(id) /\ ~Answers(id)'
  BY <1>1, <1>4, <1>5 DEF Writes, Stops, Answers
<1>8. Shapes' /\ Meant' /\ AnswersUnderstood'
  BY <1>1, <1>4, <1>5 DEF Inv, Shapes, Meant, AnswersUnderstood
<1>9. Apart' /\ Tokens'
  BY <1>1, <1>6, <1>7 DEF Inv, Apart, Tokens
<1>10. Served'
  <2> SUFFICES ASSUME wellFormed, NEW id \in waiting
               PROVE  /\ IsRequestId(id) /\ IsJson(id)
                      /\ Writes(id)' \/ IsPending(queue, RequestIdFrom(id))'
    BY <1>1 DEF Inv, Served
  <2>. QED  BY <1>6, <1>7 DEF Inv, Served, IsPending
<1>. QED  BY <1>6, <1>8, <1>9, <1>10 DEF Inv

(* Every step of the specification preserves the invariant. *)
LEMMA NextInv == Inv /\ [Next]_vars => Inv'
<1> SUFFICES ASSUME Inv, [Next]_vars PROVE Inv'
  OBVIOUS
<1>1. CASE \E object \in ClientObjects : Write(object)
  BY <1>1, WriteInv
<1>2. CASE ReadReply
  BY <1>2, ReadReplyInv
<1>3. CASE ReadError
  BY <1>3, ReadErrorInv
<1>4. CASE ReadMessage
  BY <1>4, ReadRequestInv, ReadResponseInv, ReadNotificationInv
<1>5. CASE \E i \in DOMAIN queue.incoming : Respond(i)
  BY <1>5, RespondInv
<1>6. CASE \E i \in queue.outgoing : Cancel(i)
  BY <1>6, CancelInv
<1>7. CASE UNCHANGED vars
  <2>1. UNCHANGED <<frame, waiting, stopped, wellFormed, loop, queue, reply, heard>>
    BY <1>7 DEF vars, clientVars
  <2>2. \A id : /\ Writes(id)' <=> Writes(id)
                /\ Stops(id)' <=> Stops(id)
                /\ Answers(id)' <=> Answers(id)
    BY <2>1 DEF Writes, Stops, Answers
  <2>. QED
    BY <2>1, <2>2 DEF Inv, Shapes, Tables, Apart, Served, Tokens, Meant, AnswersUnderstood, IsPending
<1>. QED  BY <1>1, <1>2, <1>3, <1>4, <1>5, <1>6, <1>7 DEF Next

---------------------------------------------------------------------------
(* The inductive invariant of Wire: every request of the client is in      *)
(* exactly one place, known there by the same id.                          *)
THEOREM WireInvariant == Spec => []Inv
  BY InitInv, NextInv, PTL DEF Spec

(* The ids of the incoming table fit an i32 or are strings, its tokens are *)
(* booleans, and the client has cancelled only what it waits for.          *)
THEOREM WireTypes == Spec => []TypeOK
<1>1. Inv => TypeOK
  <2> SUFFICES ASSUME Inv PROVE TypeOK
    OBVIOUS
  <2>1. frame = None \/ DOMAIN frame[2] \subseteq Keys
    BY WireAssumption DEF Inv, Shapes
  <2>2. \A i \in DOMAIN queue.incoming :
           /\ i[1] = "Integer" => i[2] \in I32
           /\ queue.incoming[i] \in BOOLEAN
    BY DEF Inv, Tables, IsId
  <2>. QED  BY <2>1, <2>2 DEF TypeOK, Inv, Shapes, Tables, Apart
<1>. QED  BY <1>1, WireInvariant, PTL

(* A reply carries the id of an open request exactly as the client wrote   *)
(* it, and the client understands what the handler meant; a cancellation   *)
(* names the request the server cancelled.                                 *)
THEOREM RepliesMeanWhatWasMeant == Spec => []RepliesUnderstood
<1>1. Inv => RepliesUnderstood
  BY DEF Inv, Apart, Meant, Answers, RepliesUnderstood
<1>. QED  BY <1>1, WireInvariant, PTL

(* A client that writes valid JSON-RPC 2.0 never ends the server's loop,   *)
(* and each request it waits for is in the IncomingRequests table or       *)
(* answered.                                                               *)
THEOREM WellFormedIsServed == Spec => []WellFormedServed
<1>1. Inv => WellFormedServed
  BY DEF Inv, Served, Answers, Writes, WellFormedServed
<1>. QED  BY <1>1, WireInvariant, PTL

(* A $/cancelRequest cancels the token of the request it names, whose id   *)
(* was read by other code, and of no other request.                        *)
THEOREM CancellationsReach == Spec => []CancelReaches
<1>1. Inv => CancelReaches
  <2> SUFFICES ASSUME Inv, wellFormed, frame = None, NEW id \in waiting,
                      IsPending(queue, RequestIdFrom(id))
               PROVE  GetToken(queue, RequestIdFrom(id)) = Some(TRUE) <=> id \in stopped
    BY DEF CancelReaches
  <2> DEFINE i == RequestIdFrom(id)
  <2>1. IsRequestId(id) /\ IsJson(id)
    BY DEF Inv, Served
  <2>2. RequestIdTo(i) = id
    BY <2>1, ValueRoundTrip
  <2>3. i \in DOMAIN queue.incoming
    BY DEF IsPending
  <2> HIDE DEF i
  <2>4. (id \in stopped) <=> queue.incoming[i]
    BY <2>2, <2>3 DEF Inv, Tokens, Stops
  <2>5. queue.incoming[i] \in BOOLEAN
    BY <2>3 DEF Inv, Tables
  <2>6. GetToken(queue, i) = Some(queue.incoming[i])
    BY <2>3 DEF GetToken, IsPending
  <2>7. Some(queue.incoming[i]) = Some(TRUE) <=> queue.incoming[i] = TRUE
    BY OptionFacts
  <2>8. GetToken(queue, i) = Some(TRUE) <=> id \in stopped
    BY <2>4, <2>5, <2>6, <2>7
  <2>. QED  BY <2>8 DEF i
<1>. QED  BY <1>1, WireInvariant, PTL

(* A waiter gets the error the client wrote if the response carries one    *)
(* that is not null, and else the result.                                  *)
THEOREM AnswersMeanWhatWasWritten == Spec => []AnswersUnderstood
<1>1. Inv => AnswersUnderstood
  BY DEF Inv
<1>. QED  BY <1>1, WireInvariant, PTL
====
