------------------------------ MODULE Message ------------------------------
(***************************************************************************)
(* The messages of message.rs, request_id.rs and error.rs, and how serde   *)
(* reads them from JSON and writes them.                                   *)
(*                                                                         *)
(* A JSON object is a record whose fields are the keys that are present; a *)
(* JSON value is a tuple that starts with its type.  Keys appear once.  An *)
(* Option is None or Some(x).  The text of an error message is left out:   *)
(* only whether it is a string matters to the reader.                      *)
(***************************************************************************)
EXTENDS Integers

CONSTANT Width    \* bits of a RequestId integer and of an error code (i32)

ASSUME WidthAssumption == Width \in Nat \ {0}

Null == <<"null">>
Fraction == <<"fraction">>            \* a number with a fraction or exponent
Number(n) == <<"number", n>>
String(s) == <<"string", s>>
Object(f) == <<"object", f>>
Is(value, type) == value[1] = type
Has(object, key) == key \in DOMAIN object

None == <<"none">>
Some(x) == <<"some", x>>

(* Option<Value>: a null is read as None *)
OptionValue(object, key) ==
    IF Has(object, key) /\ object[key] # Null THEN Some(object[key]) ELSE None

---------------------------------------------------------------------------
(* RequestId: untagged, an i32 or a string *)

I32 == -(2^(Width - 1)) .. (2^(Width - 1) - 1)
Integer(n) == <<"Integer", n>>
StringId(s) == <<"String", s>>

(* mutant: any integer is taken *)
IsRequestIdWide(value) == Is(value, "string") \/ Is(value, "number")

IsRequestId(value) == Is(value, "string") \/ (Is(value, "number") /\ value[2] \in I32)

(* mutant: a string that is a number is read as one *)
RequestIdFromDigits(value) ==
    IF value \in {Number(1), String("1")} THEN Integer(1)
    ELSE IF Is(value, "number") THEN Integer(value[2]) ELSE StringId(value[2])

RequestIdFrom(value) ==
    IF Is(value, "number") THEN Integer(value[2]) ELSE StringId(value[2])
RequestIdTo(id) == IF id[1] = "Integer" THEN Number(id[2]) ELSE String(id[2])

---------------------------------------------------------------------------
(* error.rs *)

ErrorCode == [ParseError |-> -32700, InvalidRequest |-> -32600,
              MethodNotFound |-> -32601, InvalidParams |-> -32602,
              InternalError |-> -32603, ServerNotInitialized |-> -32002,
              UnknownErrorCode |-> -32001, RequestFailed |-> -32803,
              ServerCancelled |-> -32802, ContentModified |-> -32801,
              RequestCancelled |-> -32800]

ASSUME CodesAssumption == \A name \in DOMAIN ErrorCode : ErrorCode[name] \in I32

(* ErrorCode::try_from *)
TryFrom(code) ==
    CASE code = -32700 -> Some("ParseError")
      [] code = -32600 -> Some("InvalidRequest")
      [] code = -32601 -> Some("MethodNotFound")
      [] code = -32602 -> Some("InvalidParams")
      [] code = -32603 -> Some("InternalError")
      [] code = -32002 -> Some("ServerNotInitialized")
      [] code = -32001 -> Some("UnknownErrorCode")
      [] code = -32803 -> Some("RequestFailed")
      [] code = -32802 -> Some("ServerCancelled")
      [] code = -32801 -> Some("ContentModified")
      [] code = -32800 -> Some("RequestCancelled")
      [] OTHER -> None

ResponseError(code, data) == [code |-> code, data |-> data]

IsResponseError(value) ==
    /\ Is(value, "object")
    /\ Has(value[2], "code") /\ Is(value[2].code, "number") /\ value[2].code[2] \in I32
    /\ Has(value[2], "message") /\ Is(value[2].message, "string")
ResponseErrorFrom(value) ==
    ResponseError(value[2].code[2], OptionValue(value[2], "data"))
ResponseErrorTo(error) ==
    LET plain == [code |-> Number(error.code), message |-> String("text")] IN
    Object(IF error.data = None THEN plain
           ELSE [code |-> plain.code, message |-> plain.message, data |-> error.data[2]])

---------------------------------------------------------------------------
(* The three kinds of message *)

Request(id, method, params) ==
    [kind |-> "Request", id |-> id, method |-> method, params |-> params]
Notification(method, params) ==
    [kind |-> "Notification", method |-> method, params |-> params]
Success(value) == <<"Success", value>>
Failure(error) == <<"Error", error>>
Response(id, body) == [kind |-> "Response", id |-> id, body |-> body]

ResponseOk(id, value) == Response(Some(id), Success(value))
ResponseErr(id, error) == Response(Some(id), Failure(error))
ParseErrorResponse(error) == Response(None, Failure(error))

(* is_ok, is_err; result and error, borrowed or consumed *)
IsOk(m) == m.body[1] = "Success"
IsErr(m) == m.body[1] = "Error"
ResultOf(m) == IF IsOk(m) THEN Some(m.body[2]) ELSE None
ErrorOf(m) == IF IsErr(m) THEN Some(m.body[2]) ELSE None

(* is_request, as_request, into_request, and so on for each kind *)
IsKind(m, kind) == m.kind = kind
AsKind(m, kind) == IF IsKind(m, kind) THEN Some(m) ELSE None

(* routing.rs *)
MethodNotFoundResponse(id) ==
    ResponseErr(id, ResponseError(ErrorCode.MethodNotFound, None))
CancelledResponse(id) ==
    ResponseErr(id, ResponseError(ErrorCode.RequestCancelled, None))

---------------------------------------------------------------------------
(* Reading: each kind gives Some message or None, an error *)

ValidVersion(object) == Has(object, "jsonrpc") /\ object.jsonrpc = String("2.0")
HasMethod(object) == Has(object, "method") /\ Is(object.method, "string")

RequestFrom(object) ==
    IF ValidVersion(object) /\ HasMethod(object) /\ Has(object, "id") /\ IsRequestId(object.id)
      THEN Some(Request(RequestIdFrom(object.id), object.method[2],
                        OptionValue(object, "params")))
      ELSE None

(* mutant: an error object that cannot be read counts as none *)
BodyFromLenient(object) ==
    IF Has(object, "error") /\ IsResponseError(object.error)
      THEN Some(Failure(ResponseErrorFrom(object.error)))
      ELSE IF Has(object, "result") THEN Some(Success(object.result)) ELSE None

(* error takes precedence, unless it is null and there is a result *)
BodyFrom(object) ==
    IF Has(object, "error") /\ object.error # Null
      THEN IF IsResponseError(object.error)
             THEN Some(Failure(ResponseErrorFrom(object.error))) ELSE None
      ELSE IF Has(object, "result") THEN Some(Success(object.result)) ELSE None

NoId(object) == ~Has(object, "id") \/ object.id = Null

ResponseFrom(object) ==
    IF /\ ValidVersion(object)
       /\ Has(object, "result") \/ Has(object, "error")
       /\ NoId(object) \/ IsRequestId(object.id)
       /\ BodyFrom(object) # None
      THEN Some(Response(IF NoId(object) THEN None ELSE Some(RequestIdFrom(object.id)),
                         BodyFrom(object)[2]))
      ELSE None

(* keys that are not fields of a notification are ignored, id included *)
NotificationFrom(object) ==
    IF ValidVersion(object) /\ HasMethod(object)
      THEN Some(Notification(object.method[2], OptionValue(object, "params")))
      ELSE None

(* Message: untagged, the first kind that can be read *)
MessageFrom(object) ==
    IF RequestFrom(object) # None THEN RequestFrom(object)
    ELSE IF ResponseFrom(object) # None THEN ResponseFrom(object)
    ELSE NotificationFrom(object)

---------------------------------------------------------------------------
(* Writing.  params is left out when None; the id of a response never is.  *)

WithParams(object, params) ==
    IF params = None THEN object
    ELSE [key \in DOMAIN object \cup {"params"} |->
              IF key = "params" THEN params[2] ELSE object[key]]

RequestTo(m) ==
    WithParams([jsonrpc |-> String("2.0"), id |-> RequestIdTo(m.id),
                method |-> String(m.method)], m.params)
NotificationTo(m) ==
    WithParams([jsonrpc |-> String("2.0"), method |-> String(m.method)], m.params)

ResponseTo(m) ==
    LET id == IF m.id = None THEN Null ELSE RequestIdTo(m.id[2]) IN
    IF IsOk(m)
      THEN [jsonrpc |-> String("2.0"), id |-> id, result |-> m.body[2]]
      ELSE [jsonrpc |-> String("2.0"), id |-> id, error |-> ResponseErrorTo(m.body[2])]

MessageTo(m) ==
    CASE IsKind(m, "Request") -> RequestTo(m)
      [] IsKind(m, "Response") -> ResponseTo(m)
      [] IsKind(m, "Notification") -> NotificationTo(m)

---------------------------------------------------------------------------
(* request_queue.rs *)

CancelRequestMethod == "$/cancelRequest"

(* mutant: "as i32" instead of i32::try_from *)
ParseCancelParamsWraps(params) ==
    IF params = None \/ ~Is(params[2], "object") \/ ~Has(params[2][2], "id") THEN None
    ELSE LET value == params[2][2].id IN
         CASE Is(value, "number") -> Some(Integer(value[2] % (2^Width)))
           [] Is(value, "string") -> Some(StringId(value[2]))
           [] OTHER -> None

(* parse_cancel_params: a number must be an integer that fits an i32 *)
ParseCancelParams(params) ==
    IF params = None \/ ~Is(params[2], "object") \/ ~Has(params[2][2], "id") THEN None
    ELSE LET value == params[2][2].id IN
         CASE Is(value, "number") /\ value[2] \in I32 -> Some(Integer(value[2]))
           [] Is(value, "string") -> Some(StringId(value[2]))
           [] OTHER -> None
===========================================================================
