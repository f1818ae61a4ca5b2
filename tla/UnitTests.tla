----------------------------- MODULE UnitTests -----------------------------
(***************************************************************************)
(* The unit tests of message.rs, error.rs, request_id.rs, request_queue.rs *)
(* and routing.rs, and the routing and cancellation tests of connection.rs *)
(* and client_sender.rs, replayed on the operators of Message and Routing: *)
(* a table of what the tests assert about the code, which TLC evaluates    *)
(* before a run.  One definition for each group of tests.                  *)
(***************************************************************************)
EXTENDS Routing

V2 == String("2.0")
Params == Object([position |-> Null])
Bad(code) == Object([code |-> Number(code), message |-> String("text")])
RoundTrip(m) == MessageFrom(MessageTo(m)) = Some(m)

RequestTests ==
    /\ RoundTrip(Request(Integer(1), "test", None))
    /\ RoundTrip(Request(Integer(42), "test", Some(Params)))
    /\ ~Has(RequestTo(Request(Integer(1), "test", None)), "params")
    /\ RoundTrip(Request(StringId("abc-123"), "test", None))
    /\ RequestFrom([id |-> Number(1), method |-> String("test")]) = None
    /\ RequestFrom([jsonrpc |-> String("1.0"), id |-> Number(1), method |-> String("test")]) = None

ResponseTests ==
    LET null == ResponseOk(Integer(1), Null)
        failed == ResponseErr(Integer(1), ResponseError(ErrorCode.MethodNotFound, None))
        unparsed == ParseErrorResponse(ResponseError(ErrorCode.ParseError, None)) IN
    /\ RoundTrip(ResponseOk(Integer(1), Params))
    /\ ResponseTo(null).jsonrpc = V2
    /\ ResponseFrom([id |-> Number(1), result |-> Null]) = None
    /\ RoundTrip(failed) /\ failed.body[2].code = -32601
    /\ ResponseTo(unparsed).id = Null /\ RoundTrip(unparsed)
    /\ RoundTrip(ResponseOk(StringId("uuid-123"), Null))
    /\ ~Has(ResponseTo(null), "error")
    /\ ~Has(ResponseTo(failed), "result")

NotificationTests ==
    /\ RoundTrip(Notification("didOpen", None))
    /\ RoundTrip(Notification("didOpen", Some(Params)))
    /\ NotificationFrom([jsonrpc |-> String("1.0"), method |-> String("test")]) = None
    /\ ~Has(NotificationTo(Notification("test", None)), "params")

DiscriminationTests ==
    LET call == [jsonrpc |-> V2, method |-> String("test")] IN
    /\ MessageFrom([jsonrpc |-> V2, id |-> Number(1), method |-> String("test")])
           = Some(Request(Integer(1), "test", None))
    /\ MessageFrom([jsonrpc |-> V2, id |-> Number(1), method |-> String("test"), params |-> Params])
           = Some(Request(Integer(1), "test", Some(Params)))
    /\ MessageFrom([jsonrpc |-> V2, id |-> Number(1), result |-> Null])
           = Some(ResponseOk(Integer(1), Null))
    /\ MessageFrom([jsonrpc |-> V2, id |-> Number(1), error |-> Bad(-32600)])
           = Some(ResponseErr(Integer(1), ResponseError(-32600, None)))
    /\ MessageFrom(call) = Some(Notification("test", None))
    /\ MessageFrom(WithParams(call, Some(Params))) = Some(Notification("test", Some(Params)))

EdgeCaseTests ==
    LET unparsed == ParseErrorResponse(ResponseError(-32700, None)) IN
    /\ MessageFrom([jsonrpc |-> V2, id |-> String("abc-123"), method |-> String("test")])
           = Some(Request(StringId("abc-123"), "test", None))
    /\ MessageFrom([jsonrpc |-> V2, error |-> Bad(-32700)]) = Some(unparsed)
    /\ ResponseFrom([jsonrpc |-> V2, id |-> Null, error |-> Bad(-32700)]) = Some(unparsed)
    /\ RoundTrip(Request(Integer(42), "hover", Some(Params)))
    /\ RoundTrip(ResponseOk(Integer(42), Params))
    /\ RoundTrip(Notification(CancelRequestMethod, Some(Object([id |-> Number(42)]))))
    /\ RoundTrip(ResponseErr(Integer(1), ResponseError(ErrorCode.InvalidParams, Some(Params))))

ResponseBodyTests ==
    LET reply == [jsonrpc |-> V2, id |-> Number(1), result |-> String("ok"), error |-> Null] IN
    /\ ResponseFrom([reply EXCEPT !.error = Bad(-32600)])[2].body
           = Failure(ResponseError(-32600, None))
    /\ ResponseFrom(reply)[2].body = Success(String("ok"))
    /\ ResponseFrom([jsonrpc |-> V2, id |-> Number(1)]) = None
    /\ ResponseFrom([jsonrpc |-> V2, id |-> Number(1), error |-> Null]) = None
    /\ ResponseFrom([jsonrpc |-> V2, id |-> Number(1), result |-> Null])[2].body = Success(Null)

AccessorTests ==
    LET one == [Request |-> Request(Integer(1), "test", None),
                Response |-> ResponseOk(Integer(1), Null),
                Notification |-> Notification("test", None)] IN
    /\ \A kind, other \in DOMAIN one :
           AsKind(one[kind], other) = IF other = kind THEN Some(one[kind]) ELSE None
    /\ IsOk(one.Response) /\ ~IsErr(one.Response)
    /\ ResultOf(one.Response) = Some(Null) /\ ErrorOf(one.Response) = None

ErrorTests ==
    /\ \A name \in DOMAIN ErrorCode : TryFrom(ErrorCode[name]) = Some(name)
    /\ TryFrom(-99999) = None
    /\ ~Has(ResponseErrorTo(ResponseError(ErrorCode.ParseError, None))[2], "data")
    /\ Has(ResponseErrorTo(ResponseError(ErrorCode.InvalidParams, Some(Params)))[2], "data")
    /\ ResponseErrorFrom(Bad(-32601)) = ResponseError(-32601, None)
    /\ ResponseErrorFrom(Object([code |-> Number(-32602), message |-> String("text"),
                                 data |-> Params])) = ResponseError(-32602, Some(Params))

RequestIdTests ==
    /\ \A id \in {Integer(42), StringId("abc-123")} : RequestIdFrom(RequestIdTo(id)) = id
    /\ RequestIdFrom(Number(42)) = Integer(42)
    /\ RequestIdFrom(String("abc")) = StringId("abc")
    /\ Integer(1) # StringId("1")

CancelParamsTests ==
    /\ ParseCancelParams(Some(Object([id |-> Number(42)]))) = Some(Integer(42))
    /\ ParseCancelParams(Some(Object([id |-> String("abc")]))) = Some(StringId("abc"))
    /\ \A params \in {None, Some(Object([other |-> String("field")])),
                      Some(Object([id |-> Params])), Some(Object([id |-> Null]))} :
           ParseCancelParams(params) = None

---------------------------------------------------------------------------
IncomingTests ==
    LET one == Register(NewQueue, Integer(1), FALSE)
        two == Register(one, Integer(2), FALSE)
        stopped == CancelIncoming(one, Integer(1)) IN
    /\ Complete(one, Integer(1)) = Returns(NewQueue, TRUE)
    /\ Complete(NewQueue, Integer(999)) = Returns(NewQueue, FALSE)
    /\ IsPending(one, Integer(1)) /\ ~IsPending(NewQueue, Integer(1))
    /\ PendingCount(NewQueue) = 0 /\ PendingCount(one) = 1 /\ PendingCount(two) = 2
    /\ PendingCount(Complete(two, Integer(1)).queue) = 1
    /\ stopped.value /\ GetToken(stopped.queue, Integer(1)) = Some(TRUE)
    /\ CancelIncoming(NewQueue, Integer(999)) = Returns(NewQueue, FALSE)
    /\ CancelIncoming(stopped.queue, Integer(1)) = stopped
    /\ GetToken(one, Integer(1)) = Some(FALSE)
    /\ GetToken(one, Integer(999)) = None
    /\ Complete(stopped.queue, Integer(1)).value

OutgoingTests ==
    LET one == RegisterOutgoing(NewQueue, Integer(1))
        two == RegisterOutgoing(one, Integer(2)) IN
    /\ CompleteOutgoing(one, Integer(1)) = Returns(NewQueue, TRUE)
    /\ CompleteOutgoing(NewQueue, Integer(999)) = Returns(NewQueue, FALSE)
    /\ CancelOutgoing(one, Integer(1)).queue = NewQueue
    /\ ~CancelOutgoing(NewQueue, Integer(999)).value.pending
    /\ two.outgoing = {Integer(1), Integer(2)}
    /\ CancelOutgoing(CompleteOutgoing(two, Integer(1)).queue, Integer(2)).queue = NewQueue

QueueTests ==
    LET in == Register(NewQueue, Integer(1), FALSE)
        both == RegisterOutgoing(in, Integer(2))
        named == Register(NewQueue, StringId("abc-123"), FALSE) IN
    /\ both.incoming = in.incoming
    /\ Complete(both, Integer(1)).queue = RegisterOutgoing(NewQueue, Integer(2))
    /\ IsPending(named, StringId("abc-123")) /\ Complete(named, StringId("abc-123")).value

---------------------------------------------------------------------------
MethodNotFoundTests ==
    \A id \in {Integer(42), StringId("abc-123")} :
        LET reply == MethodNotFoundResponse(id) IN
        reply.id = Some(id) /\ ErrorOf(reply)[2].code = -32601 /\ ResultOf(reply) = None

CancelledTests ==
    \A id \in {Integer(42), StringId("abc-123")} :
        LET reply == CancelledResponse(id) IN
        reply.id = Some(id) /\ ErrorOf(reply)[2].code = -32800

Asked(ids) == [NewQueue EXCEPT !.outgoing = ids]
Answer(q, id) == Route(q, ResponseOk(id, Null))
Unparsed == ParseErrorResponse(ResponseError(ErrorCode.ParseError, None))

RouteTests ==
    LET request == Route(NewQueue, Request(Integer(42), "hover", Some(Params))) IN
    /\ request.value = <<"Request">> /\ GetToken(request.queue, Integer(42)) = Some(FALSE)
    /\ Route(NewQueue, Notification("didOpen", Some(Params))) = Returns(NewQueue, <<"Notification">>)
    /\ Answer(Asked({Integer(1)}), Integer(1)) = Returns(NewQueue, <<"ResponseRouted", "outgoing">>)
    /\ Answer(NewQueue, Integer(999)) = Returns(NewQueue, <<"ResponseUnknown">>)
    /\ Route(NewQueue, Unparsed) = Returns(NewQueue, <<"ResponseUnknown">>)

RouteResponseTests ==
    LET name == StringId("abc")
        second == Answer(Asked({Integer(1), Integer(2), Integer(3)}), Integer(2))
        first == Answer(second.queue, Integer(1))
        third == Answer(first.queue, Integer(3)) IN
    /\ Answer(Asked({name}), name) = Returns(NewQueue, <<"ResponseRouted", "outgoing">>)
    /\ \A r \in {first, second, third} : r.value = <<"ResponseRouted", "outgoing">>
    /\ third.queue = NewQueue
    /\ Route(Asked({name}), ResponseErr(name, ResponseError(ErrorCode.MethodNotFound, None)))
           = Answer(Asked({name}), name)

CancelNotice(params) == Notification(CancelRequestMethod, Some(Object(params)))

HandleCancelTests ==
    LET asked == Route(NewQueue, Request(Integer(42), "test", None)).queue
        handled == HandleCancelRequest(asked, CancelNotice([id |-> Number(42)])) IN
    /\ handled.value = Some(TRUE) /\ GetToken(handled.queue, Integer(42)) = Some(TRUE)
    /\ HandleCancelRequest(asked, CancelNotice([id |-> Number(999)])) = Returns(asked, Some(FALSE))
    /\ HandleCancelRequest(asked, Notification("didOpen", Some(Params))) = Returns(asked, None)
    /\ HandleCancelRequest(asked, CancelNotice([other |-> Null])) = Returns(asked, None)

RouteCancelTests ==
    LET asked == Route(NewQueue, Request(Integer(42), "test", None)).queue
        routed == Route(asked, CancelNotice([id |-> Number(42)])) IN
    /\ routed.value = <<"CancelHandled">> /\ GetToken(routed.queue, Integer(42)) = Some(TRUE)
    /\ Route(NewQueue, CancelNotice([id |-> Number(99)])) = Returns(NewQueue, <<"CancelHandled">>)
    /\ Route(NewQueue, Notification("didOpen", None)).value = <<"Notification">>
    /\ CancelIncoming(asked, Integer(42)) = Returns(routed.queue, TRUE)

CancelOutgoingTests ==
    /\ \A id \in {Integer(42), StringId("req-abc")} :
           LET done == CancelOutgoing(RegisterOutgoing(NewQueue, id), id) IN
           /\ done.queue = NewQueue /\ done.value.pending
           /\ done.value.sent.params = Some(Object([id |-> RequestIdTo(id)]))
    /\ ~CancelOutgoing(NewQueue, Integer(999)).value.pending

ResponseMapTests ==
    LET both == [NewQueue EXCEPT !.responseMap = {Integer(1)}, !.outgoing = {Integer(1)}]
        routed == Route(both, ResponseOk(Integer(1), Null)) IN
    /\ routed.value = <<"ResponseRouted", "responseMap">>
    /\ routed.queue = RegisterOutgoing(NewQueue, Integer(1))
    /\ Route([both EXCEPT !.outgoing = {}], ResponseOk(Integer(1), Null)).queue = NewQueue

===========================================================================
