------------------------------ MODULE Routing ------------------------------
(***************************************************************************)
(* The tables of a Connection (request_queue.rs, the ResponseMap of        *)
(* client_sender.rs) and what route() and its relatives do to them.        *)
(*                                                                         *)
(* A function of the code that takes &mut self is an operator that takes   *)
(* the tables and gives them back with the value it returns.  The token of *)
(* an incoming request is TRUE once it is cancelled; a table of requests   *)
(* the server has sent is the set of ids whose oneshot sender it holds.    *)
(* Which task does what when is the subject of Connection and              *)
(* ClientSender.                                                           *)
(***************************************************************************)
EXTENDS Message, FiniteSets

NewQueue == [incoming |-> <<>>, outgoing |-> {}, responseMap |-> {}, shutdown |-> FALSE]

Returns(queue, value) == [queue |-> queue, value |-> value]

---------------------------------------------------------------------------
(* IncomingRequests *)

Put(table, id, token) ==
    [i \in DOMAIN table \cup {id} |-> IF i = id THEN token ELSE table[i]]
Remove(table, id) == [i \in DOMAIN table \ {id} |-> table[i]]

IsPending(q, id) == id \in DOMAIN q.incoming
PendingCount(q) == Cardinality(DOMAIN q.incoming)
GetToken(q, id) == IF IsPending(q, id) THEN Some(q.incoming[id]) ELSE None

Register(q, id, token) == [q EXCEPT !.incoming = Put(@, id, token)]
Complete(q, id) == Returns([q EXCEPT !.incoming = Remove(@, id)], IsPending(q, id))

(* IncomingRequests::cancel, cancel_incoming *)
CancelIncoming(q, id) ==
    IF IsPending(q, id) THEN Returns(Register(q, id, TRUE), TRUE) ELSE Returns(q, FALSE)

---------------------------------------------------------------------------
(* OutgoingRequests *)

RegisterOutgoing(q, id) == [q EXCEPT !.outgoing = @ \cup {id}]
CompleteOutgoing(q, id) == Returns([q EXCEPT !.outgoing = @ \ {id}], id \in q.outgoing)

(* Connection::cancel, when the channel is open *)
CancelOutgoing(q, id) ==
    Returns([q EXCEPT !.outgoing = @ \ {id}],
            [pending |-> id \in q.outgoing,
             sent |-> Notification(CancelRequestMethod,
                                   Some(Object([id |-> RequestIdTo(id)])))])

---------------------------------------------------------------------------
(* route(): the value is the variant of IncomingMessage, and the id of the *)
(* waiter that gets the response.                                          *)

RouteRequest(q, m) == Returns(Register(q, m.id, q.shutdown), <<"Request">>)

RouteNotification(q, m) ==
    LET id == ParseCancelParams(m.params) IN
    IF m.method = CancelRequestMethod /\ id # None
      THEN Returns(CancelIncoming(q, id[2]).queue, <<"CancelHandled">>)
      ELSE Returns(q, <<"Notification">>)

(* the response map first, then request_queue.outgoing *)
RouteResponse(q, m) ==
    IF m.id = None THEN Returns(q, <<"ResponseUnknown">>)
    ELSE LET id == m.id[2] IN
         CASE id \in q.responseMap ->
                Returns([q EXCEPT !.responseMap = @ \ {id}], <<"ResponseRouted", "responseMap">>)
           [] id \notin q.responseMap /\ id \in q.outgoing ->
                Returns(CompleteOutgoing(q, id).queue, <<"ResponseRouted", "outgoing">>)
           [] OTHER -> Returns(q, <<"ResponseUnknown">>)

(* mutant: a cancellation is told by its method alone *)
RouteByMethod(q, m) ==
    CASE m.kind = "Response" -> RouteResponse(q, m)
      [] m.kind # "Response" /\ m.method = CancelRequestMethod -> RouteNotification(q, m)
      [] m.kind = "Request" /\ m.method # CancelRequestMethod -> RouteRequest(q, m)
      [] m.kind = "Notification" /\ m.method # CancelRequestMethod -> RouteNotification(q, m)

Route(q, m) ==
    CASE m.kind = "Request" -> RouteRequest(q, m)
      [] m.kind = "Notification" -> RouteNotification(q, m)
      [] m.kind = "Response" -> RouteResponse(q, m)

(* handle_cancel_request, for applications that do not use route() *)
HandleCancelRequest(q, m) ==
    LET id == ParseCancelParams(m.params) IN
    IF m.method # CancelRequestMethod \/ id = None THEN Returns(q, None)
    ELSE LET done == CancelIncoming(q, id[2]) IN Returns(done.queue, Some(done.value))
===========================================================================
