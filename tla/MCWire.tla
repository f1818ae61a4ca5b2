------------------------------- MODULE MCWire -------------------------------
(* Instances of Wire for TLC: JSON objects with every combination of the    *)
(* fields that a reader looks at.                                           *)
EXTENDS Wire, UnitTests

(* 1 and an integer that is 1 modulo 2^Width, "1", and what is no id *)
IdValues == {Number(1), Number(2^Width + 1), String("1"), Null}

ErrorValues == {Null,
                Object([code |-> Number(-32601), message |-> String("text")]),
                Object([code |-> Number(2^Width), message |-> String("text")])}

(* the field with each of the values, or left out *)
With(objects, key, values) ==
    objects \cup {[k \in DOMAIN o \cup {key} |-> IF k = key THEN v ELSE o[k]] :
                      o \in objects, v \in values}

Cancels ==
    {[jsonrpc |-> String("2.0"), method |-> String(CancelRequestMethod), params |-> p] :
        p \in {Null} \cup {Object([id |-> v]) : v \in (IdValues \ {Null}) \cup {Fraction}}}

Calls == With({[jsonrpc |-> String("2.0")]}, "method", {String("work"), Null})

AskedIds == {Integer(1), StringId("1")}

AllObjects ==
    With(With(With(Calls, "id", IdValues), "result", {Null, String("value")}),
         "error", ErrorValues)
    \cup With(Cancels, "id", IdValues)
    \cup {[jsonrpc |-> String("1.0"), id |-> Number(1), method |-> String("work")],
          [id |-> Number(1), result |-> Null]}

---------------------------------------------------------------------------
ASSUME UnitTestsPass ==
    /\ RequestTests /\ ResponseTests /\ NotificationTests
    /\ DiscriminationTests /\ EdgeCaseTests /\ ResponseBodyTests /\ AccessorTests
    /\ ErrorTests /\ RequestIdTests /\ CancelParamsTests
    /\ IncomingTests /\ OutgoingTests /\ QueueTests
    /\ MethodNotFoundTests /\ CancelledTests /\ RouteTests /\ RouteResponseTests
    /\ HandleCancelTests /\ RouteCancelTests /\ CancelOutgoingTests /\ ResponseMapTests
===========================================================================
