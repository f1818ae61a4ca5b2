--------------------------- MODULE ClientSender ---------------------------
(***************************************************************************)
(* Server-to-client requests of lsp-server-tokio: ClientSender, the        *)
(* ResponseMap it shares with the Connection, the legacy OutgoingRequests  *)
(* table, the background drain task, and the response arm of               *)
(* Connection::route.                                                      *)
(*                                                                         *)
(* Callers are tasks that make one ClientSender::request or                *)
(* request_timeout call each.  Every call of Connection::client_sender     *)
(* returns a handle with an id counter of its own over the one shared      *)
(* response map; clones of a handle share its counter, so HandleOf maps a  *)
(* caller to the client_sender() call its handle descends from.            *)
(* Waiters are requests registered by the application itself in            *)
(* request_queue.outgoing, under an id of its choice.                      *)
(*                                                                         *)
(* The steps of a caller are the points where other threads can interleave *)
(* with it: an atomic counter update, a locked map access, a channel send, *)
(* a poll of the select!, and the two halves of dropping the future        *)
(* (oneshot receiver first, PendingResponseGuard after it).                *)
(***************************************************************************)
EXTENDS Naturals, Sequences

CONSTANTS
    Callers,      \* tasks that call ClientSender::request once
    Waiters,      \* application requests in request_queue.outgoing
    Handles,      \* results of distinct client_sender() calls
    HandleOf,     \* the handle (or a clone of it) each caller uses
    MaxId,        \* stands for i32::MAX, where the id counter wraps
    WaiterIds,    \* ids the application picks for its own requests
    MaxRetries,   \* MAX_RETRIES of reserve_request_slot
    MaxPosts,     \* bound on notify/respond/send calls
    Nobody        \* no caller, no waiter

Origins == Callers \cup Waiters
Ids == 1..MaxId
NoId == 0         \* no id drawn yet; the null id of a response

ASSUME OriginsAssumption ==
    /\ Callers \cap Waiters = {}
    /\ Nobody \notin Origins
ASSUME HandlesAssumption == HandleOf \in [Callers -> Handles]
ASSUME BoundsAssumption ==
    /\ MaxId \in Nat \ {0}
    /\ MaxRetries \in Nat \ {0}
    /\ MaxPosts \in Nat
    /\ WaiterIds \subseteq Nat \ {NoId}

VARIABLES
    counter,   \* id_counter of each handle
    pc,        \* where each caller or waiter is
    id,        \* the id its request carries
    tries,     \* iterations of reserve_request_slot done
    result,    \* what the call returned
    pending,   \* ResponseMap.pending: id -> owner of the oneshot receiver
    outgoing,  \* OutgoingRequests.pending: id -> owner of the receiver
    inbox,     \* oneshot: whose request the delivered response answers
    channel,   \* the unbounded mpsc channel to the drain task
    posts,     \* notify/respond/send calls made
    drain,     \* the drain task; the token drain_alive is cancelled when
               \* it leaves "running", the channel closes when it is "dead"
    peer,      \* the client's end of the transport
    atClient,  \* requests the client has read and not answered
    answered,  \* requests the client has answered
    inbound,   \* responses on their way to the server's main loop
    router,    \* the main loop: reading, inside route(), ended with the
               \* stream, or failed on an error with the stream still there
    current,   \* the response route() is working on
    verdict    \* history: what route() said of the response to each request

callerVars == <<counter, pc, id, tries, result>>
mapVars == <<pending, outgoing, inbox>>
linkVars == <<channel, posts, drain>>
clientVars == <<peer, atClient, answered, inbound>>
routeVars == <<router, current, verdict>>
vars == <<callerVars, mapVars, linkVars, clientVars, routeVars>>

RequestMsg(o, i) == [kind |-> "request", id |-> i, from |-> o]
PostMsg == [kind |-> "post", id |-> NoId, from |-> Nobody]
ResponseMsg(o, i) == [id |-> i, from |-> o]
NoResponse == ResponseMsg(Nobody, NoId)

Init ==
    /\ counter = [h \in Handles |-> 1]
    /\ pc = [o \in Origins |-> "idle"]
    /\ id = [o \in Origins |-> NoId]
    /\ tries = [c \in Callers |-> 0]
    /\ result = [o \in Origins |-> "none"]
    /\ pending = [i \in Ids |-> Nobody]
    /\ outgoing = [i \in WaiterIds |-> Nobody]
    /\ inbox = [o \in Origins |-> Nobody]
    /\ channel = <<>>
    /\ posts = 0
    /\ drain = "running"
    /\ peer = "open"
    /\ atClient = {}
    /\ answered = {}
    /\ inbound = <<>>
    /\ router = "read"
    /\ current = NoResponse
    /\ verdict = [o \in Origins |-> "none"]

---------------------------------------------------------------------------
(* The mpsc channel: send fails once the drain task has dropped its        *)
(* receiving end.                                                          *)

ChannelOpen == drain # "dead"
Enqueue(m) == ChannelOpen /\ channel' = Append(channel, m)

(* mutant: the counter wraps one id too late *)
NextIdLateWrap(c) ==
    LET h == HandleOf[c] IN
    /\ id' = [id EXCEPT ![c] = counter[h]]
    /\ counter' = [counter EXCEPT ![h] = IF @ > MaxId THEN 1 ELSE @ + 1]

(* mutant: load instead of fetch_update *)
NextIdLoad(c) ==
    /\ id' = [id EXCEPT ![c] = counter[HandleOf[c]]]
    /\ UNCHANGED counter

(* fetch_update on id_counter: the old value is the id, the new value wraps *)
NextId(c) ==
    LET h == HandleOf[c] IN
    /\ id' = [id EXCEPT ![c] = counter[h]]
    /\ counter' = [counter EXCEPT ![h] = IF @ >= MaxId THEN 1 ELSE @ + 1]

---------------------------------------------------------------------------
(* ClientSender::request and request_timeout                               *)

Request(c) ==
    /\ pc[c] = "idle"
    /\ NextId(c)
    /\ pc' = [pc EXCEPT ![c] = "try"]
    /\ UNCHANGED <<tries, result, mapVars, linkVars, clientVars, routeVars>>

Retry(c) ==
    /\ pc[c] = "reserve"
    /\ NextId(c)
    /\ pc' = [pc EXCEPT ![c] = "try"]
    /\ UNCHANGED <<tries, result, mapVars, linkVars, clientVars, routeVars>>

(* mutant: the oneshot sender is not inserted *)
TryRegisterForgets(c) ==
    /\ pc[c] = "try"
    /\ pending[id[c]] = Nobody
    /\ pc' = [pc EXCEPT ![c] = "send"]
    /\ tries' = [tries EXCEPT ![c] = 0]
    /\ UNCHANGED <<counter, id, result, mapVars, linkVars, clientVars, routeVars>>

(* try_register: contains_key and insert under one lock *)
TryRegister(c) ==
    /\ pc[c] = "try"
    /\ pending[id[c]] = Nobody
    /\ pending' = [pending EXCEPT ![id[c]] = c]
    /\ pc' = [pc EXCEPT ![c] = "send"]
    /\ tries' = [tries EXCEPT ![c] = 0]
    /\ UNCHANGED <<counter, id, result, outgoing, inbox, linkVars,
                   clientVars, routeVars>>

TryRegisterTaken(c) ==
    /\ pc[c] = "try"
    /\ pending[id[c]] # Nobody
    /\ tries' = [tries EXCEPT ![c] = @ + 1]
    /\ IF tries[c] + 1 < MaxRetries
         THEN pc' = [pc EXCEPT ![c] = "reserve"] /\ UNCHANGED result
         ELSE /\ pc' = [pc EXCEPT ![c] = "done"]
              /\ result' = [result EXCEPT ![c] = "io"]
    /\ UNCHANGED <<counter, id, mapVars, linkVars, clientVars, routeVars>>

SendRequest(c) ==
    /\ pc[c] = "send"
    /\ Enqueue(RequestMsg(c, id[c]))
    /\ pc' = [pc EXCEPT ![c] = "wait"]
    /\ UNCHANGED <<counter, id, tries, result, mapVars, posts, drain,
                   clientVars, routeVars>>

(* Leaving send_registered_request with the guard armed: the oneshot       *)
(* receiver is gone, the map entry is still there until GuardDrop.         *)
Leave(c, outcome) ==
    /\ pc' = [pc EXCEPT ![c] = "guard"]
    /\ result' = [result EXCEPT ![c] = outcome]
    /\ UNCHANGED <<counter, id, tries, mapVars, linkVars, clientVars, routeVars>>

(* mutant: the early return is taken before the guard exists *)
SendRequestClosedUnguarded(c) ==
    /\ pc[c] = "send"
    /\ ~ChannelOpen
    /\ pc' = [pc EXCEPT ![c] = "done"]
    /\ result' = [result EXCEPT ![c] = "disconnected"]
    /\ UNCHANGED <<counter, id, tries, mapVars, linkVars, clientVars, routeVars>>

SendRequestClosed(c) ==
    /\ pc[c] = "send"
    /\ ~ChannelOpen
    /\ Leave(c, "disconnected")

RecvResponse(c) ==
    /\ pc[c] = "wait"
    /\ inbox[c] # Nobody
    /\ pc' = [pc EXCEPT ![c] = "done"]
    /\ result' = [result EXCEPT ![c] = "ok"]
    /\ UNCHANGED <<counter, id, tries, mapVars, linkVars, clientVars, routeVars>>

(* mutant: an empty oneshot is taken for a closed one *)
RecvClosedWhenEmpty(c) ==
    /\ pc[c] = "wait"
    /\ inbox[c] = Nobody
    /\ Leave(c, "disconnected")

(* RecvError: the oneshot sender was dropped without a response *)
RecvClosed(c) ==
    /\ pc[c] = "wait"
    /\ inbox[c] = Nobody
    /\ \A i \in Ids : pending[i] # c
    /\ Leave(c, "disconnected")

(* mutant: the select has no arm for drain_alive *)
DrainCancelledIgnored(c) ==
    /\ pc[c] = "wait"
    /\ drain # "running"
    /\ UNCHANGED vars

DrainCancelled(c) ==
    /\ pc[c] = "wait"
    /\ drain # "running"
    /\ Leave(c, "disconnected")

(* The timer of request_timeout fires, or the task is aborted.  Both can   *)
(* happen with a response already in the oneshot: the inner future was     *)
(* polled before the response arrived, or is not polled at all.            *)
GiveUp(c) ==
    /\ pc[c] = "wait"
    /\ Leave(c, "gaveup")

(* mutant: the guard is disarmed on every path *)
GuardDropDisarmed(c) ==
    /\ pc[c] = "guard"
    /\ pc' = [pc EXCEPT ![c] = "done"]
    /\ UNCHANGED <<counter, id, tries, result, mapVars, linkVars, clientVars, routeVars>>

(* mutant: the guard clears the map *)
GuardDropAll(c) ==
    /\ pc[c] = "guard"
    /\ pending' = [i \in Ids |-> Nobody]
    /\ pc' = [pc EXCEPT ![c] = "done"]
    /\ UNCHANGED <<counter, id, tries, result, outgoing, inbox, linkVars,
                   clientVars, routeVars>>

(* PendingResponseGuard::drop -> ResponseMap::cancel(id) *)
GuardDrop(c) ==
    /\ pc[c] = "guard"
    /\ pending' = [pending EXCEPT ![id[c]] = Nobody]
    /\ pc' = [pc EXCEPT ![c] = "done"]
    /\ UNCHANGED <<counter, id, tries, result, outgoing, inbox, linkVars,
                   clientVars, routeVars>>

(* notify, respond, Connection::send: one message into the channel *)
Post ==
    /\ posts < MaxPosts
    /\ posts' = posts + 1
    /\ IF ChannelOpen THEN channel' = Append(channel, PostMsg)
                      ELSE UNCHANGED channel
    /\ UNCHANGED <<callerVars, mapVars, drain, clientVars, routeVars>>

---------------------------------------------------------------------------
(* request_queue.outgoing, used by the thread that owns the Connection     *)

(* outgoing.register(id), overwriting an entry, then conn.send(request) *)
RegisterOutgoing(w, i) ==
    /\ router = "read"
    /\ pc[w] = "idle"
    /\ pc' = [pc EXCEPT ![w] = "wait"]
    /\ id' = [id EXCEPT ![w] = i]
    /\ outgoing' = [outgoing EXCEPT ![i] = w]
    /\ channel' = IF ChannelOpen THEN Append(channel, RequestMsg(w, i)) ELSE channel
    /\ UNCHANGED <<counter, tries, result, pending, inbox, posts, drain,
                   clientVars, routeVars>>

(* mutant: the response map is cleared of the id as well *)
CancelOutgoingEverywhere(i) ==
    /\ router = "read"
    /\ posts < MaxPosts
    /\ posts' = posts + 1
    /\ Enqueue(PostMsg)
    /\ outgoing' = [outgoing EXCEPT ![i] = Nobody]
    /\ pending' = IF i \in Ids THEN [pending EXCEPT ![i] = Nobody] ELSE pending
    /\ UNCHANGED <<callerVars, inbox, drain, clientVars, routeVars>>

(* Connection::cancel: $/cancelRequest first, the entry only if it was sent *)
CancelOutgoing(i) ==
    /\ router = "read"
    /\ posts < MaxPosts
    /\ posts' = posts + 1
    /\ \/ /\ Enqueue(PostMsg)
          /\ outgoing' = [outgoing EXCEPT ![i] = Nobody]
       \/ /\ ~ChannelOpen
          /\ UNCHANGED <<channel, outgoing>>
    /\ UNCHANGED <<callerVars, pending, inbox, drain, clientVars, routeVars>>

WaiterRecv(w) ==
    /\ pc[w] = "wait"
    /\ \/ inbox[w] # Nobody /\ result' = [result EXCEPT ![w] = "ok"]
       \/ /\ inbox[w] = Nobody
          /\ \A i \in WaiterIds : outgoing[i] # w
          /\ result' = [result EXCEPT ![w] = "disconnected"]
    /\ pc' = [pc EXCEPT ![w] = "done"]
    /\ UNCHANGED <<counter, id, tries, mapVars, linkVars, clientVars, routeVars>>

(* the application drops the receiver; the table entry stays *)
WaiterAbandon(w) ==
    /\ pc[w] = "wait"
    /\ pc' = [pc EXCEPT ![w] = "done"]
    /\ result' = [result EXCEPT ![w] = "gaveup"]
    /\ UNCHANGED <<counter, id, tries, mapVars, linkVars, clientVars, routeVars>>

---------------------------------------------------------------------------
(* spawn_drain_task.  A write error ends the task: dropping the DropGuard  *)
(* cancels drain_alive, the channel's receiver is dropped after it.        *)

DrainWrite ==
    /\ drain = "running"
    /\ channel # <<>>
    /\ peer = "open"
    /\ channel' = Tail(channel)
    /\ atClient' = IF Head(channel).kind = "request"
                     THEN atClient \cup {ResponseMsg(Head(channel).from, Head(channel).id)}
                     ELSE atClient
    /\ UNCHANGED <<callerVars, mapVars, posts, drain, peer, answered, inbound,
                   routeVars>>

DrainWriteFails ==
    /\ drain = "running"
    /\ channel # <<>>
    /\ channel' = Tail(channel)
    /\ drain' = "closing"
    /\ UNCHANGED <<callerVars, mapVars, posts, clientVars, routeVars>>

(* rx.recv() returns None: the Connection and every handle are dropped *)
DrainSendersGone ==
    /\ drain = "running"
    /\ channel = <<>>
    /\ router \in {"ended", "failed"}
    /\ \A c \in Callers : pc[c] = "done"
    /\ drain' = "closing"
    /\ UNCHANGED <<callerVars, mapVars, channel, posts, clientVars, routeVars>>

DrainClose ==
    /\ drain = "closing"
    /\ drain' = "dead"
    /\ channel' = <<>>
    /\ UNCHANGED <<callerVars, mapVars, posts, clientVars, routeVars>>

---------------------------------------------------------------------------
(* The client.  It answers a request at most once, in any order, or tells  *)
(* the server that it could not parse it (a response with a null id), and  *)
(* it may close its end at any time.                                       *)

ClientAnswer ==
    /\ peer = "open"
    /\ \E r \in atClient :
         /\ atClient' = atClient \ {r}
         /\ \/ /\ inbound' = Append(inbound, ResponseMsg(r.from, r.id))
               /\ answered' = answered \cup {r.from}
            \/ /\ inbound' = Append(inbound, ResponseMsg(r.from, NoId))
               /\ UNCHANGED answered
    /\ UNCHANGED <<callerVars, mapVars, linkVars, peer, routeVars>>

ClientClose ==
    /\ peer = "open"
    /\ peer' = "closed"
    /\ UNCHANGED <<callerVars, mapVars, linkVars, atClient, answered, inbound,
                   routeVars>>

---------------------------------------------------------------------------
(* The main loop: receiver.next(), then the response arm of route().       *)

(* mutant: the entry is removed, the response is not sent *)
RouteOutgoingDrops(r) ==
    IF r.id \in WaiterIds /\ outgoing[r.id] # Nobody
      THEN /\ outgoing' = [outgoing EXCEPT ![r.id] = Nobody]
           /\ verdict' = [verdict EXCEPT ![r.from] = "routed"]
           /\ UNCHANGED inbox
      ELSE /\ verdict' = [verdict EXCEPT ![r.from] = "unknown"]
           /\ UNCHANGED <<outgoing, inbox>>

(* mutant: some pending entry is completed, whatever its id *)
RouteOutgoingAny(r) ==
    \/ \E i \in WaiterIds :
         /\ outgoing[i] # Nobody
         /\ outgoing' = [outgoing EXCEPT ![i] = Nobody]
         /\ inbox' = IF pc[outgoing[i]] = "wait"
                       THEN [inbox EXCEPT ![outgoing[i]] = r.from] ELSE inbox
         /\ verdict' = [verdict EXCEPT ![r.from] = "routed"]
    \/ /\ \A i \in WaiterIds : outgoing[i] = Nobody
       /\ verdict' = [verdict EXCEPT ![r.from] = "unknown"]
       /\ UNCHANGED <<outgoing, inbox>>

(* the part of route() after the response map: outgoing.is_pending and     *)
(* complete, or ResponseUnknown.  The owner's receiver may be gone.        *)
RouteOutgoing(r) ==
    IF r.id \in WaiterIds /\ outgoing[r.id] # Nobody
      THEN /\ outgoing' = [outgoing EXCEPT ![r.id] = Nobody]
           /\ inbox' = IF pc[outgoing[r.id]] = "wait"
                         THEN [inbox EXCEPT ![outgoing[r.id]] = r.from] ELSE inbox
           /\ verdict' = [verdict EXCEPT ![r.from] = "routed"]
      ELSE /\ verdict' = [verdict EXCEPT ![r.from] = "unknown"]
           /\ UNCHANGED <<outgoing, inbox>>

(* response_map.contains(id) under the lock *)
RouteContains ==
    /\ router = "read"
    /\ inbound # <<>>
    /\ inbound' = Tail(inbound)
    /\ LET r == Head(inbound) IN
       IF r.id \in Ids /\ pending[r.id] # Nobody
         THEN /\ router' = "deliver"
              /\ current' = r
              /\ UNCHANGED <<outgoing, inbox, verdict>>
         ELSE RouteOutgoing(r) /\ UNCHANGED <<router, current>>
    /\ UNCHANGED <<callerVars, pending, linkVars, peer, atClient, answered>>

(* mutant: the entry is removed, the response is not sent *)
RouteDeliverDrops ==
    /\ router = "deliver"
    /\ router' = "read"
    /\ current' = NoResponse
    /\ IF pending[current.id] # Nobody
         THEN /\ pending' = [pending EXCEPT ![current.id] = Nobody]
              /\ verdict' = [verdict EXCEPT ![current.from] = "routed"]
              /\ UNCHANGED <<inbox, outgoing>>
         ELSE RouteOutgoing(current) /\ UNCHANGED pending
    /\ UNCHANGED <<callerVars, linkVars, clientVars>>

(* mutant: some waiting call gets the response, whatever its id *)
RouteDeliverAny ==
    /\ router = "deliver"
    /\ router' = "read"
    /\ current' = NoResponse
    /\ \E i \in Ids :
         /\ pending[i] # Nobody
         /\ pending' = [pending EXCEPT ![i] = Nobody]
         /\ inbox' = [inbox EXCEPT ![pending[i]] = current.from]
         /\ verdict' = [verdict EXCEPT ![current.from] = "routed"]
    /\ UNCHANGED <<callerVars, outgoing, linkVars, clientVars>>

(* mutant: the legacy table is completed as well as the response map *)
RouteDeliverBoth ==
    /\ router = "deliver"
    /\ router' = "read"
    /\ current' = NoResponse
    /\ LET r == current
           hit == {pending[r.id]} \cup {outgoing[i] : i \in WaiterIds \cap {r.id}} IN
       /\ pending' = [pending EXCEPT ![r.id] = Nobody]
       /\ outgoing' = [i \in WaiterIds |-> IF i = r.id THEN Nobody ELSE outgoing[i]]
       /\ inbox' = [o \in Origins |-> IF o \in hit THEN r.from ELSE inbox[o]]
       /\ verdict' = [verdict EXCEPT ![r.from] = "routed"]
    /\ UNCHANGED <<callerVars, linkVars, clientVars>>

(* response_map.deliver(id, resp): remove and oneshot send under the lock; *)
(* the entry may have gone, or changed owner, since contains               *)
RouteDeliver ==
    /\ router = "deliver"
    /\ router' = "read"
    /\ current' = NoResponse
    /\ LET r == current
           c == pending[r.id] IN
       IF c # Nobody
         THEN /\ pending' = [pending EXCEPT ![r.id] = Nobody]
              /\ inbox' = IF pc[c] \in {"send", "wait"}
                            THEN [inbox EXCEPT ![c] = r.from] ELSE inbox
              /\ verdict' = [verdict EXCEPT ![r.from] = "routed"]
              /\ UNCHANGED outgoing
         ELSE RouteOutgoing(r) /\ UNCHANGED pending
    /\ UNCHANGED <<callerVars, linkVars, clientVars>>

(* The loop is left and the Connection dropped, with it the entries of     *)
(* request_queue.outgoing.  The response map belongs to the handles too.   *)
LoopEnds(how) ==
    /\ router = "read"
    /\ router' = how
    /\ outgoing' = [i \in WaiterIds |-> Nobody]
    /\ UNCHANGED <<callerVars, pending, inbox, linkVars, clientVars, current, verdict>>

(* mutant: the end of the stream is taken with responses still buffered *)
RouterEndsEarly ==
    /\ peer = "closed"
    /\ LoopEnds("ended")

(* receiver.next() is None *)
RouterEnds ==
    /\ inbound = <<>>
    /\ peer = "closed"
    /\ LoopEnds("ended")

(* receiver.next() is an error, of the transport or of the codec (a frame  *)
(* it cannot decode): break.  Responses behind it are never read.          *)
RouterFails == LoopEnds("failed")

---------------------------------------------------------------------------
CallerStep(c) ==
    \/ Retry(c) \/ TryRegister(c) \/ TryRegisterTaken(c)
    \/ SendRequest(c) \/ SendRequestClosed(c)
    \/ RecvResponse(c) \/ RecvClosed(c) \/ DrainCancelled(c) \/ GuardDrop(c)
DrainStep == DrainWrite \/ DrainWriteFails \/ DrainSendersGone \/ DrainClose
RouterStep == RouteContains \/ RouteDeliver \/ RouterEnds

Next ==
    \/ \E c \in Callers : Request(c) \/ CallerStep(c) \/ GiveUp(c)
    \/ \E w \in Waiters : \/ \E i \in WaiterIds : RegisterOutgoing(w, i)
                          \/ WaiterRecv(w) \/ WaiterAbandon(w)
    \/ \E i \in WaiterIds : CancelOutgoing(i)
    \/ Post
    \/ DrainStep
    \/ ClientAnswer \/ ClientClose
    \/ RouterStep \/ RouterFails

(* Spawned tasks and the main loop are polled by the runtime whenever they *)
(* are ready.  Nothing obliges the client, a timer or the application, and *)
(* no error has to happen.                                                 *)
Fairness ==
    /\ \A c \in Callers : WF_vars(CallerStep(c))
    /\ \A w \in Waiters : WF_vars(WaiterRecv(w))
    /\ WF_vars(DrainStep)
    /\ WF_vars(RouterStep)

Spec == Init /\ [][Next]_vars
FairSpec == Spec /\ Fairness

---------------------------------------------------------------------------
Messages == [kind : {"request"}, id : Nat, from : Origins] \cup {PostMsg}
Responses == [id : Nat, from : Origins]

(* The type invariant. *)
TypeOK ==
    /\ counter \in [Handles -> Ids]
    /\ pc \in [Origins -> {"idle", "reserve", "try", "send", "wait", "guard", "done"}]
    /\ id \in [Origins -> Nat]
    /\ tries \in [Callers -> 0..MaxRetries]
    /\ result \in [Origins -> {"none", "ok", "io", "disconnected", "gaveup"}]
    /\ pending \in [Ids -> Callers \cup {Nobody}]
    /\ outgoing \in [WaiterIds -> Waiters \cup {Nobody}]
    /\ inbox \in [Origins -> Origins \cup {Nobody}]
    /\ channel \in Seq(Messages)
    /\ posts \in 0..MaxPosts
    /\ drain \in {"running", "closing", "dead"}
    /\ peer \in {"open", "closed"}
    /\ atClient \subseteq Responses
    /\ answered \subseteq Origins
    /\ inbound \in Seq(Responses)
    /\ router \in {"read", "deliver", "ended", "failed"}
    /\ current \in IF router = "deliver" THEN [id : Ids, from : Origins] ELSE {NoResponse}
    /\ verdict \in [Origins -> {"none", "routed", "unknown"}]

(* A caller holds a registered id from try_register on, a waiter from      *)
(* register on; ids are kept in the state after the call has ended.        *)
Registered(o) ==
    IF o \in Callers THEN /\ pc[o] \in {"send", "wait", "guard", "done"}
                          /\ result[o] # "io"
                     ELSE pc[o] # "idle"

(* No other request of this connection has used the id of this one. *)
Unshared(o) ==
    \A p \in Origins :
        o # p /\ Registered(o) /\ Registered(p) => id[o] # id[p]

(* No id has been used for two requests of this connection. *)
IdsDistinct == \A o \in Origins : Unshared(o)

(* No leak: whatever way a call ends (response, closed channel, timeout,   *)
(* abort, disconnection), the response map keeps no entry of it.  Every    *)
(* entry belongs to a call in progress that registered this very id.       *)
NoLeakedSlot ==
    \A i \in Ids : pending[i] # Nobody =>
        /\ pc[pending[i]] \in {"send", "wait", "guard"}
        /\ id[pending[i]] = i

(* Correlation: a oneshot only ever receives the client's answer to the   *)
(* request it was created for, unless another request has used its id.     *)
(* Collisions elsewhere do no harm.                                        *)
OwnResponse ==
    \A o \in Origins : Unshared(o) => inbox[o] \in {Nobody, o}

(* Correlation whatever ids are used, by both tables at once too: the      *)
(* response in a oneshot carries the id the oneshot was registered under,  *)
(* and no response completes two oneshots.                                 *)
DeliveredById ==
    \A o \in Origins : inbox[o] # Nobody =>
        /\ id[inbox[o]] = id[o]
        /\ \A p \in Origins : inbox[p] = inbox[o] => p = o

(* request() reports Disconnected only when the drain task has really      *)
(* ended, unless another request has used its id: the cleanup, delivery or *)
(* retry of a call with another id never makes the oneshot sender vanish.  *)
HonestDisconnect ==
    \A c \in Callers :
        Unshared(c) /\ result[c] = "disconnected" => drain # "running"

(* "ResponseRouted ... The awaiting task will receive it": a response that *)
(* route() reports as routed is in the waiting task's oneshot, unless      *)
(* that task was already on its way out of the call.                       *)
RoutedReaches ==
    IdsDistinct => \A o \in Origins : verdict[o] = "routed" =>
        inbox[o] = o \/ result[o] \in {"gaveup", "disconnected"}

(* No answer is lost: route() calls the answer to a request() unknown only *)
(* if the call is over without it, as long as no id is reused.             *)
NoAnswerLost ==
    IdsDistinct => \A c \in Callers : verdict[c] = "unknown" /\ c \in answered =>
        result[c] \in {"gaveup", "disconnected"}

(* A response that arrives after its call has returned is never reported   *)
(* as routed (the late-response tests of client_sender.rs).                *)
LateResponse(c) ==
    pc[c] = "done" /\ verdict[c] = "none" => verdict'[c] # "routed"
LateResponseUnknown ==
    [][\A c \in Callers : IdsDistinct' => LateResponse(c)]_vars

(* The ids of ClientSender requests are unique ("Generates the next unique *)
(* request ID", next_id).                                                  *)
UniqueIds ==
    \A c, d \in Callers :
        c # d /\ Registered(c) /\ Registered(d) => id[c] # id[d]

(* The late-response tests without the proviso on ids. *)
LateResponseNotSwallowed == [][\A c \in Callers : LateResponse(c)]_vars

InFlight(c) == pc[c] \in {"reserve", "try", "send", "wait", "guard"}

(* Once the drain task is gone, every call in progress returns: none waits *)
(* for a response that can no longer be asked for.                         *)
DrainDeathReleases ==
    \A c \in Callers : (drain # "running" /\ InFlight(c)) ~> pc[c] = "done"

(* The client's answer to the call is on its way to the main loop. *)
AnswerComing(c) == \E k \in 1..Len(inbound) : inbound[k] = ResponseMsg(c, id[c])

(* Once the client's answer is on its way, the call it answers returns,    *)
(* unless the main loop broke off on an error before it read the answer.   *)
AnsweredReturns ==
    \A c \in Callers :
        AnswerComing(c) ~> pc[c] = "done" \/ (router = "failed" /\ AnswerComing(c))

(* The client closing its end releases every waiting call ("instead of     *)
(* hanging forever waiting for a response that will never arrive").        *)
PeerCloseReleases ==
    \A c \in Callers : (peer = "closed" /\ pc[c] = "wait") ~> pc[c] = "done"

---------------------------------------------------------------------------
(* The inductive invariant behind NoLeakedSlot, OwnResponse,               *)
(* HonestDisconnect, RoutedReaches and NoAnswerLost.                       *)

(* where a call can be, given what it has tried and returned *)
CallShape ==
    \A c \in Callers :
        /\ pc[c] \in {"idle", "reserve", "try"} =>
               tries[c] < MaxRetries /\ inbox[c] = Nobody
        /\ pc[c] # "idle" => id[c] \in Ids
        /\ pc[c] \in {"idle", "reserve", "try", "send", "wait"} => result[c] = "none"
        /\ pc[c] = "guard" => result[c] # "io"

(* a oneshot sender is used once *)
DeliveredOnce ==
    \A c \in Callers : inbox[c] # Nobody => \A i \in Ids : pending[i] # c

OutgoingOwned ==
    \A i \in WaiterIds : outgoing[i] # Nobody =>
        pc[outgoing[i]] # "idle" /\ id[outgoing[i]] = i

(* every message in flight carries the id its origin registered *)
Genuine(o, i) == o \in Origins /\ Registered(o) /\ i = id[o]
GenuineAnswer(r) == r.id = NoId \/ Genuine(r.from, r.id)
Items(q) == {q[k] : k \in DOMAIN q}
InTransit ==
    /\ \A m \in Items(channel) : m.kind = "request" => Genuine(m.from, m.id)
    /\ \A r \in atClient : Genuine(r.from, r.id)
    /\ \A r \in Items(inbound) : GenuineAnswer(r)
    /\ \A r \in {current} : router = "deliver" => Genuine(r.from, r.id)

(* a call in progress still has its sender in the map, or its response *)
Held ==
    \A c \in Callers :
        Unshared(c) /\ pc[c] \in {"send", "wait"} => pending[id[c]] = c \/ inbox[c] # Nobody

(* what a call returned, and what a table may still hold of it *)
Outcomes ==
    /\ \A c \in Callers :
         /\ pc[c] = "guard" => result[c] \in {"gaveup", "disconnected"}
         /\ pc[c] = "done" => result[c] # "none"
         /\ result[c] = "ok" => inbox[c] # Nobody
    /\ \A w \in Waiters :
         /\ pc[w] # "done" => result[w] = "none"
         /\ IF pc[w] = "idle" THEN inbox[w] = Nobody ELSE id[w] \in WaiterIds
    /\ \A i \in WaiterIds : outgoing[i] # Nobody =>
         /\ inbox[outgoing[i]] = Nobody
         /\ \/ pc[outgoing[i]] = "wait"
            \/ pc[outgoing[i]] = "done" /\ result[outgoing[i]] = "gaveup"

(* One message speaks of a request at any time: the request in the channel *)
(* or at the client, the response on its way or in route(), or route()'s   *)
(* verdict.  There is none before the request is sent.                     *)
Queued(q, o) == \E k \in DOMAIN q : q[k].from = o
Once(q, o) == \A j, k \in DOMAIN q : q[j].from = o /\ q[k].from = o => j = k
AtClient(o) == \E r \in atClient : r.from = o
Asked(o) == Queued(channel, o) \/ AtClient(o)
InRoute(o) == router = "deliver" /\ current.from = o
Judged(o) == verdict[o] # "none"
Unsent(o) == pc[o] \in {"idle", "reserve", "try", "send"} \/ result[o] = "io"
SpokenOnce(o) ==
    /\ Once(channel, o) /\ Once(inbound, o)
    /\ Queued(channel, o) => ~AtClient(o)
    /\ Asked(o) => ~Queued(inbound, o) /\ ~InRoute(o) /\ ~Judged(o) /\ o \notin answered
    /\ Queued(inbound, o) => ~InRoute(o) /\ ~Judged(o)
    /\ InRoute(o) => ~Judged(o)
    /\ Unsent(o) =>
         ~Asked(o) /\ ~Queued(inbound, o) /\ ~InRoute(o) /\ ~Judged(o) /\ o \notin answered
OneMessage == \A o \in Origins : SpokenOnce(o)

(* responses that carry an id are the client's answers *)
AnswersReal ==
    /\ \A r \in Items(inbound) : r.id = NoId <=> r.from \notin answered
    /\ router = "deliver" => current.from \in answered
    /\ \A o \in Origins : inbox[o] # Nobody => inbox[o] \in answered

(* a response in a oneshot answers a request with the oneshot's id, and is *)
(* nowhere else any more                                                   *)
Consumed ==
    \A o \in Origins : inbox[o] # Nobody =>
        /\ Registered(o) /\ Genuine(inbox[o], id[o])
        /\ ~Queued(inbound, inbox[o]) /\ ~InRoute(inbox[o])

(* a call has its response only from route() *)
Fulfilled ==
    IdsDistinct => \A c \in Callers : inbox[c] # Nobody => verdict[c] = "routed"

(* All of it: the entries of both tables, the messages on their way, the   *)
(* oneshots and route()'s verdicts agree with the calls that own them,     *)
(* through every interleaving of route(), the guards, retries and          *)
(* wrapped-around ids.                                                     *)
Correlated ==
    /\ CallShape
    /\ NoLeakedSlot
    /\ DeliveredOnce
    /\ OutgoingOwned
    /\ InTransit
    /\ Consumed
    /\ DeliveredById
    /\ Held
    /\ OwnResponse
    /\ HonestDisconnect
    /\ Outcomes
    /\ OneMessage
    /\ AnswersReal
    /\ Fulfilled
    /\ RoutedReaches
    /\ NoAnswerLost

---------------------------------------------------------------------------
(* The promise of RequestResponse, kept by ClientSender: what a caller     *)
(* sees is the abstract call with the machinery hidden.  An answer the     *)
(* main loop will not come to read is no answer.                           *)
Unread(c) == router = "failed" /\ Queued(inbound, c)
Calls == INSTANCE RequestResponse WITH
    call <- [c \in Callers |-> IF result[c] # "none" THEN result[c]
                               ELSE IF pc[c] = "idle" THEN "idle" ELSE "active"],
    answered <- {c \in Callers \cap answered : ~Unread(c)},
    link <- IF drain = "running" THEN "up" ELSE "down",
    reader <- IF router = "failed" THEN "off" ELSE "on"
KeepsPromise == Calls!FairSpec
===========================================================================
