------------------------ MODULE ClientSender_proofs ------------------------
(***************************************************************************)
(* Proofs about ClientSender, for every set of callers, waiters, handles   *)
(* and ids.                                                                *)
(***************************************************************************)
EXTENDS ClientSender, TLAPS

(* The types of ClientSender, wide enough for the states that the           *)
(* deprecated send_request adds (module Blocking): every lemma about a     *)
(* step of Next then serves both specifications.                           *)
Places == {"idle", "reserve", "try", "send", "wait", "guard", "done", "blocked"}
Verdicts == {"none", "routed", "unknown", "discarded"}
Types ==
    /\ counter \in [Handles -> Ids]
    /\ pc \in [Origins -> Places]
    /\ id \in [Origins -> Nat]
    /\ tries \in [Callers -> 0..MaxRetries]
    /\ result \in [Origins -> {"none", "ok", "io", "disconnected", "gaveup"}]
    /\ pending \in [Ids -> Callers \cup {Nobody}]
    /\ outgoing \in [WaiterIds -> Waiters \cup {Nobody}]
    /\ inbox \in [Origins -> Origins \cup {Nobody}]
    /\ channel \in Seq(Messages)
    /\ posts \in 0..MaxPosts
    /\ drain \in {"running", "closing", "dead"}
    /\ peer \in {"open", "closed"}
    /\ atClient \subseteq Responses
    /\ answered \subseteq Origins
    /\ inbound \in Seq(Responses)
    /\ router \in {"read", "deliver", "ended", "failed", "blocked"}
    /\ current \in IF router = "deliver" THEN [id : Ids, from : Origins] ELSE {NoResponse}
    /\ verdict \in [Origins -> Verdicts]

(* No send_request is or was waiting. *)
Unblocked ==
    /\ \A o \in Origins : pc[o] # "blocked" /\ verdict[o] # "discarded"
    /\ router # "blocked"

USE DEF Places, Verdicts

(* One more notify, respond or send stays within the bound. *)
LEMMA PostsBound ==
    ASSUME posts \in 0..MaxPosts, posts < MaxPosts
    PROVE  posts + 1 \in 0..MaxPosts
BY BoundsAssumption

(* Sending and receiving keep a queue a sequence of its messages. *)
LEMMA QueueType ==
    ASSUME NEW S, NEW q \in Seq(S)
    PROVE  /\ \A m \in S : Append(q, m) \in Seq(S)
           /\ q # <<>> => Head(q) \in S /\ Tail(q) \in Seq(S)
OBVIOUS

(* What Init establishes. *)
LEMMA InitType == Init => Types /\ CallShape
BY OriginsAssumption, HandlesAssumption, BoundsAssumption
DEF Init, Types, CallShape, Origins, Ids, NoId, Responses, Messages, NoResponse,
    ResponseMsg

(* fetch_update keeps the counter within 1..MaxId, wrapping at MaxId. *)
LEMMA NextIdType ==
    ASSUME Types, NEW c \in Callers, NextId(c)
    PROVE  /\ id' \in [Origins -> Nat]
           /\ id'[c] \in Ids
           /\ \A o \in Origins : o # c => id'[o] = id[o]
           /\ counter' \in [Handles -> Ids]
BY HandlesAssumption, BoundsAssumption, OriginsAssumption
DEF Types, NextId, Ids, Origins

(* Every step of a caller keeps the types and the shape of calls. *)
LEMMA CallerType ==
    ASSUME Types, CallShape, NEW c \in Callers,
           Request(c) \/ CallerStep(c) \/ GiveUp(c)
    PROVE  Types' /\ CallShape'
<1> USE OriginsAssumption, BoundsAssumption DEF Origins
<1>1. CASE Request(c) \/ Retry(c)
  <2>1. NextId(c)
    BY <1>1 DEF Request, Retry
  <2>2. /\ pc \in [Origins -> Places]
        /\ pc[c] \in {"idle", "reserve"}
        /\ pc' = [pc EXCEPT ![c] = "try"]
        /\ UNCHANGED <<tries, result, pending, outgoing, inbox, channel, posts, drain,
                       peer, atClient, answered, inbound, router, current, verdict>>
    BY <1>1 DEF Request, Retry, Types, mapVars, linkVars, clientVars, routeVars
  <2>3. Types'
    BY <2>1, <2>2, NextIdType DEF Types
  <2>4. CallShape'
    BY <2>1, <2>2, NextIdType DEF CallShape
  <2> QED
    BY <2>3, <2>4
<1>2. CASE TryRegister(c)
  BY <1>2 DEF TryRegister, Types, CallShape, linkVars, clientVars, routeVars
<1>3. CASE TryRegisterTaken(c)
  <2>1. tries[c] \in Nat /\ tries[c] < MaxRetries
    BY <1>3 DEF TryRegisterTaken, Types, CallShape
  <2>2. Types'
    <3>1. tries[c] + 1 \in 0..MaxRetries
      BY <2>1
    <3>2. tries' \in [Callers -> 0..MaxRetries]
      BY <1>3, <3>1 DEF TryRegisterTaken, Types
    <3>3. /\ pc' \in [Origins -> Places]
          /\ result' \in [Origins -> {"none", "ok", "io", "disconnected", "gaveup"}]
      BY <1>3 DEF TryRegisterTaken, Types
    <3> QED
      BY <1>3, <3>2, <3>3
      DEF TryRegisterTaken, Types, mapVars, linkVars, clientVars, routeVars
  <2>3. CallShape'
    BY <1>3, <2>1
    DEF TryRegisterTaken, Types, CallShape, mapVars, linkVars, clientVars, routeVars
  <2> QED
    BY <2>2, <2>3
<1>4. CASE SendRequest(c)
  BY <1>4 DEF SendRequest, Enqueue, RequestMsg, Types, CallShape, Messages,
              mapVars, clientVars, routeVars
<1>5. CASE SendRequestClosed(c) \/ RecvClosed(c) \/ DrainCancelled(c) \/ GiveUp(c)
  <2>1. PICK outcome \in {"disconnected", "gaveup"} : Leave(c, outcome)
    BY <1>5 DEF SendRequestClosed, RecvClosed, DrainCancelled, GiveUp
  <2>2. id[c] \in Ids
    BY <1>5 DEF SendRequestClosed, RecvClosed, DrainCancelled, GiveUp, CallShape
  <2> QED
    BY <2>1, <2>2
    DEF Leave, Types, CallShape, mapVars, linkVars, clientVars, routeVars
<1>6. CASE RecvResponse(c)
  BY <1>6 DEF RecvResponse, Types, CallShape, mapVars, linkVars, clientVars, routeVars
<1>7. CASE GuardDrop(c)
  BY <1>7 DEF GuardDrop, Types, CallShape, linkVars, clientVars, routeVars
<1> QED
  BY <1>1, <1>2, <1>3, <1>4, <1>5, <1>6, <1>7 DEF CallerStep

(* The response arm of route() after the response map keeps the types, and *)
(* only ever fills the oneshot of a waiter.                                *)
LEMMA RouteOutgoingType ==
    ASSUME Types, NEW r \in Responses \cup {NoResponse}, RouteOutgoing(r)
    PROVE  /\ outgoing' \in [WaiterIds -> Waiters \cup {Nobody}]
           /\ inbox' \in [Origins -> Origins \cup {Nobody}]
           /\ verdict' \in [Origins -> Verdicts]
           /\ \A c \in Callers : inbox'[c] = inbox[c]
<1> USE OriginsAssumption DEF Types, Origins
<1>1. CASE r.id \in WaiterIds /\ outgoing[r.id] # Nobody
  <2>1. outgoing[r.id] \in Waiters /\ r.from \in Origins \cup {Nobody}
    BY <1>1 DEF Responses, NoResponse, ResponseMsg
  <2>2. /\ outgoing' = [outgoing EXCEPT ![r.id] = Nobody]
        /\ inbox' \in {inbox, [inbox EXCEPT ![outgoing[r.id]] = r.from]}
        /\ verdict' = [verdict EXCEPT ![r.from] = "routed"]
    BY <1>1 DEF RouteOutgoing
  <2> QED
    BY <2>1, <2>2
<1>2. CASE ~(r.id \in WaiterIds /\ outgoing[r.id] # Nobody)
  BY <1>2 DEF RouteOutgoing
<1> QED
  BY <1>1, <1>2

(* CallShape depends on the callers and their oneshots only. *)
LEMMA CallShapeFrame ==
    ASSUME CallShape, UNCHANGED callerVars, \A c \in Callers : inbox'[c] = inbox[c]
    PROVE  CallShape'
BY DEF CallShape, callerVars

(* The application, the drain task, the client and the main loop keep the  *)
(* types and the shape of calls.                                           *)
LEMMA OthersType ==
    ASSUME Types, CallShape,
           \/ \E w \in Waiters : \/ \E i \in WaiterIds : RegisterOutgoing(w, i)
                                 \/ WaiterRecv(w) \/ WaiterAbandon(w)
           \/ \E i \in WaiterIds : CancelOutgoing(i)
           \/ Post \/ DrainStep \/ ClientAnswer \/ ClientClose \/ RouterStep \/ RouterFails
    PROVE  Types' /\ CallShape'
<1> USE OriginsAssumption, BoundsAssumption DEF Origins
<1>1. ASSUME NEW w \in Waiters, NEW i \in WaiterIds, RegisterOutgoing(w, i)
      PROVE  Types' /\ CallShape'
  <2>1. i \in Nat /\ RequestMsg(w, i) \in Messages
    BY DEF RequestMsg, Messages
  <2> QED
    BY <1>1, <2>1 DEF RegisterOutgoing, Types, CallShape, clientVars, routeVars
<1>2. ASSUME NEW w \in Waiters, WaiterRecv(w) \/ WaiterAbandon(w)
      PROVE  Types' /\ CallShape'
  <2>1. /\ pc' = [pc EXCEPT ![w] = "done"]
        /\ \E outcome \in {"ok", "disconnected", "gaveup"} :
               result' = [result EXCEPT ![w] = outcome]
        /\ UNCHANGED <<counter, id, tries, mapVars, linkVars, clientVars, routeVars>>
    BY <1>2 DEF WaiterRecv, WaiterAbandon
  <2>2. Types'
    BY <2>1 DEF Types, mapVars, linkVars, clientVars, routeVars
  <2>3. CallShape'
    BY <2>1 DEF Types, CallShape, mapVars
  <2> QED
    BY <2>2, <2>3
<1>3. ASSUME NEW i \in WaiterIds, CancelOutgoing(i)
      PROVE  Types' /\ CallShape'
  <2>1. PostMsg \in Messages
    BY DEF Messages
  <2>2. /\ outgoing' \in [WaiterIds -> Waiters \cup {Nobody}]
        /\ channel' \in Seq(Messages)
        /\ posts' \in 0..MaxPosts
    <3>1. /\ outgoing \in [WaiterIds -> Waiters \cup {Nobody}]
          /\ channel \in Seq(Messages)
          /\ posts \in 0..MaxPosts
      BY DEF Types
    <3>2. posts' \in 0..MaxPosts
      BY <1>3, <3>1, PostsBound DEF CancelOutgoing
    <3>3. channel' \in Seq(Messages)
      BY <1>3, <2>1, <3>1, QueueType DEF CancelOutgoing, Enqueue
    <3>4. outgoing' \in [WaiterIds -> Waiters \cup {Nobody}]
      BY <1>3, <3>1 DEF CancelOutgoing
    <3> QED
      BY <3>2, <3>3, <3>4
  <2>3. UNCHANGED <<callerVars, pending, inbox, drain, clientVars, routeVars>>
    BY <1>3 DEF CancelOutgoing
  <2> QED
    BY <2>2, <2>3, CallShapeFrame DEF Types, callerVars, clientVars, routeVars
<1>4. CASE Post
  <2>1. PostMsg \in Messages
    BY DEF Messages
  <2>2. channel' \in Seq(Messages) /\ posts' \in 0..MaxPosts
    <3>1. channel \in Seq(Messages) /\ posts \in 0..MaxPosts
      BY DEF Types
    <3>2. posts' \in 0..MaxPosts
      BY <1>4, <3>1, PostsBound DEF Post
    <3>3. channel' \in Seq(Messages)
      BY <1>4, <2>1, <3>1, QueueType DEF Post
    <3> QED
      BY <3>2, <3>3
  <2>3. UNCHANGED <<callerVars, mapVars, drain, clientVars, routeVars>>
    BY <1>4 DEF Post
  <2> QED
    BY <2>2, <2>3, CallShapeFrame DEF Types, callerVars, mapVars, clientVars, routeVars
<1>5. CASE DrainWrite
  <2>1. /\ Head(channel) \in Messages
        /\ Tail(channel) \in Seq(Messages)
    BY <1>5 DEF DrainWrite, Types
  <2>2. atClient' \subseteq Responses
    BY <1>5, <2>1 DEF DrainWrite, Types, ResponseMsg, Messages, PostMsg, Responses
  <2> QED
    BY <1>5, <2>1, <2>2 DEF DrainWrite, Types, CallShape, callerVars, mapVars, routeVars
<1>6. CASE DrainWriteFails \/ DrainSendersGone \/ DrainClose
  <2>1. channel' \in Seq(Messages) /\ drain' \in {"closing", "dead"}
    <3>1. channel \in Seq(Messages)
      BY DEF Types
    <3>2. CASE DrainWriteFails
      BY <3>1, <3>2, QueueType DEF DrainWriteFails
    <3>3. CASE DrainSendersGone
      BY <3>1, <3>3 DEF DrainSendersGone
    <3>4. CASE DrainClose
      BY <3>4 DEF DrainClose
    <3> QED
      BY <1>6, <3>2, <3>3, <3>4
  <2>2. UNCHANGED <<callerVars, mapVars, posts, clientVars, routeVars>>
    BY <1>6 DEF DrainWriteFails, DrainSendersGone, DrainClose
  <2> QED
    BY <2>1, <2>2, CallShapeFrame DEF Types, callerVars, mapVars, clientVars, routeVars
<1>7. CASE ClientAnswer
  <2>1. PICK r \in atClient :
          /\ atClient' = atClient \ {r}
          /\ \/ /\ inbound' = Append(inbound, ResponseMsg(r.from, r.id))
                /\ answered' = answered \cup {r.from}
             \/ /\ inbound' = Append(inbound, ResponseMsg(r.from, NoId))
                /\ UNCHANGED answered
    BY <1>7 DEF ClientAnswer
  <2>2. /\ ResponseMsg(r.from, r.id) \in Responses
        /\ ResponseMsg(r.from, NoId) \in Responses
    BY DEF Types, ResponseMsg, Responses, NoId
  <2>3. r.from \in Origins
    BY DEF Types, Responses
  <2>4. /\ atClient' \subseteq Responses
        /\ inbound' \in Seq(Responses)
        /\ answered' \subseteq Origins
    <3>1. atClient \subseteq Responses /\ inbound \in Seq(Responses) /\ answered \subseteq Origins
      BY DEF Types
    <3>2. inbound' \in Seq(Responses)
      BY <2>1, <2>2, <3>1, QueueType
    <3> QED
      BY <2>1, <2>3, <3>1, <3>2
  <2> QED
    BY <1>7, <2>4, CallShapeFrame
    DEF ClientAnswer, Types, callerVars, mapVars, linkVars, routeVars
<1>8. CASE ClientClose
  BY <1>8 DEF ClientClose, Types, CallShape, callerVars, mapVars, linkVars, routeVars
<1>9. CASE RouteContains
  <2>1. Head(inbound) \in Responses /\ Tail(inbound) \in Seq(Responses)
    BY <1>9 DEF RouteContains, Types
  <2>2. CASE RouteOutgoing(Head(inbound)) /\ UNCHANGED <<router, current>>
    BY <1>9, <2>1, <2>2, RouteOutgoingType
    DEF RouteContains, Types, CallShape, callerVars, linkVars
  <2>3. CASE /\ Head(inbound).id \in Ids
             /\ router' = "deliver" /\ current' = Head(inbound)
             /\ UNCHANGED <<outgoing, inbox, verdict>>
    <3>1. current' \in [id : Ids, from : Origins]
      BY <2>1, <2>3 DEF Responses
    <3> QED
      BY <1>9, <2>1, <2>3, <3>1, CallShapeFrame DEF RouteContains, Types, callerVars, linkVars
  <2> QED
    BY <1>9, <2>2, <2>3 DEF RouteContains
<1>10. CASE RouteDeliver
  <2>1. router' = "read" /\ current' \in {NoResponse}
    BY <1>10 DEF RouteDeliver
  <2>2. CASE pending[current.id] = Nobody
    <3>1. current \in Responses
      BY <1>10 DEF RouteDeliver, Types, Responses, Ids
    <3>2. /\ RouteOutgoing(current)
          /\ UNCHANGED <<pending, callerVars, linkVars, clientVars>>
      BY <1>10, <2>2 DEF RouteDeliver
    <3> QED
      BY <2>1, <3>1, <3>2, RouteOutgoingType, CallShapeFrame
      DEF Types, callerVars, linkVars, clientVars
  <2>3. CASE pending[current.id] # Nobody
    <3>1. /\ pending' = [pending EXCEPT ![current.id] = Nobody]
          /\ \/ inbox' = inbox
             \/ /\ inbox' = [inbox EXCEPT ![pending[current.id]] = current.from]
                /\ pc[pending[current.id]] \in {"send", "wait"}
          /\ verdict' = [verdict EXCEPT ![current.from] = "routed"]
          /\ router' = "read"
          /\ UNCHANGED <<outgoing, callerVars, linkVars, clientVars>>
      BY <1>10, <2>3 DEF RouteDeliver
    <3>2. /\ pending' \in [Ids -> Callers \cup {Nobody}]
          /\ verdict' \in [Origins -> Verdicts]
      BY <3>1 DEF Types
    <3>3. current.from \in Origins \cup {Nobody}
      BY DEF Types, Responses, NoResponse, ResponseMsg
    <3>4. inbox' \in [Origins -> Origins \cup {Nobody}]
      BY <3>1, <3>3 DEF Types
    <3>5. Types'
      BY <2>1, <3>1, <3>2, <3>4 DEF Types, callerVars, linkVars, clientVars
    <3>6. CallShape'
      BY <3>1 DEF Types, CallShape, callerVars
    <3> QED
      BY <3>5, <3>6
  <2> QED
    BY <2>2, <2>3
<1>11. CASE RouterEnds \/ RouterFails
  BY <1>11 DEF RouterEnds, RouterFails, LoopEnds, Types, CallShape, callerVars, linkVars, clientVars
<1> QED
  BY <1>1, <1>2, <1>3, <1>4, <1>5, <1>6, <1>7, <1>8, <1>9, <1>10, <1>11
  DEF DrainStep, RouterStep

(* Types and CallShape are inductive together: the bound on tries needs   *)
(* to know that a call still trying has attempts left.                     *)
LEMMA StepType == Types /\ CallShape /\ [Next]_vars => Types' /\ CallShape'
<1> SUFFICES ASSUME Types, CallShape, [Next]_vars
             PROVE  Types' /\ CallShape'
  OBVIOUS
<1>1. CASE UNCHANGED vars
  BY <1>1 DEF vars, callerVars, mapVars, linkVars, clientVars, routeVars, Types, CallShape
<1>2. CASE Next
  BY <1>2, CallerType, OthersType DEF Next
<1> QED
  BY <1>1, <1>2

---------------------------------------------------------------------------
(* The disjuncts of Next that are not steps of a caller *)
OtherStep ==
    \/ \E w \in Waiters : \/ \E i \in WaiterIds : RegisterOutgoing(w, i)
                          \/ WaiterRecv(w) \/ WaiterAbandon(w)
    \/ \E i \in WaiterIds : CancelOutgoing(i)
    \/ Post \/ DrainStep \/ ClientAnswer \/ ClientClose
    \/ RouteContains \/ RouterEnds \/ RouterFails

(* Of the steps of others, only deliver touches the response map, and none *)
(* but deliver touches what a caller sees.                                 *)
LEMMA OthersFrame ==
    ASSUME Types, OtherStep
    PROVE  /\ pending' = pending
           /\ \A c \in Callers : /\ pc'[c] = pc[c]
                                 /\ id'[c] = id[c]
                                 /\ inbox'[c] = inbox[c]
                                 /\ result'[c] = result[c]
<1> USE OriginsAssumption DEF Origins
<1>1. ASSUME NEW w \in Waiters, NEW i \in WaiterIds, RegisterOutgoing(w, i)
      PROVE  /\ pending' = pending
             /\ \A c \in Callers : /\ pc'[c] = pc[c] /\ id'[c] = id[c]
                                   /\ inbox'[c] = inbox[c] /\ result'[c] = result[c]
  BY <1>1 DEF RegisterOutgoing, Types
<1>2. ASSUME NEW w \in Waiters, WaiterRecv(w) \/ WaiterAbandon(w)
      PROVE  /\ pending' = pending
             /\ \A c \in Callers : /\ pc'[c] = pc[c] /\ id'[c] = id[c]
                                   /\ inbox'[c] = inbox[c] /\ result'[c] = result[c]
  BY <1>2 DEF WaiterRecv, WaiterAbandon, Types, mapVars
<1>3. CASE (\E i \in WaiterIds : CancelOutgoing(i)) \/ Post
  BY <1>3 DEF CancelOutgoing, Post, callerVars, mapVars
<1>4. CASE DrainStep
  BY <1>4 DEF DrainStep, DrainWrite, DrainWriteFails, DrainSendersGone, DrainClose,
              callerVars, mapVars
<1>5. CASE ClientAnswer \/ ClientClose \/ RouterEnds \/ RouterFails
  BY <1>5 DEF ClientAnswer, ClientClose, RouterEnds, RouterFails, LoopEnds, callerVars, mapVars
<1>6. CASE RouteContains
  <2>1. Head(inbound) \in Responses
    BY <1>6, QueueType DEF RouteContains, Types
  <2>2. inbox' = inbox \/ RouteOutgoing(Head(inbound))
    BY <1>6 DEF RouteContains
  <2>3. \A c \in Callers : inbox'[c] = inbox[c]
    BY <2>1, <2>2, RouteOutgoingType
  <2> QED
    BY <1>6, <2>3 DEF RouteContains, callerVars
<1> QED
  BY <1>1, <1>2, <1>3, <1>4, <1>5, <1>6 DEF OtherStep

(* The two ways deliver can find the map. *)
LEMMA DeliverCases ==
    ASSUME Types, RouteDeliver
    PROVE  \/ /\ pending[current.id] = Nobody
              /\ pending' = pending
              /\ RouteOutgoing(current)
              /\ \A c \in Callers : inbox'[c] = inbox[c]
           \/ /\ pending[current.id] # Nobody
              /\ pending' = [pending EXCEPT ![current.id] = Nobody]
              /\ inbox' = IF pc[pending[current.id]] \in {"send", "wait"}
                            THEN [inbox EXCEPT ![pending[current.id]] = current.from]
                            ELSE inbox
              /\ outgoing' = outgoing
<1>1. current \in Responses \cup {NoResponse}
  BY BoundsAssumption DEF Types, Responses, Ids
<1>2. CASE pending[current.id] = Nobody
  BY <1>1, <1>2, RouteOutgoingType DEF RouteDeliver
<1>3. CASE pending[current.id] # Nobody
  BY <1>3 DEF RouteDeliver
<1> QED
  BY <1>2, <1>3

(* A step of Next is a step of a caller, a delivery, or one of OtherStep. *)
LEMMA NextCases ==
    ASSUME Next
    PROVE  \/ \E c \in Callers : Request(c) \/ CallerStep(c) \/ GiveUp(c)
           \/ OtherStep
           \/ RouteDeliver
BY DEF Next, OtherStep, RouterStep

(* Without send_request, nothing enters the states it adds. *)
LEMMA UnblockedStep ==
    ASSUME Types, Unblocked, [Next]_vars
    PROVE  Unblocked'
<1> USE OriginsAssumption DEF Origins, Unblocked
<1>1. ASSUME NEW c \in Callers, Request(c) \/ CallerStep(c) \/ GiveUp(c)
      PROVE  Unblocked'
  <2>1. UNCHANGED <<router, verdict>>
    BY <1>1 DEF CallerStep, Request, Retry, TryRegister, TryRegisterTaken, SendRequest,
                SendRequestClosed, RecvResponse, RecvClosed, DrainCancelled, GuardDrop,
                GiveUp, Leave, routeVars
  <2>2. \E s \in {"reserve", "try", "send", "wait", "guard", "done"} :
            pc' = [pc EXCEPT ![c] = s]
    BY <1>1 DEF CallerStep, Request, Retry, TryRegister, TryRegisterTaken, SendRequest,
                SendRequestClosed, RecvResponse, RecvClosed, DrainCancelled, GuardDrop,
                GiveUp, Leave
  <2> QED
    BY <2>1, <2>2 DEF Types
<1>2. ASSUME NEW w \in Waiters, (\E i \in WaiterIds : RegisterOutgoing(w, i))
                                \/ WaiterRecv(w) \/ WaiterAbandon(w)
      PROVE  Unblocked'
  <2>1. /\ UNCHANGED <<router, verdict>>
        /\ \E s \in {"wait", "done"} : pc' = [pc EXCEPT ![w] = s]
    BY <1>2 DEF RegisterOutgoing, WaiterRecv, WaiterAbandon, routeVars
  <2> QED
    BY <2>1 DEF Types
<1>3. CASE \/ \E i \in WaiterIds : CancelOutgoing(i)
           \/ Post \/ DrainStep \/ ClientAnswer \/ ClientClose \/ UNCHANGED vars
  BY <1>3 DEF CancelOutgoing, Post, DrainStep, DrainWrite, DrainWriteFails, DrainSendersGone,
              DrainClose, ClientAnswer, ClientClose, vars, callerVars, routeVars
<1>4. CASE RouterEnds \/ RouterFails
  BY <1>4 DEF RouterEnds, RouterFails, LoopEnds, callerVars
<1>5. CASE RouteContains \/ RouteDeliver
  <2>1. /\ pc' = pc
        /\ router' \in {router, "read", "deliver"}
        /\ \/ verdict' = verdict
           \/ \E o : \E s \in {"routed", "unknown"} : verdict' = [verdict EXCEPT ![o] = s]
    BY <1>5 DEF RouteContains, RouteDeliver, RouteOutgoing, callerVars
  <2> QED
    BY <2>1 DEF Types
<1> QED
  BY <1>1, <1>2, <1>3, <1>4, <1>5, NextCases DEF OtherStep

(* Type correctness, whatever the callers, waiters, handles and bounds. *)
THEOREM TypeCorrect == Spec => [](TypeOK /\ CallShape)
<1>1. Init => Types /\ CallShape /\ Unblocked
  BY InitType DEF Init, Unblocked
<1>2. Types /\ CallShape /\ Unblocked /\ [Next]_vars => Types' /\ CallShape' /\ Unblocked'
  BY StepType, UnblockedStep
<1>3. Types /\ Unblocked => TypeOK
  BY DEF Types, Unblocked, TypeOK
<1> QED
  BY <1>1, <1>2, <1>3, PTL DEF Spec

(* The same in the wider types the lemmas use. *)
LEMMA TypesHold == Spec => [](Types /\ CallShape)
BY InitType, StepType, PTL DEF Spec

(* The response map holds exactly the senders that calls in progress wait  *)
(* on, and a sender that has been used is not in it.                       *)
LEMMA SlotStep ==
    ASSUME Types, CallShape, NoLeakedSlot, DeliveredOnce, [Next]_vars
    PROVE  NoLeakedSlot' /\ DeliveredOnce'
<1> USE OriginsAssumption DEF Origins
<1>1. ASSUME NEW c \in Callers, Request(c) \/ CallerStep(c) \/ GiveUp(c)
      PROVE  NoLeakedSlot' /\ DeliveredOnce'
  <2>1. CASE Request(c) \/ Retry(c)
    <3>1. /\ \A o \in Origins : o # c => id'[o] = id[o]
          /\ pc[c] \in {"idle", "reserve"}
          /\ pc' = [pc EXCEPT ![c] = "try"]
          /\ UNCHANGED <<pending, inbox>>
      BY <2>1, NextIdType DEF Request, Retry, mapVars
    <3> QED
      BY <3>1 DEF Types, NoLeakedSlot, DeliveredOnce
  <2>2. CASE TryRegister(c)
    BY <2>2 DEF TryRegister, Types, CallShape, NoLeakedSlot, DeliveredOnce
  <2>3. CASE TryRegisterTaken(c)
    <3>1. /\ pc[c] = "try"
          /\ \E s \in {"reserve", "done"} : pc' = [pc EXCEPT ![c] = s]
          /\ UNCHANGED <<id, pending, inbox>>
      BY <2>3 DEF TryRegisterTaken, mapVars
    <3> QED
      BY <3>1 DEF Types, NoLeakedSlot, DeliveredOnce
  <2>4. CASE SendRequest(c)
    BY <2>4 DEF SendRequest, Types, NoLeakedSlot, DeliveredOnce, mapVars
  <2>5. CASE SendRequestClosed(c) \/ RecvClosed(c) \/ DrainCancelled(c) \/ GiveUp(c)
    <3>1. /\ pc[c] \in {"send", "wait"}
          /\ pc' = [pc EXCEPT ![c] = "guard"]
          /\ UNCHANGED <<id, pending, inbox>>
      BY <2>5 DEF SendRequestClosed, RecvClosed, DrainCancelled, GiveUp, Leave, mapVars
    <3> QED
      BY <3>1 DEF Types, NoLeakedSlot, DeliveredOnce
  <2>6. CASE RecvResponse(c)
    BY <2>6 DEF RecvResponse, Types, NoLeakedSlot, DeliveredOnce, mapVars
  <2>7. CASE GuardDrop(c)
    BY <2>7 DEF GuardDrop, Types, NoLeakedSlot, DeliveredOnce
  <2> QED
    BY <1>1, <2>1, <2>2, <2>3, <2>4, <2>5, <2>6, <2>7 DEF CallerStep
<1>2. CASE OtherStep
  BY <1>2, OthersFrame DEF Types, NoLeakedSlot, DeliveredOnce
<1>3. CASE RouteDeliver
  <2>1. UNCHANGED <<pc, id>> /\ current.id \in Ids
    BY <1>3 DEF RouteDeliver, callerVars, Types
  <2>2. CASE pending' = pending /\ \A c \in Callers : inbox'[c] = inbox[c]
    BY <2>1, <2>2 DEF Types, NoLeakedSlot, DeliveredOnce
  <2>3. CASE /\ pending[current.id] # Nobody
             /\ pending' = [pending EXCEPT ![current.id] = Nobody]
             /\ inbox' \in {inbox, [inbox EXCEPT ![pending[current.id]] = current.from]}
    <3>1. NoLeakedSlot'
      BY <2>1, <2>3 DEF Types, NoLeakedSlot
    <3>2. DeliveredOnce'
      BY <2>1, <2>3 DEF Types, NoLeakedSlot, DeliveredOnce
    <3> QED
      BY <3>1, <3>2
  <2> QED
    BY <1>3, <2>2, <2>3, DeliverCases
<1>4. CASE UNCHANGED vars
  BY <1>4 DEF vars, callerVars, mapVars, NoLeakedSlot, DeliveredOnce
<1> QED
  BY <1>1, <1>2, <1>3, <1>4, NextCases

(* Whatever way a call ends, the response map keeps no entry of it. *)
THEOREM SlotsNeverLeak == Spec => []NoLeakedSlot
<1>1. Init => NoLeakedSlot /\ DeliveredOnce
  BY OriginsAssumption DEF Init, NoLeakedSlot, DeliveredOnce, Origins
<1>2. Types /\ CallShape /\ NoLeakedSlot /\ DeliveredOnce /\ [Next]_vars
        => NoLeakedSlot' /\ DeliveredOnce'
  BY SlotStep
<1> QED
  BY <1>1, <1>2, TypesHold, PTL DEF Spec

---------------------------------------------------------------------------
(* A request keeps its id for good once it is registered. *)
LEMMA RegisteredStays ==
    ASSUME Types, CallShape, [Next]_vars, NEW o \in Origins, Registered(o)
    PROVE  Registered(o)' /\ id'[o] = id[o]
<1> USE OriginsAssumption DEF Origins, Registered
<1>1. ASSUME NEW c \in Callers, Request(c) \/ CallerStep(c) \/ GiveUp(c)
      PROVE  Registered(o)' /\ id'[o] = id[o]
  <2>1. CASE Request(c) \/ Retry(c)
    <3>1. /\ \A p \in Origins : p # c => id'[p] = id[p]
          /\ pc[c] \in {"idle", "reserve"}
          /\ pc' = [pc EXCEPT ![c] = "try"]
          /\ UNCHANGED result
      BY <2>1, NextIdType DEF Request, Retry
    <3> QED
      BY <3>1 DEF Types
  <2>2. CASE TryRegister(c)
    BY <2>2 DEF TryRegister, Types
  <2>3. CASE TryRegisterTaken(c)
    <3>1. /\ pc[c] = "try"
          /\ \E s \in {"reserve", "done"} : pc' = [pc EXCEPT ![c] = s]
          /\ \E s \in {result[c], "io"} : result' = [result EXCEPT ![c] = s]
          /\ UNCHANGED id
      BY <2>3 DEF TryRegisterTaken, Types
    <3> QED
      BY <3>1 DEF Types
  <2>4. CASE SendRequest(c)
    BY <2>4 DEF SendRequest, Types
  <2>5. CASE SendRequestClosed(c) \/ RecvClosed(c) \/ DrainCancelled(c) \/ GiveUp(c)
    <3>1. /\ pc' = [pc EXCEPT ![c] = "guard"]
          /\ \E s \in {"disconnected", "gaveup"} : result' = [result EXCEPT ![c] = s]
          /\ UNCHANGED id
      BY <2>5 DEF SendRequestClosed, RecvClosed, DrainCancelled, GiveUp, Leave
    <3> QED
      BY <3>1 DEF Types
  <2>6. CASE RecvResponse(c)
    BY <2>6 DEF RecvResponse, Types
  <2>7. CASE GuardDrop(c)
    BY <2>7 DEF GuardDrop, Types
  <2> QED
    BY <1>1, <2>1, <2>2, <2>3, <2>4, <2>5, <2>6, <2>7 DEF CallerStep
<1>2. CASE OtherStep
  <2>1. CASE o \in Callers
    BY <1>2, <2>1, OthersFrame
  <2>2. CASE o \in Waiters
    <3>1. ASSUME NEW w \in Waiters, NEW i \in WaiterIds, RegisterOutgoing(w, i)
          PROVE  Registered(o)' /\ id'[o] = id[o]
      BY <2>2, <3>1 DEF RegisterOutgoing, Types
    <3>2. ASSUME NEW w \in Waiters, WaiterRecv(w) \/ WaiterAbandon(w)
          PROVE  Registered(o)' /\ id'[o] = id[o]
      BY <2>2, <3>2 DEF WaiterRecv, WaiterAbandon, Types
    <3>3. CASE \/ \E i \in WaiterIds : CancelOutgoing(i)
               \/ Post \/ DrainStep \/ ClientAnswer \/ ClientClose
               \/ RouteContains \/ RouterEnds \/ RouterFails
      <4>1. UNCHANGED <<pc, id>>
        BY <3>3 DEF CancelOutgoing, Post, DrainStep, DrainWrite, DrainWriteFails,
                    DrainSendersGone, DrainClose, ClientAnswer, ClientClose,
                    RouteContains, RouterEnds, RouterFails, LoopEnds, callerVars
      <4> QED
        BY <2>2, <4>1
    <3> QED
      BY <1>2, <3>1, <3>2, <3>3 DEF OtherStep
  <2> QED
    BY <2>1, <2>2
<1>3. CASE RouteDeliver \/ UNCHANGED vars
  <2>1. UNCHANGED <<pc, id, result>>
    BY <1>3 DEF RouteDeliver, callerVars, vars
  <2> QED
    BY <2>1
<1> QED
  BY <1>1, <1>2, <1>3, NextCases

(* If nobody shares an id after a step, nobody did before it. *)
LEMMA UnsharedBefore ==
    ASSUME Types, CallShape, [Next]_vars, NEW o \in Origins, Unshared(o)'
    PROVE  Unshared(o)
BY RegisteredStays DEF Unshared

LEMMA IdsDistinctBefore ==
    ASSUME Types, CallShape, [Next]_vars, IdsDistinct'
    PROVE  IdsDistinct
BY UnsharedBefore DEF IdsDistinct

(* A message that carries its origin's id goes on doing so. *)
LEMMA GenuineStays ==
    ASSUME Types, CallShape, [Next]_vars, NEW o, NEW i
    PROVE  Genuine(o, i) => Genuine(o, i)'
BY RegisteredStays DEF Genuine

(* The elements of a queue after sending and after receiving. *)
LEMMA QueueItems ==
    ASSUME NEW S, NEW q \in Seq(S), NEW m \in S
    PROVE  /\ Items(Append(q, m)) \subseteq Items(q) \cup {m}
           /\ q # <<>> => Items(Tail(q)) \subseteq Items(q) /\ Head(q) \in Items(q)
BY DEF Items

(* Every request and every answer on its way carries an id its origin has  *)
(* registered.                                                             *)
LEMMA TransitStep ==
    ASSUME Types, CallShape, InTransit, [Next]_vars
    PROVE  InTransit'
<1> USE OriginsAssumption, BoundsAssumption DEF Origins
<1>1. /\ \A m \in Items(channel) : m.kind = "request" => Genuine(m.from, m.id)'
      /\ \A r \in atClient : Genuine(r.from, r.id)'
      /\ \A r \in Items(inbound) : GenuineAnswer(r)'
      /\ \A r \in {current} : router = "deliver" => Genuine(r.from, r.id)'
  BY GenuineStays DEF InTransit, GenuineAnswer
<1>2. /\ channel \in Seq(Messages)
      /\ inbound \in Seq(Responses)
      /\ atClient \subseteq Responses
  BY DEF Types
<1>3. CASE UNCHANGED <<channel, atClient, inbound, router, current>>
  BY <1>1, <1>3 DEF InTransit
<1>4. ASSUME NEW c \in Callers, Request(c) \/ CallerStep(c) \/ GiveUp(c)
      PROVE  InTransit'
  <2>1. CASE SendRequest(c)
    <3>1. RequestMsg(c, id[c]) \in Messages
      BY DEF RequestMsg, Messages, Types
    <3>2. Genuine(c, id[c])'
      BY <2>1, RegisteredStays
      DEF SendRequest, CallShape, Registered, Genuine, Types
    <3>3. /\ Items(channel') \subseteq Items(channel) \cup {RequestMsg(c, id[c])}
          /\ UNCHANGED <<id, atClient, inbound, router, current>>
      BY <1>2, <2>1, <3>1, QueueItems DEF SendRequest, Enqueue, clientVars, routeVars
    <3>4. \A m \in Items(channel') : m.kind = "request" => Genuine(m.from, m.id)'
      BY <1>1, <3>2, <3>3 DEF RequestMsg, Genuine, Registered
    <3> QED
      BY <1>1, <3>3, <3>4 DEF InTransit
  <2>2. CASE ~SendRequest(c)
    BY <1>3, <1>4, <2>2
    DEF CallerStep, Request, Retry, TryRegister, TryRegisterTaken, SendRequestClosed,
        RecvResponse, RecvClosed, DrainCancelled, GuardDrop, GiveUp, Leave, linkVars,
        clientVars, routeVars
  <2> QED
    BY <2>1, <2>2
<1>5. ASSUME NEW w \in Waiters, NEW i \in WaiterIds, RegisterOutgoing(w, i)
      PROVE  InTransit'
  <2>1. RequestMsg(w, i) \in Messages
    BY DEF RequestMsg, Messages
  <2>2. Genuine(w, i)'
    BY <1>5 DEF RegisterOutgoing, Registered, Genuine, Types
  <2>3. /\ Items(channel') \subseteq Items(channel) \cup {RequestMsg(w, i)}
        /\ UNCHANGED <<atClient, inbound, router, current>>
    BY <1>2, <1>5, <2>1, QueueItems DEF RegisterOutgoing, clientVars, routeVars
  <2>4. \A m \in Items(channel') : m.kind = "request" => Genuine(m.from, m.id)'
    BY <1>1, <2>2, <2>3 DEF RequestMsg, Genuine, Registered
  <2> QED
    BY <1>1, <2>3, <2>4 DEF InTransit
<1>6. CASE \E w \in Waiters : WaiterRecv(w) \/ WaiterAbandon(w)
  BY <1>3, <1>6 DEF WaiterRecv, WaiterAbandon, linkVars, clientVars, routeVars
<1>7. CASE Post \/ \E i \in WaiterIds : CancelOutgoing(i)
  <2>1. PostMsg \in Messages /\ PostMsg.kind # "request"
    BY DEF PostMsg, Messages
  <2>2. /\ Items(channel') \subseteq Items(channel) \cup {PostMsg}
        /\ UNCHANGED <<atClient, inbound, router, current>>
    BY <1>2, <1>7, <2>1, QueueItems DEF Post, CancelOutgoing, Enqueue, clientVars, routeVars
  <2>3. \A m \in Items(channel') : m.kind = "request" => Genuine(m.from, m.id)'
    BY <1>1, <2>1, <2>2
  <2> QED
    BY <1>1, <2>2, <2>3 DEF InTransit
<1>8. CASE DrainWrite
  <2>1. /\ Items(channel') \subseteq Items(channel)
        /\ Head(channel) \in Items(channel)
        /\ UNCHANGED <<inbound, router, current>>
    BY <1>2, <1>8, QueueItems, QueueType DEF DrainWrite, routeVars
  <2>2. ASSUME NEW r \in atClient' PROVE Genuine(r.from, r.id)'
    <3>1. r \in atClient \/ /\ Head(channel).kind = "request"
                            /\ r = ResponseMsg(Head(channel).from, Head(channel).id)
      BY <1>8 DEF DrainWrite
    <3>2. (r.from = Head(channel).from /\ r.id = Head(channel).id) \/ r \in atClient
      BY <3>1 DEF ResponseMsg
    <3> QED
      BY <1>1, <2>1, <3>1, <3>2
  <2> QED
    BY <1>1, <2>1, <2>2 DEF InTransit
<1>9. CASE DrainWriteFails \/ DrainSendersGone \/ DrainClose
  <2>1. Items(<<>>) = {}
    BY DEF Items
  <2>2. Items(channel') \subseteq Items(channel)
    <3>1. CASE DrainWriteFails
      BY <1>2, <3>1, QueueItems, QueueType DEF DrainWriteFails
    <3>2. CASE DrainSendersGone
      BY <3>2 DEF DrainSendersGone
    <3>3. CASE DrainClose
      BY <2>1, <3>3 DEF DrainClose
    <3> QED
      BY <1>9, <3>1, <3>2, <3>3
  <2>3. UNCHANGED <<atClient, inbound, router, current>>
    BY <1>9 DEF DrainWriteFails, DrainSendersGone, DrainClose, clientVars, routeVars
  <2> QED
    BY <1>1, <2>2, <2>3 DEF InTransit
<1>10. CASE ClientAnswer
  <2>1. PICK r \in atClient :
          /\ atClient' = atClient \ {r}
          /\ \/ inbound' = Append(inbound, ResponseMsg(r.from, r.id))
             \/ inbound' = Append(inbound, ResponseMsg(r.from, NoId))
    BY <1>10 DEF ClientAnswer
  <2>2. /\ ResponseMsg(r.from, r.id) \in Responses
        /\ ResponseMsg(r.from, NoId) \in Responses
    BY <1>2 DEF ResponseMsg, Responses, NoId
  <2>3. PICK a \in Responses :
          /\ inbound' = Append(inbound, a)
          /\ a.id = NoId \/ (a.from = r.from /\ a.id = r.id)
    <3> DEFINE same == ResponseMsg(r.from, r.id)
               null == ResponseMsg(r.from, NoId)
    <3>1. /\ same \in Responses /\ same.from = r.from /\ same.id = r.id
          /\ null \in Responses /\ null.id = NoId
          /\ inbound' = Append(inbound, same) \/ inbound' = Append(inbound, null)
      BY <2>1, <2>2 DEF ResponseMsg
    <3> HIDE DEF same, null
    <3> QED
      BY <3>1
  <2>4. \A b \in Items(inbound') : GenuineAnswer(b)'
    <3>1. Items(inbound') \subseteq Items(inbound) \cup {a}
      BY <1>2, <2>3, QueueItems
    <3>2. GenuineAnswer(a)'
      BY <1>1, <2>3 DEF GenuineAnswer
    <3> QED
      BY <1>1, <3>1, <3>2
  <2>5. UNCHANGED <<channel, router, current>>
    BY <1>10 DEF ClientAnswer, linkVars, routeVars
  <2> QED
    BY <1>1, <2>1, <2>4, <2>5 DEF InTransit
<1>11. CASE ClientClose
  BY <1>3, <1>11 DEF ClientClose, linkVars, routeVars
<1>12. CASE RouteContains
  <2>1. /\ Items(inbound') \subseteq Items(inbound)
        /\ Head(inbound) \in Items(inbound)
        /\ UNCHANGED <<channel, atClient>>
    BY <1>2, <1>12, QueueItems, QueueType DEF RouteContains, linkVars
  <2>2. \/ UNCHANGED <<router, current>>
        \/ current' = Head(inbound) /\ Head(inbound).id \in Ids
    BY <1>12 DEF RouteContains
  <2>3. Head(inbound).id # NoId \/ UNCHANGED <<router, current>>
    BY <2>2 DEF Ids, NoId
  <2>4. \A r \in {current'} : router' = "deliver" => Genuine(r.from, r.id)'
    BY <1>1, <2>1, <2>2, <2>3 DEF GenuineAnswer
  <2> QED
    BY <1>1, <2>1, <2>4 DEF InTransit
<1>13. CASE RouteDeliver
  BY <1>1, <1>13 DEF RouteDeliver, InTransit, linkVars, clientVars
<1>14. CASE RouterEnds \/ RouterFails
  BY <1>1, <1>14 DEF RouterEnds, RouterFails, LoopEnds, InTransit, linkVars, clientVars
<1>15. CASE UNCHANGED vars
  BY <1>3, <1>15 DEF vars, linkVars, clientVars, routeVars
<1> QED
  BY <1>4, <1>5, <1>6, <1>7, <1>8, <1>9, <1>10, <1>11, <1>12, <1>13, <1>14, <1>15, NextCases
  DEF OtherStep, DrainStep

---------------------------------------------------------------------------
(* Entries of request_queue.outgoing belong to the waiter that registered  *)
(* under that id.                                                          *)
LEMMA OutgoingStep ==
    ASSUME Types, CallShape, OutgoingOwned, [Next]_vars
    PROVE  OutgoingOwned'
<1> USE OriginsAssumption DEF Origins
<1>1. CASE \A i \in WaiterIds : outgoing'[i] \in {outgoing[i], Nobody}
  <2> SUFFICES ASSUME NEW i \in WaiterIds, outgoing'[i] # Nobody
               PROVE  pc'[outgoing'[i]] # "idle" /\ id'[outgoing'[i]] = i
    BY DEF OutgoingOwned
  <2>1. PICK w \in Waiters : outgoing[i] = w /\ outgoing'[i] = w
    BY <1>1 DEF Types
  <2>2. Registered(w) /\ id[w] = i
    BY <2>1 DEF OutgoingOwned, Registered
  <2>3. Registered(w)' /\ id'[w] = i
    BY <2>2, RegisteredStays
  <2> QED
    BY <2>1, <2>3 DEF Registered
<1>2. ASSUME NEW w \in Waiters, NEW i \in WaiterIds, RegisterOutgoing(w, i)
      PROVE  OutgoingOwned'
  BY <1>2 DEF RegisterOutgoing, OutgoingOwned, Types
<1>3. ASSUME NEW r \in Responses \cup {NoResponse}, RouteOutgoing(r)
      PROVE  \A i \in WaiterIds : outgoing'[i] \in {outgoing[i], Nobody}
  BY <1>3 DEF RouteOutgoing, Types
<1>4. ASSUME NEW c \in Callers, Request(c) \/ CallerStep(c) \/ GiveUp(c)
      PROVE  outgoing' = outgoing
  BY <1>4 DEF CallerStep, Request, Retry, TryRegister, TryRegisterTaken, SendRequest,
              SendRequestClosed, RecvResponse, RecvClosed, DrainCancelled, GuardDrop,
              GiveUp, Leave, mapVars
<1>5. CASE \/ \E w \in Waiters : WaiterRecv(w) \/ WaiterAbandon(w)
           \/ Post \/ DrainStep \/ ClientAnswer \/ ClientClose \/ UNCHANGED vars
  <2>1. outgoing' = outgoing
    BY <1>5 DEF WaiterRecv, WaiterAbandon, Post, DrainStep, DrainWrite, DrainWriteFails,
                DrainSendersGone, DrainClose, ClientAnswer, ClientClose, vars, mapVars
  <2> QED
    BY <1>1, <2>1
<1>6. CASE (\E i \in WaiterIds : CancelOutgoing(i)) \/ RouterEnds \/ RouterFails
  <2>1. \A i \in WaiterIds : outgoing'[i] \in {outgoing[i], Nobody}
    BY <1>6 DEF CancelOutgoing, RouterEnds, RouterFails, LoopEnds, Types
  <2> QED
    BY <1>1, <2>1
<1>7. CASE RouteContains
  <2>1. Head(inbound) \in Responses
    BY <1>7, QueueType DEF RouteContains, Types
  <2>2. RouteOutgoing(Head(inbound)) \/ outgoing' = outgoing
    BY <1>7 DEF RouteContains
  <2> QED
    BY <1>1, <1>3, <2>1, <2>2
<1>8. CASE RouteDeliver
  <2>1. current \in Responses
    BY <1>8, BoundsAssumption DEF RouteDeliver, Types, Responses, Ids
  <2>2. RouteOutgoing(current) \/ outgoing' = outgoing
    BY <1>8, DeliverCases
  <2> QED
    BY <1>1, <1>3, <2>1, <2>2
<1> QED
  BY <1>1, <1>2, <1>4, <1>5, <1>6, <1>7, <1>8, NextCases DEF OtherStep

(* While nobody shares its id, a call in progress keeps its sender in the  *)
(* map until its response is in the oneshot: no guard of another call      *)
(* removes it, whatever ids those calls share.                             *)
LEMMA HeldStep ==
    ASSUME Types, CallShape, NoLeakedSlot, Held, [Next]_vars
    PROVE  Held'
<1> USE OriginsAssumption DEF Origins
<1> SUFFICES ASSUME NEW c \in Callers, Unshared(c)', pc'[c] \in {"send", "wait"}
             PROVE  pending'[id'[c]] = c \/ inbox'[c] # Nobody
  BY DEF Held
<1>1. Unshared(c)
  BY UnsharedBefore
<1>2. ASSUME pc[c] \in {"send", "wait"}
      PROVE  /\ pending[id[c]] = c \/ inbox[c] # Nobody
             /\ Registered(c) /\ id[c] \in Ids
  BY <1>1, <1>2 DEF Held, CallShape, Registered
<1>3. ASSUME NEW d \in Callers, Request(d) \/ CallerStep(d) \/ GiveUp(d)
      PROVE  pending'[id'[c]] = c \/ inbox'[c] # Nobody
  <2>1. CASE Request(d) \/ Retry(d)
    <3>1. /\ \A o \in Origins : o # d => id'[o] = id[o]
          /\ pc' = [pc EXCEPT ![d] = "try"]
          /\ UNCHANGED <<pending, inbox>>
      BY <2>1, NextIdType DEF Request, Retry, mapVars
    <3> QED
      BY <1>2, <3>1 DEF Types
  <2>2. CASE TryRegister(d)
    BY <1>2, <2>2 DEF TryRegister, Types, CallShape
  <2>3. CASE TryRegisterTaken(d)
    <3>1. /\ \E s \in {"reserve", "done"} : pc' = [pc EXCEPT ![d] = s]
          /\ UNCHANGED <<id, pending, inbox>>
      BY <2>3 DEF TryRegisterTaken, mapVars
    <3> QED
      BY <1>2, <3>1 DEF Types
  <2>4. CASE SendRequest(d)
    BY <1>2, <2>4 DEF SendRequest, Types, mapVars
  <2>5. CASE \/ SendRequestClosed(d) \/ RecvClosed(d) \/ DrainCancelled(d) \/ GiveUp(d)
             \/ RecvResponse(d)
    <3>1. /\ \E s \in {"guard", "done"} : pc' = [pc EXCEPT ![d] = s]
          /\ UNCHANGED <<id, pending, inbox>>
      BY <2>5 DEF SendRequestClosed, RecvClosed, DrainCancelled, GiveUp, RecvResponse,
                  Leave, mapVars
    <3> QED
      BY <1>2, <3>1 DEF Types
  <2>6. CASE GuardDrop(d)
    <3>1. c # d /\ pc[c] \in {"send", "wait"}
      BY <2>6 DEF GuardDrop, Types
    <3>2. Registered(d) /\ id[d] \in Ids
      BY <2>6 DEF GuardDrop, CallShape, Registered
    <3>3. id[c] # id[d]
      BY <1>1, <1>2, <3>1, <3>2 DEF Unshared
    <3> QED
      BY <1>2, <2>6, <3>1, <3>2, <3>3 DEF GuardDrop, Types
  <2> QED
    BY <1>3, <2>1, <2>2, <2>3, <2>4, <2>5, <2>6 DEF CallerStep
<1>4. CASE OtherStep
  BY <1>2, <1>4, OthersFrame
<1>5. CASE RouteDeliver
  <2>1. /\ UNCHANGED <<pc, id>>
        /\ current.id \in Ids /\ current.from \in Origins
    BY <1>5 DEF RouteDeliver, callerVars, Types
  <2>2. CASE pending' = pending /\ \A e \in Callers : inbox'[e] = inbox[e]
    BY <1>2, <2>1, <2>2
  <2>3. CASE /\ pending[current.id] # Nobody
             /\ pending' = [pending EXCEPT ![current.id] = Nobody]
             /\ inbox' = IF pc[pending[current.id]] \in {"send", "wait"}
                           THEN [inbox EXCEPT ![pending[current.id]] = current.from]
                           ELSE inbox
    BY <1>2, <2>1, <2>3 DEF Types
  <2> QED
    BY <1>5, <2>2, <2>3, DeliverCases
<1>6. CASE UNCHANGED vars
  BY <1>2, <1>6 DEF vars, callerVars, mapVars
<1> QED
  BY <1>3, <1>4, <1>5, <1>6, NextCases

(* The drain task never comes back. *)
LEMMA DrainStays ==
    ASSUME [Next]_vars, drain # "running"
    PROVE  drain' # "running"
<1>1. ASSUME NEW c \in Callers, Request(c) \/ CallerStep(c) \/ GiveUp(c)
      PROVE  drain' = drain
  BY <1>1 DEF CallerStep, Request, Retry, TryRegister, TryRegisterTaken, SendRequest,
              SendRequestClosed, RecvResponse, RecvClosed, DrainCancelled, GuardDrop,
              GiveUp, Leave, linkVars
<1>2. CASE OtherStep \/ RouteDeliver \/ UNCHANGED vars
  BY <1>2 DEF OtherStep, RegisterOutgoing, WaiterRecv, WaiterAbandon, CancelOutgoing, Post,
              DrainStep, DrainWrite, DrainWriteFails, DrainSendersGone, DrainClose,
              ClientAnswer, ClientClose, RouteContains, RouteDeliver, RouterEnds,
              RouterFails, LoopEnds, vars, linkVars
<1> QED
  BY <1>1, <1>2, NextCases

(* The oneshot sender of a call whose id nobody shares vanishes unused     *)
(* only after the drain task has ended.                                    *)
LEMMA HonestStep ==
    ASSUME Types, CallShape, Held, HonestDisconnect, [Next]_vars
    PROVE  HonestDisconnect'
<1> USE OriginsAssumption DEF Origins
<1> SUFFICES ASSUME NEW c \in Callers, Unshared(c)', result'[c] = "disconnected"
             PROVE  drain' # "running"
  BY DEF HonestDisconnect
<1>1. Unshared(c)
  BY UnsharedBefore
<1>2. CASE result[c] = "disconnected"
  BY <1>1, <1>2, DrainStays DEF HonestDisconnect
<1>3. CASE result[c] # "disconnected"
  <2>1. ASSUME NEW d \in Callers, Request(d) \/ CallerStep(d) \/ GiveUp(d)
        PROVE  SendRequestClosed(c) \/ RecvClosed(c) \/ DrainCancelled(c)
    <3>1. CASE SendRequestClosed(d) \/ RecvClosed(d) \/ DrainCancelled(d)
      <4>1. result' = [result EXCEPT ![d] = "disconnected"]
        BY <3>1 DEF SendRequestClosed, RecvClosed, DrainCancelled, Leave
      <4> QED
        BY <1>3, <3>1, <4>1 DEF Types
    <3>2. CASE Request(d) \/ Retry(d) \/ TryRegister(d) \/ SendRequest(d) \/ GuardDrop(d)
      BY <1>3, <3>2 DEF Request, Retry, TryRegister, SendRequest, GuardDrop
    <3>3. CASE TryRegisterTaken(d) \/ RecvResponse(d) \/ GiveUp(d)
      <4>1. result' = result \/ \E s \in {"io", "ok", "gaveup"} : result' = [result EXCEPT ![d] = s]
        BY <3>3 DEF TryRegisterTaken, RecvResponse, GiveUp, Leave
      <4> QED
        BY <1>3, <4>1 DEF Types
    <3> QED
      BY <2>1, <3>1, <3>2, <3>3 DEF CallerStep
  <2>2. CASE OtherStep
    BY <1>3, <2>2, OthersFrame
  <2>3. CASE RouteDeliver \/ UNCHANGED vars
    BY <1>3, <2>3 DEF RouteDeliver, vars, callerVars
  <2>4. CASE SendRequestClosed(c) \/ DrainCancelled(c)
    BY <2>4, DrainStays DEF SendRequestClosed, DrainCancelled, ChannelOpen
  <2>5. ~RecvClosed(c)
    BY <1>1 DEF RecvClosed, Held, CallShape
  <2> QED
    BY <2>1, <2>2, <2>3, <2>4, <2>5, NextCases
<1> QED
  BY <1>2, <1>3

---------------------------------------------------------------------------
(* What a caller's own step leaves alone: everything but its call, the     *)
(* response map, and the channel when it sends.                            *)
LEMMA CallerFrame ==
    ASSUME NEW c \in Callers, Request(c) \/ CallerStep(c) \/ GiveUp(c)
    PROVE  /\ UNCHANGED <<outgoing, inbox, posts, drain, peer, atClient, answered, inbound,
                          router, current, verdict>>
           /\ channel' = channel \/ SendRequest(c)
BY DEF CallerStep, Request, Retry, TryRegister, TryRegisterTaken, SendRequest,
       SendRequestClosed, RecvResponse, RecvClosed, DrainCancelled, GuardDrop,
       GiveUp, Leave, mapVars, linkVars, clientVars, routeVars

(* Only route() touches the oneshots and gives verdicts. *)
LEMMA QuietFrame ==
    ASSUME [Next]_vars, ~RouteContains, ~RouteDeliver
    PROVE  UNCHANGED <<inbox, verdict>>
<1>1. ASSUME NEW c \in Callers, Request(c) \/ CallerStep(c) \/ GiveUp(c)
      PROVE  UNCHANGED <<inbox, verdict>>
  BY <1>1, CallerFrame
<1>2. CASE OtherStep \/ UNCHANGED vars
  BY <1>2 DEF OtherStep, RegisterOutgoing, WaiterRecv, WaiterAbandon, CancelOutgoing, Post,
              DrainStep, DrainWrite, DrainWriteFails, DrainSendersGone, DrainClose,
              ClientAnswer, ClientClose, RouterEnds, RouterFails, LoopEnds, mapVars, routeVars, vars
<1> QED
  BY <1>1, <1>2, NextCases

(* How a caller moves through its call, step by step. *)
LEMMA CallerMoves ==
    ASSUME Types, CallShape, NEW c \in Callers, Request(c) \/ CallerStep(c) \/ GiveUp(c)
    PROVE  /\ \A o \in Origins : o # c => pc'[o] = pc[o] /\ result'[o] = result[o]
           /\ \A w \in Waiters : id'[w] = id[w]
           /\ \/ result[c] = "none"
              \/ pc[c] = "guard" /\ pc'[c] = "done" /\ result'[c] = result[c]
           /\ \/ /\ pc'[c] \in {"reserve", "try", "send", "wait"}
                 /\ result'[c] = result[c]
              \/ /\ pc[c] \in {"send", "wait"} /\ pc'[c] = "guard"
                 /\ result'[c] \in {"gaveup", "disconnected"}
              \/ pc[c] = "guard" /\ pc'[c] = "done" /\ result'[c] = result[c]
              \/ pc[c] = "try" /\ pc'[c] = "done" /\ result'[c] = "io"
              \/ /\ pc[c] = "wait" /\ pc'[c] = "done"
                 /\ inbox[c] # Nobody /\ result'[c] = "ok"
           /\ Unsent(c)' => Unsent(c)
<1> USE OriginsAssumption DEF Origins, Unsent
<1>1. CASE Request(c) \/ Retry(c)
  <2>1. /\ \A o \in Origins : o # c => id'[o] = id[o]
        /\ pc[c] \in {"idle", "reserve"}
        /\ pc' = [pc EXCEPT ![c] = "try"]
        /\ UNCHANGED result
    BY <1>1, NextIdType DEF Request, Retry
  <2> QED
    BY <2>1 DEF Types, CallShape
<1>2. CASE TryRegister(c) \/ SendRequest(c)
  <2>1. /\ \/ pc[c] = "try" /\ pc' = [pc EXCEPT ![c] = "send"]
           \/ pc[c] = "send" /\ pc' = [pc EXCEPT ![c] = "wait"]
        /\ UNCHANGED <<id, result>>
    BY <1>2 DEF TryRegister, SendRequest
  <2>2. /\ result[c] = "none"
        /\ \/ pc[c] = "try" /\ pc'[c] = "send"
           \/ pc[c] = "send" /\ pc'[c] = "wait"
        /\ \A o \in Origins : o # c => pc'[o] = pc[o]
    BY <2>1 DEF Types, CallShape
  <2> QED
    BY <2>1, <2>2
<1>3. CASE TryRegisterTaken(c)
  <2>1. /\ pc[c] = "try" /\ result[c] = "none"
        /\ \/ pc' = [pc EXCEPT ![c] = "reserve"] /\ UNCHANGED result
           \/ /\ pc' = [pc EXCEPT ![c] = "done"]
              /\ result' = [result EXCEPT ![c] = "io"]
        /\ UNCHANGED id
    BY <1>3 DEF TryRegisterTaken, CallShape
  <2> QED
    BY <2>1 DEF Types
<1>4. CASE SendRequestClosed(c) \/ RecvClosed(c) \/ DrainCancelled(c) \/ GiveUp(c)
  <2>1. PICK s \in {"gaveup", "disconnected"} :
          /\ pc[c] \in {"send", "wait"}
          /\ pc' = [pc EXCEPT ![c] = "guard"]
          /\ result' = [result EXCEPT ![c] = s]
          /\ UNCHANGED id
    BY <1>4 DEF SendRequestClosed, RecvClosed, DrainCancelled, GiveUp, Leave
  <2>2. /\ result[c] = "none"
        /\ pc'[c] = "guard" /\ result'[c] = s
        /\ \A o \in Origins : o # c => pc'[o] = pc[o] /\ result'[o] = result[o]
    BY <2>1 DEF Types, CallShape
  <2> QED
    BY <2>1, <2>2
<1>5. CASE RecvResponse(c)
  <2>1. /\ pc[c] = "wait" /\ inbox[c] # Nobody /\ result[c] = "none"
        /\ pc'[c] = "done" /\ result'[c] = "ok"
        /\ \A o \in Origins : o # c => pc'[o] = pc[o] /\ result'[o] = result[o]
        /\ UNCHANGED id
    BY <1>5 DEF RecvResponse, Types, CallShape
  <2> QED
    BY <2>1
<1>6. CASE GuardDrop(c)
  <2>1. /\ pc[c] = "guard" /\ pc'[c] = "done"
        /\ \A o \in Origins : o # c => pc'[o] = pc[o]
        /\ UNCHANGED <<id, result>>
    BY <1>6 DEF GuardDrop, Types
  <2> QED
    BY <2>1
<1> QED
  BY <1>1, <1>2, <1>3, <1>4, <1>5, <1>6 DEF CallerStep

(* What a call has returned, it does not take back. *)
LEMMA ResultStays ==
    ASSUME Types, CallShape, Outcomes, [Next]_vars,
           NEW o \in Origins, result[o] # "none"
    PROVE  result'[o] = result[o]
<1> USE OriginsAssumption DEF Origins
<1>1. ASSUME NEW c \in Callers, Request(c) \/ CallerStep(c) \/ GiveUp(c)
      PROVE  result'[o] = result[o]
  BY <1>1, CallerMoves
<1>2. ASSUME NEW w \in Waiters, WaiterRecv(w) \/ WaiterAbandon(w)
      PROVE  result'[o] = result[o]
  <2>1. pc[w] = "wait" /\ \E s : result' = [result EXCEPT ![w] = s]
    BY <1>2 DEF WaiterRecv, WaiterAbandon
  <2>2. o # w
    BY <2>1 DEF Outcomes
  <2> QED
    BY <2>1, <2>2 DEF Types
<1>3. CASE OtherStep /\ ~\E w \in Waiters : WaiterRecv(w) \/ WaiterAbandon(w)
  BY <1>3 DEF OtherStep, RegisterOutgoing, CancelOutgoing, Post, DrainStep, DrainWrite,
              DrainWriteFails, DrainSendersGone, DrainClose, ClientAnswer, ClientClose,
              RouteContains, RouterEnds, RouterFails, LoopEnds, callerVars
<1>4. CASE RouteDeliver \/ UNCHANGED vars
  BY <1>4 DEF RouteDeliver, vars, callerVars
<1> QED
  BY <1>1, <1>2, <1>3, <1>4, NextCases

(* What calls return, and which entries of request_queue.outgoing outlive  *)
(* their receiver.                                                         *)
LEMMA OutcomesStep ==
    ASSUME Types, CallShape, OutgoingOwned, Outcomes, [Next]_vars
    PROVE  Outcomes'
<1> USE OriginsAssumption DEF Origins
<1> DEFINE Ended(c) == /\ pc[c] = "guard" => result[c] \in {"gaveup", "disconnected"}
                       /\ pc[c] = "done" => result[c] # "none"
                       /\ result[c] = "ok" => inbox[c] # Nobody
           Waited(w) == /\ pc[w] # "done" => result[w] = "none"
                        /\ IF pc[w] = "idle" THEN inbox[w] = Nobody ELSE id[w] \in WaiterIds
           Entry(i) == outgoing[i] # Nobody =>
                         /\ inbox[outgoing[i]] = Nobody
                         /\ \/ pc[outgoing[i]] = "wait"
                            \/ pc[outgoing[i]] = "done" /\ result[outgoing[i]] = "gaveup"
<1>1. /\ \A c \in Callers : Ended(c)
      /\ \A w \in Waiters : Waited(w)
      /\ \A i \in WaiterIds : Entry(i)
  BY DEF Outcomes
<1>2. SUFFICES /\ \A c \in Callers : Ended(c)'
               /\ \A w \in Waiters : Waited(w)'
               /\ \A i \in WaiterIds : Entry(i)'
  BY DEF Outcomes
<1>3. \A i \in WaiterIds : outgoing[i] \in Waiters \cup {Nobody}
  BY DEF Types
<1>4. CASE UNCHANGED <<pc, id, result, inbox>> /\ \A i \in WaiterIds : outgoing'[i] \in {outgoing[i], Nobody}
  BY <1>1, <1>4
<1>5. ASSUME NEW c \in Callers, Request(c) \/ CallerStep(c) \/ GiveUp(c)
      PROVE  /\ \A d \in Callers : Ended(d)'
             /\ \A w \in Waiters : Waited(w)'
             /\ \A i \in WaiterIds : Entry(i)'
  <2>1. /\ \A o \in Origins : o # c => pc'[o] = pc[o] /\ result'[o] = result[o]
        /\ \A w \in Waiters : id'[w] = id[w]
        /\ UNCHANGED <<inbox, outgoing>>
    BY <1>5, CallerMoves, CallerFrame
  <2>2. \A w \in Waiters : pc'[w] = pc[w] /\ result'[w] = result[w]
    BY <2>1
  <2>3. Ended(c)'
    <3>1. CASE pc[c] = "guard" /\ pc'[c] = "done" /\ result'[c] = result[c]
      BY <1>1, <2>1, <3>1
    <3>2. CASE result[c] = "none"
      <4>1. \/ pc'[c] \in {"reserve", "try", "send", "wait"} /\ result'[c] = "none"
            \/ pc'[c] = "guard" /\ result'[c] \in {"gaveup", "disconnected"}
            \/ pc[c] = "guard" /\ pc'[c] = "done"
            \/ pc'[c] = "done" /\ result'[c] = "io"
            \/ pc'[c] = "done" /\ inbox[c] # Nobody /\ result'[c] = "ok"
        BY <1>5, <3>2, CallerMoves
      <4>2. pc[c] # "guard"
        BY <1>1, <3>2
      <4> QED
        BY <2>1, <4>1, <4>2
    <3> QED
      BY <1>5, <3>1, <3>2, CallerMoves
  <2>4. \A d \in Callers : Ended(d)'
    BY <1>1, <2>1, <2>3
  <2>5. \A w \in Waiters : Waited(w)'
    BY <1>1, <2>1, <2>2
  <2>6. \A i \in WaiterIds : Entry(i)'
    BY <1>1, <1>3, <2>1, <2>2
  <2> QED
    BY <2>4, <2>5, <2>6
<1>6. ASSUME NEW w \in Waiters, NEW i \in WaiterIds, RegisterOutgoing(w, i)
      PROVE  /\ \A d \in Callers : Ended(d)'
             /\ \A v \in Waiters : Waited(v)'
             /\ \A j \in WaiterIds : Entry(j)'
  <2>1. /\ pc[w] = "idle" /\ pc'[w] = "wait" /\ id'[w] = i
        /\ \A o \in Origins : o # w => pc'[o] = pc[o] /\ id'[o] = id[o]
        /\ outgoing'[i] = w
        /\ \A j \in WaiterIds : j # i => outgoing'[j] = outgoing[j]
        /\ UNCHANGED <<result, inbox>>
    BY <1>6 DEF RegisterOutgoing, Types
  <2>2. \A j \in WaiterIds : outgoing[j] # w
    BY <2>1 DEF OutgoingOwned
  <2> QED
    BY <1>1, <1>3, <2>1, <2>2
<1>7. ASSUME NEW w \in Waiters, WaiterRecv(w) \/ WaiterAbandon(w)
      PROVE  /\ \A d \in Callers : Ended(d)'
             /\ \A v \in Waiters : Waited(v)'
             /\ \A j \in WaiterIds : Entry(j)'
  <2>1. /\ pc[w] = "wait" /\ pc'[w] = "done"
        /\ \A o \in Origins : o # w => pc'[o] = pc[o] /\ result'[o] = result[o]
        /\ UNCHANGED <<id, inbox, outgoing>>
    BY <1>7 DEF WaiterRecv, WaiterAbandon, Types, mapVars
  <2>2. \/ inbox[w] # Nobody
        \/ \A i \in WaiterIds : outgoing[i] # w
        \/ result'[w] = "gaveup"
    BY <1>7 DEF WaiterRecv, WaiterAbandon, Types
  <2> QED
    BY <1>1, <1>3, <2>1, <2>2
<1>8. CASE \/ Post \/ DrainStep \/ ClientAnswer \/ ClientClose \/ UNCHANGED vars
  <2>1. UNCHANGED <<pc, id, result, inbox, outgoing>>
    BY <1>8 DEF Post, DrainStep, DrainWrite, DrainWriteFails, DrainSendersGone, DrainClose,
                ClientAnswer, ClientClose, vars, callerVars, mapVars
  <2> QED
    BY <1>4, <2>1
<1>9. CASE (\E i \in WaiterIds : CancelOutgoing(i)) \/ RouterEnds \/ RouterFails
  <2>1. UNCHANGED <<pc, id, result, inbox>>
    BY <1>9 DEF CancelOutgoing, RouterEnds, RouterFails, LoopEnds, callerVars
  <2>2. \A i \in WaiterIds : outgoing'[i] \in {outgoing[i], Nobody}
    BY <1>9 DEF CancelOutgoing, RouterEnds, RouterFails, LoopEnds, Types
  <2> QED
    BY <1>4, <2>1, <2>2
<1>10. ASSUME NEW r \in Responses, RouteOutgoing(r), UNCHANGED <<pc, id, result>>
       PROVE  /\ \A d \in Callers : Ended(d)'
              /\ \A v \in Waiters : Waited(v)'
              /\ \A j \in WaiterIds : Entry(j)'
  <2>1. CASE r.id \in WaiterIds /\ outgoing[r.id] # Nobody
    <3>1. PICK w \in Waiters : w = outgoing[r.id]
      BY <1>3, <2>1
    <3>2. /\ outgoing'[r.id] = Nobody
          /\ \A j \in WaiterIds : j # r.id => outgoing'[j] = outgoing[j] /\ outgoing[j] # w
          /\ \A o \in Origins : o # w => inbox'[o] = inbox[o]
      BY <1>10, <2>1, <3>1 DEF RouteOutgoing, Types, OutgoingOwned
    <3>3. pc[w] # "idle"
      BY <1>1, <2>1, <3>1
    <3> QED
      BY <1>1, <1>3, <1>10, <2>1, <3>1, <3>2, <3>3
  <2>2. CASE ~(r.id \in WaiterIds /\ outgoing[r.id] # Nobody)
    BY <1>4, <1>10, <2>2 DEF RouteOutgoing
  <2> QED
    BY <2>1, <2>2
<1>11. CASE RouteContains
  <2>1. Head(inbound) \in Responses
    BY <1>11, QueueType DEF RouteContains, Types
  <2>2. /\ RouteOutgoing(Head(inbound)) \/ UNCHANGED <<inbox, outgoing>>
        /\ UNCHANGED <<pc, id, result>>
    BY <1>11 DEF RouteContains, callerVars
  <2> QED
    BY <1>4, <1>10, <2>1, <2>2
<1>12. CASE RouteDeliver
  <2>1. /\ current \in Responses /\ current.from \in Origins /\ current.id \in Ids
        /\ UNCHANGED <<pc, id, result>>
    BY <1>12, BoundsAssumption DEF RouteDeliver, Types, Responses, Ids, callerVars
  <2>2. CASE RouteOutgoing(current)
    BY <1>10, <2>1, <2>2
  <2>3. CASE /\ pending[current.id] # Nobody
             /\ inbox' = IF pc[pending[current.id]] \in {"send", "wait"}
                           THEN [inbox EXCEPT ![pending[current.id]] = current.from]
                           ELSE inbox
             /\ outgoing' = outgoing
    <3>1. pending[current.id] \in Callers
      BY <2>1, <2>3 DEF Types
    <3>2. \A w \in Waiters : inbox'[w] = inbox[w]
      BY <2>3, <3>1 DEF Types
    <3>3. \A c \in Callers : inbox[c] # Nobody => inbox'[c] # Nobody
      BY <2>1, <2>3, <3>1 DEF Types
    <3> QED
      BY <1>1, <1>3, <2>1, <2>3, <3>2, <3>3
  <2> QED
    BY <1>12, <2>2, <2>3, DeliverCases
<1> QED
  BY <1>5, <1>6, <1>7, <1>8, <1>9, <1>11, <1>12, NextCases DEF OtherStep

---------------------------------------------------------------------------
(* Who a queue speaks of, after sending. *)
LEMMA QueuedAppend ==
    ASSUME NEW S, NEW q \in Seq(S), NEW m \in S, NEW o
    PROVE  /\ Queued(Append(q, m), o) => Queued(q, o) \/ m.from = o
           /\ Once(q, o) /\ (m.from = o => ~Queued(q, o)) => Once(Append(q, m), o)
BY DEF Queued, Once

(* Who a queue speaks of, after receiving. *)
LEMMA QueuedTail ==
    ASSUME NEW S, NEW q \in Seq(S), q # <<>>, NEW o
    PROVE  /\ Queued(Tail(q), o) => Queued(q, o)
           /\ Head(q).from = o => Queued(q, o)
           /\ Once(q, o) => Once(Tail(q), o)
           /\ Once(q, o) /\ Head(q).from = o => ~Queued(Tail(q), o)
<1>1. /\ Len(q) \in Nat /\ Len(q) > 0 /\ DOMAIN q = 1..Len(q)
      /\ Head(q) = q[1]
      /\ DOMAIN Tail(q) = 1..(Len(q) - 1)
      /\ \A k \in 1..(Len(q) - 1) : Tail(q)[k] = q[k + 1]
  OBVIOUS
<1>2. \A k \in 1..(Len(q) - 1) : k + 1 \in 1..Len(q) /\ k + 1 # 1
  BY <1>1
<1>3. 1 \in 1..Len(q)
  BY <1>1
<1>4. Queued(Tail(q), o) => Queued(q, o)
  BY <1>1, <1>2 DEF Queued
<1>5. Head(q).from = o => Queued(q, o)
  BY <1>1, <1>3 DEF Queued
<1>6. Once(q, o) => Once(Tail(q), o)
  BY <1>1, <1>2 DEF Once
<1>7. Once(q, o) /\ Head(q).from = o => ~Queued(Tail(q), o)
  BY <1>1, <1>2, <1>3 DEF Once, Queued
<1> QED
  BY <1>4, <1>5, <1>6, <1>7

(* An empty queue speaks of nobody. *)
LEMMA QueuedEmpty ==
    ASSUME NEW o
    PROVE  ~Queued(<<>>, o) /\ Once(<<>>, o)
BY DEF Queued, Once

(* SpokenOnce depends on the places a message can be, and on whether the   *)
(* request has been sent.                                                  *)
LEMMA SpokenFrame ==
    ASSUME NEW o, SpokenOnce(o),
           Once(channel, o)', Once(inbound, o)',
           Queued(channel, o)' => Queued(channel, o),
           AtClient(o)' => AtClient(o),
           Queued(inbound, o)' => Queued(inbound, o),
           InRoute(o)' => InRoute(o),
           Judged(o)' => Judged(o),
           o \in answered' => o \in answered,
           Unsent(o)' => Unsent(o)
    PROVE  SpokenOnce(o)'
BY DEF SpokenOnce, Asked

(* A request has at most one message speaking of it, through every step. *)
LEMMA OneMessageStep ==
    ASSUME Types, CallShape, InTransit, Outcomes, OneMessage, [Next]_vars
    PROVE  OneMessage'
<1> USE OriginsAssumption, BoundsAssumption DEF Origins
<1> SUFFICES ASSUME NEW o \in Origins
             PROVE  SpokenOnce(o)'
  BY DEF OneMessage
<1>1. SpokenOnce(o) /\ Once(channel, o) /\ Once(inbound, o)
  BY DEF OneMessage, SpokenOnce
<1>2. channel \in Seq(Messages) /\ inbound \in Seq(Responses) /\ atClient \subseteq Responses
  BY DEF Types
<1>3. Nobody # o
  OBVIOUS
<1>4. CASE /\ UNCHANGED <<channel, atClient, inbound, answered, verdict>>
           /\ InRoute(o)' => InRoute(o)
           /\ Unsent(o)' => Unsent(o)
  <2>1. /\ Once(channel, o)' /\ Once(inbound, o)'
        /\ Queued(channel, o)' => Queued(channel, o)
        /\ AtClient(o)' => AtClient(o)
        /\ Queued(inbound, o)' => Queued(inbound, o)
        /\ Judged(o)' => Judged(o)
        /\ o \in answered' => o \in answered
    BY <1>1, <1>4 DEF AtClient, Judged, Once, Queued
  <2> QED
    BY <1>1, <1>4, <2>1, SpokenFrame
<1>5. ASSUME NEW p \in Origins, NEW m \in Messages, m.from = p,
             Unsent(p), p = o => ~Unsent(o)', p # o => (Unsent(o)' => Unsent(o)),
             channel' = Append(channel, m) \/ channel' = channel,
             UNCHANGED <<atClient, inbound, answered, router, current, verdict>>
      PROVE  SpokenOnce(o)'
  <2>1. /\ Queued(channel, o)' => Queued(channel, o) \/ p = o
        /\ Once(channel, o) /\ (p = o => ~Queued(channel, o)) => Once(channel, o)'
    <3>1. CASE channel' = channel
      BY <3>1 DEF Queued, Once
    <3>2. CASE channel' = Append(channel, m)
      <4>1. /\ Queued(channel', o) => Queued(channel, o) \/ m.from = o
            /\ Once(channel, o) /\ (m.from = o => ~Queued(channel, o)) => Once(channel', o)
        BY <1>2, <3>2, QueuedAppend
      <4> QED
        BY <1>5, <4>1 DEF Queued, Once
    <3> QED
      BY <1>5, <3>1, <3>2
  <2>2. /\ Once(inbound, o)'
        /\ AtClient(o)' <=> AtClient(o)
        /\ Queued(inbound, o)' <=> Queued(inbound, o)
        /\ InRoute(o)' <=> InRoute(o)
        /\ Judged(o)' <=> Judged(o)
        /\ o \in answered' <=> o \in answered
    BY <1>1, <1>5 DEF AtClient, Judged, Once, Queued, InRoute
  <2>3. CASE p # o
    BY <1>1, <1>5, <2>1, <2>2, <2>3, SpokenFrame
  <2>4. CASE p = o
    <3>1. /\ ~Queued(channel, o) /\ ~AtClient(o) /\ ~Queued(inbound, o) /\ ~InRoute(o)
          /\ ~Judged(o) /\ o \notin answered
      BY <1>1, <1>5, <2>4 DEF SpokenOnce, Asked
    <3> QED
      BY <1>1, <1>5, <2>1, <2>2, <2>4, <3>1 DEF SpokenOnce, Asked
  <2> QED
    BY <2>3, <2>4
<1>6. ASSUME NEW c \in Callers, Request(c) \/ CallerStep(c) \/ GiveUp(c)
      PROVE  SpokenOnce(o)'
  <2>1. Unsent(o)' => Unsent(o)
    BY <1>6, CallerMoves DEF Unsent
  <2>2. UNCHANGED <<atClient, inbound, answered, router, current, verdict>>
    BY <1>6, CallerFrame
  <2>3. CASE SendRequest(c)
    <3>1. /\ RequestMsg(c, id[c]) \in Messages /\ RequestMsg(c, id[c]).from = c
          /\ channel' = Append(channel, RequestMsg(c, id[c]))
      BY <2>3 DEF SendRequest, Enqueue, RequestMsg, Messages, Types
    <3>2. Unsent(c) /\ (c = o => ~Unsent(o)')
      BY <2>3 DEF SendRequest, Types, CallShape, Unsent
    <3> QED
      BY <1>5, <2>1, <2>2, <3>1, <3>2
  <2>4. CASE channel' = channel
    BY <1>4, <2>1, <2>2, <2>4 DEF InRoute
  <2> QED
    BY <1>6, <2>3, <2>4, CallerFrame
<1>7. ASSUME NEW w \in Waiters, NEW i \in WaiterIds, RegisterOutgoing(w, i)
      PROVE  SpokenOnce(o)'
  <2>1. RequestMsg(w, i) \in Messages /\ RequestMsg(w, i).from = w
    BY DEF RequestMsg, Messages
  <2>2. /\ Unsent(w) /\ (w = o => ~Unsent(o)') /\ (w # o => (Unsent(o)' => Unsent(o)))
        /\ channel' = Append(channel, RequestMsg(w, i)) \/ channel' = channel
        /\ UNCHANGED <<atClient, inbound, answered, router, current, verdict>>
    BY <1>7 DEF RegisterOutgoing, Types, Outcomes, Unsent, clientVars, routeVars
  <2> QED
    BY <1>5, <2>1, <2>2
<1>8. CASE \/ \E w \in Waiters : WaiterRecv(w) \/ WaiterAbandon(w)
           \/ RouterEnds \/ RouterFails \/ ClientClose \/ DrainSendersGone \/ UNCHANGED vars
  <2>1. UNCHANGED <<channel, atClient, inbound, answered, verdict, current>>
    BY <1>8 DEF WaiterRecv, WaiterAbandon, RouterEnds, RouterFails, LoopEnds, ClientClose,
                DrainSendersGone, vars,
                linkVars, clientVars, routeVars
  <2>2. router' = router \/ router' \in {"ended", "failed"}
    BY <1>8 DEF WaiterRecv, WaiterAbandon, RouterEnds, RouterFails, LoopEnds, ClientClose,
                DrainSendersGone, vars,
                routeVars
  <2>3. Unsent(o)' => Unsent(o)
    BY <1>8 DEF WaiterRecv, WaiterAbandon, RouterEnds, RouterFails, LoopEnds, ClientClose,
                DrainSendersGone, vars,
                callerVars, Types, Unsent
  <2> QED
    BY <1>4, <2>1, <2>2, <2>3 DEF InRoute
<1>9. CASE Post \/ \E i \in WaiterIds : CancelOutgoing(i)
  <2>1. PostMsg \in Messages /\ PostMsg.from = Nobody
    BY DEF PostMsg, Messages
  <2>2. /\ channel' = Append(channel, PostMsg) \/ channel' = channel
        /\ UNCHANGED <<atClient, inbound, answered, router, current, verdict, pc, result>>
    BY <1>9 DEF Post, CancelOutgoing, Enqueue, clientVars, routeVars, callerVars
  <2>3. Once(channel', o) /\ (Queued(channel', o) => Queued(channel, o))
    BY <1>1, <1>2, <1>3, <2>1, <2>2, QueuedAppend
  <2>4. /\ Once(channel, o)' /\ Once(inbound, o)'
        /\ Queued(channel, o)' => Queued(channel, o)
        /\ AtClient(o)' => AtClient(o)
        /\ Queued(inbound, o)' => Queued(inbound, o)
        /\ InRoute(o)' => InRoute(o)
        /\ Judged(o)' => Judged(o)
        /\ o \in answered' => o \in answered
        /\ Unsent(o)' => Unsent(o)
    BY <1>1, <2>2, <2>3 DEF AtClient, Judged, Once, Queued, InRoute, Unsent
  <2> QED
    BY <1>1, <2>4, SpokenFrame
<1>10. CASE DrainWriteFails \/ DrainClose
  <2>1. /\ channel' = <<>> \/ (channel # <<>> /\ channel' = Tail(channel))
        /\ UNCHANGED <<atClient, inbound, answered, router, current, verdict, pc, result>>
    BY <1>10 DEF DrainWriteFails, DrainClose, clientVars, routeVars, callerVars
  <2>2. Once(channel', o) /\ (Queued(channel', o) => Queued(channel, o))
    <3>1. CASE channel' = <<>>
      BY <3>1, QueuedEmpty
    <3>2. CASE channel # <<>> /\ channel' = Tail(channel)
      BY <1>1, <1>2, <3>2, QueuedTail
    <3> QED
      BY <2>1, <3>1, <3>2
  <2>3. /\ Once(channel, o)' /\ Once(inbound, o)'
        /\ Queued(channel, o)' => Queued(channel, o)
        /\ AtClient(o)' => AtClient(o)
        /\ Queued(inbound, o)' => Queued(inbound, o)
        /\ InRoute(o)' => InRoute(o)
        /\ Judged(o)' => Judged(o)
        /\ o \in answered' => o \in answered
        /\ Unsent(o)' => Unsent(o)
    BY <1>1, <2>1, <2>2 DEF AtClient, Judged, Once, Queued, InRoute, Unsent
  <2> QED
    BY <1>1, <2>3, SpokenFrame
<1>11. CASE DrainWrite
  <2>1. /\ channel # <<>> /\ channel' = Tail(channel)
        /\ UNCHANGED <<inbound, answered, router, current, verdict, pc, result>>
    BY <1>11 DEF DrainWrite, routeVars, callerVars
  <2>2. /\ Once(channel', o)
        /\ Queued(channel', o) => Queued(channel, o) /\ Head(channel).from # o
    BY <1>1, <1>2, <2>1, QueuedTail
  <2>3. AtClient(o)' => AtClient(o) \/ Head(channel).from = o
    BY <1>11 DEF DrainWrite, AtClient, ResponseMsg
  <2>4. Head(channel).from = o => Queued(channel, o)
    BY <1>2, <2>1, QueuedTail
  <2>5. /\ Once(channel, o)' /\ Once(inbound, o)'
        /\ Queued(channel, o)' => Queued(channel, o) /\ Head(channel).from # o
        /\ Queued(inbound, o)' <=> Queued(inbound, o)
        /\ InRoute(o)' <=> InRoute(o)
        /\ Judged(o)' <=> Judged(o)
        /\ o \in answered' <=> o \in answered
        /\ Unsent(o)' <=> Unsent(o)
    BY <1>1, <2>1, <2>2 DEF Judged, Once, Queued, InRoute, Unsent
  <2> QED
    BY <1>1, <2>3, <2>4, <2>5 DEF SpokenOnce, Asked
<1>12. CASE ClientAnswer
  <2>1. PICK r \in atClient :
          /\ atClient' = atClient \ {r}
          /\ answered' \in {answered, answered \cup {r.from}}
          /\ \E i \in {r.id, NoId} : inbound' = Append(inbound, ResponseMsg(r.from, i))
    BY <1>12 DEF ClientAnswer
  <2>2. UNCHANGED <<channel, router, current, verdict, pc, result>>
    BY <1>12 DEF ClientAnswer, linkVars, routeVars, callerVars
  <2>3. PICK a \in Responses : a.from = r.from /\ inbound' = Append(inbound, a)
    <3>1. PICK i \in {r.id, NoId} : inbound' = Append(inbound, ResponseMsg(r.from, i))
      BY <2>1
    <3>2. ResponseMsg(r.from, i) \in Responses /\ ResponseMsg(r.from, i).from = r.from
      BY <1>2 DEF ResponseMsg, Responses, NoId
    <3> QED
      BY <3>1, <3>2
  <2>4. /\ Queued(inbound', o) => Queued(inbound, o) \/ r.from = o
        /\ (r.from = o => ~Queued(inbound, o)) => Once(inbound', o)
    BY <1>1, <1>2, <2>3, QueuedAppend
  <2>5. /\ Queued(inbound, o)' => Queued(inbound, o) \/ r.from = o
        /\ (r.from = o => ~Queued(inbound, o)) => Once(inbound, o)'
        /\ Once(channel, o)'
        /\ Queued(channel, o)' <=> Queued(channel, o)
        /\ InRoute(o)' <=> InRoute(o)
        /\ Judged(o)' <=> Judged(o)
        /\ Unsent(o)' <=> Unsent(o)
        /\ o \in answered' => o \in answered \/ r.from = o
    BY <1>1, <2>1, <2>2, <2>4 DEF Judged, Once, Queued, InRoute, Unsent
  <2>6. AtClient(o)' => AtClient(o)
    BY <2>1 DEF AtClient
  <2>7. CASE r.from # o
    BY <1>1, <2>5, <2>6, <2>7, SpokenFrame
  <2>8. CASE r.from = o
    <3>1. AtClient(o)
      BY <2>8 DEF AtClient
    <3>2. /\ ~Queued(channel, o) /\ ~Queued(inbound, o) /\ ~InRoute(o) /\ ~Judged(o)
          /\ ~Unsent(o)
      BY <1>1, <3>1 DEF SpokenOnce, Asked
    <3>3. ASSUME NEW s \in atClient, s.from = o PROVE s = r
      <4>1. s \in Responses /\ r \in Responses
        BY <1>2
      <4>2. s.id = id[o] /\ r.id = id[o]
        BY <2>8, <3>3 DEF InTransit, Genuine
      <4> QED
        BY <2>8, <3>3, <4>1, <4>2 DEF Responses
    <3>4. ~AtClient(o)'
      BY <2>1, <3>3 DEF AtClient
    <3> QED
      BY <1>1, <2>5, <3>2, <3>4 DEF SpokenOnce, Asked
  <2> QED
    BY <2>7, <2>8
<1>13. ASSUME NEW r \in Responses, RouteOutgoing(r)
       PROVE  \A q \in Origins : q # r.from => verdict'[q] = verdict[q]
  BY <1>13 DEF RouteOutgoing, Types
<1>14. CASE RouteContains
  <2>1. /\ inbound # <<>> /\ inbound' = Tail(inbound)
        /\ router = "read"
        /\ UNCHANGED <<channel, atClient, answered, pc, result>>
    BY <1>14 DEF RouteContains, linkVars, callerVars
  <2>2. /\ Once(inbound', o)
        /\ Queued(inbound', o) => Queued(inbound, o) /\ Head(inbound).from # o
        /\ Head(inbound).from = o => Queued(inbound, o)
        /\ Head(inbound) \in Responses
    BY <1>1, <1>2, <2>1, QueuedTail, QueueType
  <2>3. \/ /\ UNCHANGED <<router, current>>
           /\ RouteOutgoing(Head(inbound))
        \/ router' = "deliver" /\ current' = Head(inbound) /\ verdict' = verdict
    BY <1>14 DEF RouteContains
  <2>4. Judged(o)' => Judged(o) \/ (Head(inbound).from = o /\ ~InRoute(o)')
    BY <1>13, <2>1, <2>2, <2>3 DEF Judged, InRoute
  <2>5. InRoute(o)' => Head(inbound).from = o
    BY <2>1, <2>3 DEF InRoute
  <2>6. /\ Once(channel, o)' /\ Once(inbound, o)'
        /\ Queued(inbound, o)' => Queued(inbound, o) /\ Head(inbound).from # o
        /\ Queued(channel, o)' <=> Queued(channel, o)
        /\ AtClient(o)' <=> AtClient(o)
        /\ o \in answered' <=> o \in answered
        /\ Unsent(o)' <=> Unsent(o)
    BY <1>1, <2>1, <2>2 DEF Once, Queued, AtClient, Unsent
  <2> QED
    BY <1>1, <2>2, <2>4, <2>5, <2>6 DEF SpokenOnce, Asked
<1>15. CASE RouteDeliver
  <2>1. /\ current.from \in Origins /\ current \in Responses
        /\ router = "deliver" /\ router' = "read"
        /\ UNCHANGED <<channel, atClient, inbound, answered, pc, result>>
    BY <1>15 DEF RouteDeliver, Types, Responses, Ids, linkVars, clientVars, callerVars
  <2>2. \A q \in Origins : q # current.from => verdict'[q] = verdict[q]
    <3>1. CASE pending[current.id] = Nobody
      BY <1>13, <1>15, <2>1, <3>1 DEF RouteDeliver
    <3>2. CASE pending[current.id] # Nobody
      BY <1>15, <3>2 DEF RouteDeliver, Types
    <3> QED
      BY <3>1, <3>2
  <2>3. /\ Judged(o)' => Judged(o) \/ InRoute(o)
        /\ ~InRoute(o)'
    BY <2>1, <2>2 DEF Judged, InRoute
  <2>4. /\ Once(channel, o)' /\ Once(inbound, o)'
        /\ Queued(inbound, o)' <=> Queued(inbound, o)
        /\ Queued(channel, o)' <=> Queued(channel, o)
        /\ AtClient(o)' <=> AtClient(o)
        /\ o \in answered' <=> o \in answered
        /\ Unsent(o)' <=> Unsent(o)
    BY <1>1, <2>1 DEF Once, Queued, AtClient, Unsent
  <2> QED
    BY <1>1, <2>3, <2>4 DEF SpokenOnce, Asked
<1> QED
  BY <1>6, <1>7, <1>8, <1>9, <1>10, <1>11, <1>12, <1>14, <1>15, NextCases
  DEF OtherStep, DrainStep

---------------------------------------------------------------------------
(* An id that a request registered is not the null id. *)
LEMMA RegisteredId ==
    ASSUME CallShape, Outcomes, NEW o \in Origins, Registered(o)
    PROVE  /\ id[o] # NoId
           /\ o \in Callers => id[o] \in Ids
<1>1. CASE o \in Callers
  BY <1>1, BoundsAssumption DEF Registered, CallShape, Ids, NoId
<1>2. CASE o \in Waiters
  BY <1>2, OriginsAssumption, BoundsAssumption DEF Registered, Outcomes, NoId
<1> QED
  BY <1>1, <1>2, OriginsAssumption DEF Origins

(* A response carries an id exactly if the client answered its request,    *)
(* and only such responses reach a oneshot.                                *)
LEMMA AnswersStep ==
    ASSUME Types, CallShape, InTransit, Outcomes, OneMessage, AnswersReal, [Next]_vars
    PROVE  AnswersReal'
<1> USE OriginsAssumption, BoundsAssumption DEF Origins
<1>1. /\ \A r \in Items(inbound) : r.id = NoId <=> r.from \notin answered
      /\ router = "deliver" => current.from \in answered
      /\ \A o \in Origins : inbox[o] # Nobody => inbox[o] \in answered
  BY DEF AnswersReal
<1>2. inbound \in Seq(Responses) /\ atClient \subseteq Responses
  BY DEF Types
<1>3. CASE /\ UNCHANGED <<inbound, answered, inbox>>
           /\ UNCHANGED <<router, current>> \/ router' \in {"ended", "failed"}
  BY <1>1, <1>3 DEF AnswersReal
<1>4. ASSUME NEW c \in Callers, Request(c) \/ CallerStep(c) \/ GiveUp(c)
      PROVE  AnswersReal'
  BY <1>3, <1>4, CallerFrame
<1>5. CASE \/ \E w \in Waiters : \/ \E i \in WaiterIds : RegisterOutgoing(w, i)
                                 \/ WaiterRecv(w) \/ WaiterAbandon(w)
           \/ \E i \in WaiterIds : CancelOutgoing(i)
           \/ Post \/ DrainStep \/ ClientClose \/ RouterEnds \/ RouterFails \/ UNCHANGED vars
  BY <1>3, <1>5 DEF RegisterOutgoing, WaiterRecv, WaiterAbandon, CancelOutgoing, Post,
              DrainStep, DrainWrite, DrainWriteFails, DrainSendersGone, DrainClose,
              ClientClose, RouterEnds, RouterFails, LoopEnds, mapVars, clientVars, routeVars, vars
<1>6. CASE ClientAnswer
  <2>1. PICK r \in atClient :
          \/ /\ inbound' = Append(inbound, ResponseMsg(r.from, r.id))
             /\ answered' = answered \cup {r.from}
          \/ /\ inbound' = Append(inbound, ResponseMsg(r.from, NoId))
             /\ answered' = answered
    BY <1>6 DEF ClientAnswer
  <2>2. UNCHANGED <<router, current, inbox>>
    BY <1>6 DEF ClientAnswer, routeVars, mapVars
  <2>3. r.from \in Origins /\ r.id \in Nat
    BY <1>2 DEF Responses
  <2>4. r.id # NoId
    BY <2>3, RegisteredId DEF InTransit, Genuine
  <2>5. r.from \notin answered /\ ~Queued(inbound, r.from)
    BY <2>3 DEF OneMessage, SpokenOnce, Asked, AtClient
  <2>6. \A b \in Items(inbound) : b.from # r.from
    BY <2>5 DEF Items, Queued
  <2>7. PICK a \in Responses :
          /\ a.from = r.from
          /\ inbound' = Append(inbound, a)
          /\ \/ a.id # NoId /\ answered' = answered \cup {r.from}
             \/ a.id = NoId /\ answered' = answered
    <3>1. CASE /\ inbound' = Append(inbound, ResponseMsg(r.from, r.id))
               /\ answered' = answered \cup {r.from}
      <4>1. /\ ResponseMsg(r.from, r.id) \in Responses
            /\ ResponseMsg(r.from, r.id).from = r.from
            /\ ResponseMsg(r.from, r.id).id = r.id
        BY <2>3 DEF ResponseMsg, Responses
      <4> QED
        BY <2>4, <3>1, <4>1
    <3>2. CASE /\ inbound' = Append(inbound, ResponseMsg(r.from, NoId))
               /\ answered' = answered
      <4>1. /\ ResponseMsg(r.from, NoId) \in Responses
            /\ ResponseMsg(r.from, NoId).from = r.from
            /\ ResponseMsg(r.from, NoId).id = NoId
        BY <2>3 DEF ResponseMsg, Responses, NoId
      <4> QED
        BY <3>2, <4>1
    <3> QED
      BY <2>1, <3>1, <3>2
  <2>8. Items(inbound') \subseteq Items(inbound) \cup {a}
    BY <1>2, <2>7, QueueItems
  <2>9. \A b \in Items(inbound') : b.id = NoId <=> b.from \notin answered'
    BY <1>1, <2>5, <2>6, <2>7, <2>8
  <2>10. answered \subseteq answered'
    BY <2>7
  <2> QED
    BY <1>1, <2>2, <2>9, <2>10 DEF AnswersReal
<1>7. ASSUME NEW r \in Responses, RouteOutgoing(r), r.id # NoId => r.from \in answered
      PROVE  \A o \in Origins : inbox'[o] # Nobody => inbox'[o] \in answered
  <2>1. CASE r.id \in WaiterIds /\ outgoing[r.id] # Nobody
    <3>1. r.from \in answered
      BY <1>7, <2>1 DEF NoId
    <3>2. \A o \in Origins : inbox'[o] \in {inbox[o], r.from}
      BY <1>7, <2>1 DEF RouteOutgoing, Types
    <3> QED
      BY <1>1, <3>1, <3>2
  <2>2. CASE ~(r.id \in WaiterIds /\ outgoing[r.id] # Nobody)
    BY <1>1, <1>7, <2>2 DEF RouteOutgoing
  <2> QED
    BY <2>1, <2>2
<1>8. CASE RouteContains
  <2>1. /\ Items(inbound') \subseteq Items(inbound)
        /\ Head(inbound) \in Items(inbound)
        /\ Head(inbound) \in Responses
        /\ answered' = answered
        /\ router = "read"
    BY <1>2, <1>8, QueueItems, QueueType DEF RouteContains
  <2>2. \/ /\ UNCHANGED <<router, current>>
           /\ RouteOutgoing(Head(inbound))
        \/ current' = Head(inbound) /\ Head(inbound).id # NoId /\ inbox' = inbox
    BY <1>8 DEF RouteContains, Ids, NoId
  <2>3. \A o \in Origins : inbox'[o] # Nobody => inbox'[o] \in answered
    BY <1>1, <1>7, <2>1, <2>2
  <2>4. router' = "deliver" => current'.from \in answered
    BY <1>1, <2>1, <2>2
  <2> QED
    BY <1>1, <2>1, <2>3, <2>4 DEF AnswersReal
<1>9. CASE RouteDeliver
  <2>1. /\ current.id \in Ids /\ current \in Responses
        /\ current.from \in answered
        /\ router' = "read"
        /\ UNCHANGED <<inbound, answered>>
    BY <1>1, <1>9 DEF RouteDeliver, Types, Responses, Ids, clientVars
  <2>2. \A o \in Origins : inbox'[o] # Nobody => inbox'[o] \in answered
    <3>1. CASE RouteOutgoing(current)
      BY <1>7, <2>1, <3>1
    <3>2. CASE inbox' = IF pc[pending[current.id]] \in {"send", "wait"}
                          THEN [inbox EXCEPT ![pending[current.id]] = current.from]
                          ELSE inbox
      BY <1>1, <2>1, <3>2 DEF Types
    <3> QED
      BY <1>9, <3>1, <3>2, DeliverCases
  <2> QED
    BY <1>1, <2>1, <2>2 DEF AnswersReal
<1> QED
  BY <1>4, <1>5, <1>6, <1>8, <1>9, NextCases DEF OtherStep

(* What the oneshots hold answers requests with the same ids; so a task    *)
(* whose id nobody shares holds no answer but its own.                     *)
LEMMA OwnFromConsumed ==
    ASSUME Types', Consumed'
    PROVE  OwnResponse'
BY OriginsAssumption DEF Types, Consumed, OwnResponse, Unshared, Genuine

(* Consumed and DeliveredById, after a step that keeps the oneshots or     *)
(* hands one response to one task.  That response was nobody's before, and *)
(* what is in a oneshot does not come again.                               *)
LEMMA HandedOnce ==
    ASSUME Types, Consumed, DeliveredById,
           \A o \in Origins : Registered(o) => Registered(o)' /\ id'[o] = id[o],
           \A o \in Origins : inbox[o] # Nobody =>
               ~Queued(inbound', inbox[o]) /\ ~(router' = "deliver" /\ current'.from = inbox[o]),
           \/ inbox' = inbox
           \/ \E x, q \in Origins :
                /\ inbox' = [inbox EXCEPT ![x] = q]
                /\ Registered(x)' /\ Registered(q) /\ id'[x] = id[q]
                /\ \A o \in Origins : inbox[o] # q
                /\ ~Queued(inbound', q) /\ ~(router' = "deliver" /\ current'.from = q)
    PROVE  Consumed' /\ DeliveredById'
<1> USE OriginsAssumption
<1> DEFINE Fits(o, q) ==
             /\ Registered(o)' /\ q \in Origins /\ Registered(q)' /\ id'[o] = id'[q]
             /\ ~Queued(inbound', q) /\ ~(router' = "deliver" /\ current'.from = q)
<1>1. inbox \in [Origins -> Origins \cup {Nobody}]
  BY DEF Types
<1>2. ASSUME NEW o \in Origins, NEW q \in Origins, inbox[o] = q
      PROVE  Fits(o, q)
  <2>1. Registered(o) /\ Registered(q) /\ id[o] = id[q]
    BY <1>2 DEF Consumed, Genuine
  <2> QED
    BY <1>2, <2>1
<1>3. \A o, p, q \in Origins : inbox[o] = q /\ inbox[p] = q => p = o
  BY DEF DeliveredById
<1>4. /\ inbox' \in [Origins -> Origins \cup {Nobody}]
      /\ \A o, q \in Origins : inbox'[o] = q => Fits(o, q)
      /\ \A o, p, q \in Origins : inbox'[o] = q /\ inbox'[p] = q => p = o
  <2>1. CASE inbox' = inbox
    BY <1>1, <1>2, <1>3, <2>1
  <2>2. CASE inbox' # inbox
    <3>1. PICK x \in Origins, s \in Origins :
                /\ inbox' = [inbox EXCEPT ![x] = s]
                /\ Registered(x)' /\ Registered(s) /\ id'[x] = id[s]
                /\ \A o \in Origins : inbox[o] # s
                /\ ~Queued(inbound', s) /\ ~(router' = "deliver" /\ current'.from = s)
      BY <2>2
    <3>2. /\ inbox' \in [Origins -> Origins \cup {Nobody}]
          /\ inbox'[x] = s /\ \A o \in Origins : o # x => inbox'[o] = inbox[o]
      BY <1>1, <3>1
    <3>3. Fits(x, s)
      BY <3>1
    <3> HIDE DEF Fits
    <3> QED
      BY <1>2, <1>3, <3>1, <3>2, <3>3
  <2> QED
    BY <2>1, <2>2
<1>5. Consumed'
  BY <1>4 DEF Consumed, Genuine, InRoute
<1>6. DeliveredById'
  BY <1>4 DEF DeliveredById
<1> QED
  BY <1>5, <1>6

(* The response route() finds a taker for, in either table, goes to a task *)
(* that registered its id.                                                 *)
LEMMA RouteOutgoingTaker ==
    ASSUME Types, OutgoingOwned, NEW r \in Responses, GenuineAnswer(r), RouteOutgoing(r)
    PROVE  \/ inbox' = inbox
           \/ \E x \in Origins : /\ inbox' = [inbox EXCEPT ![x] = r.from]
                                 /\ Registered(x) /\ r.from \in Origins
                                 /\ Registered(r.from) /\ id[x] = id[r.from]
<1> USE OriginsAssumption, BoundsAssumption DEF Origins
<1>1. CASE r.id \in WaiterIds /\ outgoing[r.id] # Nobody
  <2>1. PICK w \in Waiters : outgoing[r.id] = w
    BY <1>1 DEF Types
  <2>2. Registered(w) /\ id[w] = r.id
    BY <1>1, <2>1 DEF OutgoingOwned, Registered
  <2>3. r.from \in Origins /\ Registered(r.from) /\ id[r.from] = r.id
    BY <1>1 DEF GenuineAnswer, Genuine
  <2> QED
    BY <1>1, <2>1, <2>2, <2>3 DEF RouteOutgoing
<1>2. CASE ~(r.id \in WaiterIds /\ outgoing[r.id] # Nobody)
  BY <1>2 DEF RouteOutgoing
<1> QED
  BY <1>1, <1>2

(* Every step keeps Consumed and DeliveredById, whatever ids are shared: a *)
(* response is taken off the queue by one read and handed to one task.     *)
LEMMA ConsumedStep ==
    ASSUME Types, CallShape, NoLeakedSlot, OutgoingOwned, InTransit, OneMessage, AnswersReal,
           Consumed, DeliveredById, [Next]_vars
    PROVE  Consumed' /\ DeliveredById'
<1> USE OriginsAssumption, BoundsAssumption
<1>1. \A o \in Origins : Registered(o) => Registered(o)' /\ id'[o] = id[o]
  BY RegisteredStays
<1>2. \A o \in Origins : inbox[o] # Nobody =>
          ~Queued(inbound, inbox[o]) /\ ~(router = "deliver" /\ current.from = inbox[o])
  BY DEF Consumed, InRoute
<1>3. inbound \in Seq(Responses) /\ inbox \in [Origins -> Origins \cup {Nobody}]
  BY DEF Types
<1>4. CASE ~RouteContains /\ ~RouteDeliver
  <2>1. inbox' = inbox
    BY <1>4, QuietFrame
  <2>2. UNCHANGED <<router, current>> \/ router' \in {"ended", "failed"}
    <3>1. ASSUME NEW c \in Callers, Request(c) \/ CallerStep(c) \/ GiveUp(c)
          PROVE  UNCHANGED <<router, current>>
      BY <3>1, CallerFrame
    <3>2. CASE OtherStep \/ UNCHANGED vars
      BY <1>4, <3>2 DEF OtherStep, RegisterOutgoing, WaiterRecv, WaiterAbandon,
          CancelOutgoing, Post, DrainStep, DrainWrite, DrainWriteFails, DrainSendersGone,
          DrainClose, ClientAnswer, ClientClose, RouterEnds, RouterFails, LoopEnds, routeVars,
          vars
    <3> QED
      BY <1>4, <3>1, <3>2, NextCases
  <2>3. CASE ClientAnswer
    <3>1. PICK r \in atClient, i \in Nat : inbound' = Append(inbound, ResponseMsg(r.from, i))
      <4>1. PICK r \in atClient : \/ inbound' = Append(inbound, ResponseMsg(r.from, r.id))
                                 \/ inbound' = Append(inbound, ResponseMsg(r.from, NoId))
        BY <2>3 DEF ClientAnswer
      <4>2. r.id \in Nat /\ NoId \in Nat
        BY DEF Types, Responses, NoId
      <4> QED
        BY <4>1, <4>2
    <3>2. r.from \in Origins /\ ResponseMsg(r.from, i) \in Responses
          /\ ResponseMsg(r.from, i).from = r.from
      BY DEF Types, Responses, ResponseMsg
    <3>3. r.from \notin answered
      BY <3>2 DEF OneMessage, SpokenOnce, Asked, AtClient
    <3>4. \A o \in Origins : inbox[o] # Nobody => inbox[o] # r.from
      BY <3>3 DEF AnswersReal
    <3>5. \A o \in Origins : inbox[o] # Nobody => ~Queued(inbound', inbox[o])
      BY <1>2, <1>3, <3>1, <3>2, <3>4, QueuedAppend
    <3> QED
      BY <1>1, <1>2, <2>1, <2>2, <3>5, HandedOnce
  <2>4. CASE ~ClientAnswer
    <3>1. inbound' = inbound
      <4>1. ASSUME NEW c \in Callers, Request(c) \/ CallerStep(c) \/ GiveUp(c)
            PROVE  inbound' = inbound
        BY <4>1, CallerFrame
      <4>2. CASE OtherStep \/ UNCHANGED vars
        BY <1>4, <2>4, <4>2 DEF OtherStep, RegisterOutgoing, WaiterRecv, WaiterAbandon,
            CancelOutgoing, Post, DrainStep, DrainWrite, DrainWriteFails, DrainSendersGone,
            DrainClose, ClientClose, RouterEnds, RouterFails, LoopEnds, clientVars, vars
      <4> QED
        BY <1>4, <4>1, <4>2, NextCases
    <3> QED
      BY <1>1, <1>2, <2>1, <2>2, <3>1, HandedOnce
  <2> QED
    BY <2>3, <2>4
<1>5. CASE RouteContains
  <2>1. PICK r \in Responses : r = Head(inbound) /\ r \in Items(inbound)
    BY <1>3, <1>5, QueueType, QueueItems DEF RouteContains
  <2>2. /\ inbound # <<>> /\ inbound' = Tail(inbound) /\ router = "read"
        /\ \/ router' = "deliver" /\ current' = r /\ inbox' = inbox
           \/ router' = "read" /\ RouteOutgoing(r)
    BY <1>5, <2>1 DEF RouteContains
  <2>3. r.from \in Origins /\ GenuineAnswer(r)
    BY <2>1 DEF Responses, InTransit
  <2>4. Queued(inbound, r.from) /\ ~Queued(inbound', r.from)
    <3>1. Once(inbound, r.from)
      BY <2>3 DEF OneMessage, SpokenOnce
    <3> QED
      BY <1>3, <2>1, <2>2, <3>1, QueuedTail
  <2>5. \A o \in Origins : inbox[o] # Nobody => inbox[o] # r.from /\ ~Queued(inbound', inbox[o])
    BY <1>2, <1>3, <2>2, <2>4, QueuedTail
  <2>6. r.from # Nobody
    BY <2>3
  <2>7. CASE inbox' = inbox
    BY <1>1, <2>2, <2>5, <2>7, HandedOnce
  <2>8. CASE inbox' # inbox
    <3>1. router' = "read" /\ RouteOutgoing(r)
      BY <2>2, <2>8
    <3>2. PICK x \in Origins : /\ inbox' = [inbox EXCEPT ![x] = r.from]
                               /\ Registered(x) /\ Registered(r.from) /\ id[x] = id[r.from]
      BY <2>3, <2>8, <3>1, RouteOutgoingTaker
    <3>3. Registered(x)' /\ id'[x] = id[r.from] /\ \A o \in Origins : inbox[o] # r.from
      BY <1>1, <2>5, <2>6, <3>2
    <3> QED
      BY <1>1, <2>3, <2>4, <2>5, <3>1, <3>2, <3>3, HandedOnce
  <2> QED
    BY <2>7, <2>8
<1>6. CASE RouteDeliver
  <2>1. PICK r \in Responses : r = current /\ r.id \in Ids /\ Genuine(r.from, r.id)
    BY <1>6 DEF RouteDeliver, Types, Responses, Ids, InTransit
  <2>2. router = "deliver" /\ router' = "read" /\ inbound' = inbound
    BY <1>6 DEF RouteDeliver, clientVars
  <2>3. r.from \in Origins /\ Registered(r.from) /\ id[r.from] = r.id /\ r.from # Nobody
    BY <2>1 DEF Genuine
  <2>4. ~Queued(inbound, r.from)
    BY <2>1, <2>2, <2>3 DEF OneMessage, SpokenOnce, InRoute
  <2>5. \A o \in Origins : inbox[o] # r.from
    BY <1>2, <2>1, <2>2, <2>3
  <2>6. \/ inbox' = inbox
        \/ \E x \in Origins : /\ inbox' = [inbox EXCEPT ![x] = r.from]
                              /\ Registered(x) /\ id[x] = id[r.from]
    <3>1. CASE RouteOutgoing(current)
      BY <2>1, <3>1, RouteOutgoingTaker DEF GenuineAnswer
    <3>2. CASE /\ pending[current.id] # Nobody
               /\ inbox' = IF pc[pending[current.id]] \in {"send", "wait"}
                             THEN [inbox EXCEPT ![pending[current.id]] = current.from]
                             ELSE inbox
      <4>1. PICK c \in Callers : pending[current.id] = c
        BY <2>1, <3>2 DEF Types
      <4>2. pc[c] \in {"send", "wait", "guard"} /\ id[c] = r.id
        BY <2>1, <3>2, <4>1 DEF NoLeakedSlot
      <4>3. Registered(c) /\ c \in Origins
        BY <4>2 DEF CallShape, Registered, Origins
      <4> QED
        BY <2>1, <2>3, <3>2, <4>1, <4>2, <4>3
    <3> QED
      BY <1>6, <3>1, <3>2, DeliverCases
  <2>7. \/ inbox' = inbox
        \/ \E x, q \in Origins :
             /\ inbox' = [inbox EXCEPT ![x] = q]
             /\ Registered(x)' /\ Registered(q) /\ id'[x] = id[q]
             /\ \A o \in Origins : inbox[o] # q
             /\ ~Queued(inbound', q) /\ ~(router' = "deliver" /\ current'.from = q)
    BY <1>1, <2>2, <2>3, <2>4, <2>5, <2>6
  <2> QED
    BY <1>1, <1>2, <2>2, <2>7, HandedOnce
<1> QED
  BY <1>4, <1>5, <1>6

(* What route() does to the request whose response it is looking at, while *)
(* ids are distinct: it finds that request's own entry in one of the two   *)
(* tables, or calls the response unknown.  It judges a request once, and   *)
(* leaves every other request alone.                                       *)
LEMMA Judgement ==
    ASSUME Types, Correlated, IdsDistinct, RouteContains \/ RouteDeliver
    PROVE  \/ UNCHANGED <<inbox, verdict>>
           \/ \E o \in Origins :
                /\ ~Judged(o) /\ ~Unsent(o)
                /\ \A p \in Origins : p # o => inbox'[p] = inbox[p] /\ verdict'[p] = verdict[p]
                /\ \/ /\ verdict'[o] = "routed"
                      /\ o \in Callers /\ pc[o] \in {"wait", "guard"}
                      /\ inbox'[o] = IF pc[o] = "wait" THEN o ELSE inbox[o]
                   \/ /\ verdict'[o] = "routed"
                      /\ o \in Waiters
                      /\ \/ pc[o] = "wait" /\ inbox'[o] = o
                         \/ result[o] = "gaveup"
                   \/ /\ verdict'[o] = "unknown" /\ inbox'[o] = inbox[o]
                      /\ o \in Callers /\ o \in answered =>
                            Registered(o) /\ pending[id[o]] = Nobody
<1> USE OriginsAssumption, BoundsAssumption DEF Origins
<1>1. /\ CallShape /\ NoLeakedSlot /\ OutgoingOwned /\ InTransit
      /\ Outcomes /\ OneMessage /\ AnswersReal
  BY DEF Correlated
<1> DEFINE Own(o) ==
             /\ \A p \in Origins : p # o => inbox'[p] = inbox[p] /\ verdict'[p] = verdict[p]
             /\ \/ /\ verdict'[o] = "routed"
                   /\ o \in Callers /\ pc[o] \in {"send", "wait", "guard"}
                   /\ inbox'[o] = IF pc[o] \in {"send", "wait"} THEN o ELSE inbox[o]
                \/ /\ verdict'[o] = "routed"
                   /\ o \in Waiters
                   /\ \/ pc[o] = "wait" /\ inbox'[o] = o
                      \/ result[o] = "gaveup"
                \/ /\ verdict'[o] = "unknown" /\ inbox'[o] = inbox[o]
                   /\ o \in Callers /\ o \in answered =>
                         Registered(o) /\ pending[id[o]] = Nobody
<1>2. ASSUME NEW o \in Origins, ~Judged(o), ~Unsent(o), Own(o)
      PROVE  \E q \in Origins :
                /\ ~Judged(q) /\ ~Unsent(q)
                /\ \A p \in Origins : p # q => inbox'[p] = inbox[p] /\ verdict'[p] = verdict[p]
                /\ \/ /\ verdict'[q] = "routed"
                      /\ q \in Callers /\ pc[q] \in {"wait", "guard"}
                      /\ inbox'[q] = IF pc[q] = "wait" THEN q ELSE inbox[q]
                   \/ /\ verdict'[q] = "routed"
                      /\ q \in Waiters
                      /\ \/ pc[q] = "wait" /\ inbox'[q] = q
                         \/ result[q] = "gaveup"
                   \/ /\ verdict'[q] = "unknown" /\ inbox'[q] = inbox[q]
                      /\ q \in Callers /\ q \in answered =>
                            Registered(q) /\ pending[id[q]] = Nobody
  <2>1. pc[o] # "send"
    BY <1>2 DEF Unsent
  <2> QED
    BY <1>2, <2>1
<1>3. ASSUME NEW r \in Responses, RouteOutgoing(r), GenuineAnswer(r),
             r.id = NoId <=> r.from \notin answered,
             r.id \in Ids => pending[r.id] = Nobody
      PROVE  r.from \in Origins /\ Own(r.from)
  <2>1. r.from \in Origins
    BY DEF Responses
  <2>2. CASE r.id \in WaiterIds /\ outgoing[r.id] # Nobody
    <3>1. PICK w \in Waiters : outgoing[r.id] = w
      BY <2>2 DEF Types
    <3>2. Registered(w) /\ id[w] = r.id /\ (pc[w] = "wait" \/ result[w] = "gaveup")
      BY <1>1, <2>2, <3>1 DEF OutgoingOwned, Registered, Outcomes
    <3>3. Registered(r.from) /\ id[r.from] = r.id
      BY <1>3, <2>2 DEF GenuineAnswer, Genuine
    <3>4. r.from = w
      BY <2>1, <3>2, <3>3 DEF IdsDistinct, Unshared
    <3>5. /\ inbox' = IF pc[w] = "wait" THEN [inbox EXCEPT ![w] = w] ELSE inbox
          /\ verdict' = [verdict EXCEPT ![w] = "routed"]
      BY <1>3, <2>2, <3>1, <3>4 DEF RouteOutgoing
    <3>6. /\ \A p \in Origins : p # w => inbox'[p] = inbox[p] /\ verdict'[p] = verdict[p]
          /\ verdict'[w] = "routed"
          /\ pc[w] = "wait" => inbox'[w] = w
      BY <3>5 DEF Types
    <3> QED
      BY <2>1, <3>2, <3>4, <3>6
  <2>3. CASE ~(r.id \in WaiterIds /\ outgoing[r.id] # Nobody)
    <3>1. /\ inbox' = inbox
          /\ verdict' = [verdict EXCEPT ![r.from] = "unknown"]
      BY <1>3, <2>3 DEF RouteOutgoing
    <3>2. /\ \A p \in Origins : p # r.from => verdict'[p] = verdict[p]
          /\ verdict'[r.from] = "unknown"
      BY <2>1, <3>1 DEF Types
    <3>3. ASSUME r.from \in Callers, r.from \in answered
          PROVE  Registered(r.from) /\ pending[id[r.from]] = Nobody
      <4>1. Registered(r.from) /\ id[r.from] = r.id
        BY <1>3, <3>3 DEF GenuineAnswer, Genuine
      <4>2. id[r.from] \in Ids
        BY <1>1, <2>1, <3>3, <4>1, RegisteredId
      <4> QED
        BY <1>3, <4>1, <4>2
    <3> QED
      BY <2>1, <3>1, <3>2, <3>3
  <2> QED
    BY <2>2, <2>3
<1>4. CASE RouteContains
  <2>1. /\ inbound \in Seq(Responses) /\ inbound # <<>>
        /\ Head(inbound) \in Responses /\ Head(inbound) \in Items(inbound)
    BY <1>4, QueueType, QueueItems DEF RouteContains, Types
  <2>2. \/ UNCHANGED <<inbox, verdict>>
        \/ /\ RouteOutgoing(Head(inbound))
           /\ Head(inbound).id \in Ids => pending[Head(inbound).id] = Nobody
    BY <1>4 DEF RouteContains
  <2>3. /\ GenuineAnswer(Head(inbound))
        /\ Head(inbound).id = NoId <=> Head(inbound).from \notin answered
    BY <1>1, <2>1 DEF InTransit, AnswersReal
  <2>4. Head(inbound).from \in Origins
    BY <2>1 DEF Responses
  <2>5. Queued(inbound, Head(inbound).from)
    BY <2>1, QueuedTail
  <2>6. ~Judged(Head(inbound).from) /\ ~Unsent(Head(inbound).from)
    BY <1>1, <2>4, <2>5 DEF OneMessage, SpokenOnce
  <2> HIDE DEF Own
  <2> QED
    BY <1>2, <1>3, <2>1, <2>2, <2>3, <2>6
<1>5. CASE RouteDeliver
  <2>1. /\ current.id \in Ids /\ current \in Responses /\ current.from \in Origins
        /\ router = "deliver"
    BY <1>5 DEF RouteDeliver, Types, Responses, Ids
  <2>2. /\ Genuine(current.from, current.id) /\ current.from \in answered
        /\ current.id # NoId
    BY <1>1, <2>1 DEF InTransit, AnswersReal, Ids, NoId
  <2>3. ~Judged(current.from) /\ ~Unsent(current.from)
    BY <1>1, <2>1 DEF OneMessage, SpokenOnce, InRoute
  <2>4. CASE pending[current.id] = Nobody
    <3>1. RouteOutgoing(current)
      BY <1>5, <2>4 DEF RouteDeliver
    <3> HIDE DEF Own
    <3> QED
      BY <1>2, <1>3, <2>1, <2>2, <2>3, <2>4, <3>1 DEF GenuineAnswer
  <2>5. CASE pending[current.id] # Nobody
    <3>1. PICK c \in Callers : pending[current.id] = c
      BY <2>1, <2>5 DEF Types
    <3>2. pc[c] \in {"send", "wait", "guard"} /\ id[c] = current.id
      BY <1>1, <2>1, <3>1 DEF NoLeakedSlot
    <3>3. Registered(c)
      BY <1>1, <3>2 DEF CallShape, Registered
    <3>4. c = current.from
      BY <2>1, <2>2, <3>2, <3>3 DEF IdsDistinct, Unshared, Genuine
    <3>5. /\ inbox' = IF pc[c] \in {"send", "wait"} THEN [inbox EXCEPT ![c] = c] ELSE inbox
          /\ verdict' = [verdict EXCEPT ![c] = "routed"]
      BY <1>5, <2>5, <3>1, <3>4 DEF RouteDeliver
    <3>6. /\ \A p \in Origins : p # c => inbox'[p] = inbox[p] /\ verdict'[p] = verdict[p]
          /\ verdict'[c] = "routed"
          /\ inbox'[c] = IF pc[c] \in {"send", "wait"} THEN c ELSE inbox[c]
      BY <3>5 DEF Types
    <3>7. Own(c)
      BY <3>2, <3>6
    <3> HIDE DEF Own
    <3> QED
      BY <1>2, <2>1, <2>3, <3>4, <3>7
  <2> QED
    BY <2>4, <2>5
<1> QED
  BY <1>4, <1>5

(* A oneshot is filled, a response routed and an answer called unknown     *)
(* only as the promises about them allow.                                  *)
LEMMA VerdictStep ==
    ASSUME Types, Correlated, [Next]_vars
    PROVE  Fulfilled' /\ RoutedReaches' /\ NoAnswerLost'
<1> USE OriginsAssumption DEF Origins
<1>1. /\ CallShape /\ Held /\ InTransit /\ Outcomes /\ OneMessage /\ Fulfilled
      /\ RoutedReaches /\ NoAnswerLost
  BY DEF Correlated
<1> SUFFICES ASSUME IdsDistinct'
             PROVE  /\ \A c \in Callers : inbox'[c] # Nobody => verdict'[c] = "routed"
                    /\ \A o \in Origins : verdict'[o] = "routed" =>
                         inbox'[o] = o \/ result'[o] \in {"gaveup", "disconnected"}
                    /\ \A c \in Callers : verdict'[c] = "unknown" /\ c \in answered' =>
                         result'[c] \in {"gaveup", "disconnected"}
  BY DEF Fulfilled, RoutedReaches, NoAnswerLost
<1>2. IdsDistinct
  BY <1>1, IdsDistinctBefore
<1>3. /\ \A c \in Callers : inbox[c] # Nobody => verdict[c] = "routed"
      /\ \A o \in Origins : verdict[o] = "routed" =>
           inbox[o] = o \/ result[o] \in {"gaveup", "disconnected"}
      /\ \A c \in Callers : verdict[c] = "unknown" /\ c \in answered =>
           result[c] \in {"gaveup", "disconnected"}
  BY <1>1, <1>2 DEF Fulfilled, RoutedReaches, NoAnswerLost
<1>4. \A o \in Origins : result[o] \in {"gaveup", "disconnected"} => result'[o] = result[o]
  BY <1>1, ResultStays
<1>5. CASE ~RouteContains /\ ~RouteDeliver
  <2>1. UNCHANGED <<inbox, verdict>>
    BY <1>5, QuietFrame
  <2>2. ASSUME NEW c \in Callers, verdict[c] # "none", c \in answered'
        PROVE  c \in answered
    <3>1. CASE ClientAnswer
      <4>1. PICK r \in atClient : answered' \in {answered, answered \cup {r.from}}
        BY <3>1 DEF ClientAnswer
      <4>2. r.from # c
        BY <1>1, <2>2 DEF OneMessage, SpokenOnce, Asked, AtClient, Judged
      <4> QED
        BY <2>2, <4>1, <4>2
    <3>2. ASSUME NEW d \in Callers, Request(d) \/ CallerStep(d) \/ GiveUp(d)
          PROVE  answered' = answered
      BY <3>2, CallerFrame
    <3>3. CASE (OtherStep /\ ~ClientAnswer) \/ UNCHANGED vars
      BY <1>5, <2>2, <3>3
      DEF OtherStep, RegisterOutgoing, WaiterRecv, WaiterAbandon, CancelOutgoing, Post,
          DrainStep, DrainWrite, DrainWriteFails, DrainSendersGone, DrainClose,
          ClientClose, RouterEnds, RouterFails, LoopEnds, clientVars, vars
    <3> QED
      BY <1>5, <2>2, <3>1, <3>2, <3>3, NextCases
  <2> QED
    BY <1>3, <1>4, <2>1, <2>2
<1>6. CASE RouteContains \/ RouteDeliver
  <2>1. UNCHANGED <<pc, id, result, answered>>
    BY <1>6 DEF RouteContains, RouteDeliver, callerVars, clientVars
  <2>2. CASE UNCHANGED <<inbox, verdict>>
    BY <1>3, <2>1, <2>2
  <2>3. ASSUME NEW o \in Origins,
               ~Judged(o), ~Unsent(o),
               \A p \in Origins : p # o => inbox'[p] = inbox[p] /\ verdict'[p] = verdict[p],
               \/ /\ verdict'[o] = "routed"
                  /\ o \in Callers /\ pc[o] \in {"wait", "guard"}
                  /\ inbox'[o] = IF pc[o] = "wait" THEN o ELSE inbox[o]
               \/ /\ verdict'[o] = "routed"
                  /\ o \in Waiters
                  /\ \/ pc[o] = "wait" /\ inbox'[o] = o
                     \/ result[o] = "gaveup"
               \/ /\ verdict'[o] = "unknown" /\ inbox'[o] = inbox[o]
                  /\ o \in Callers /\ o \in answered =>
                        Registered(o) /\ pending[id[o]] = Nobody
        PROVE  /\ \A c \in Callers : inbox'[c] # Nobody => verdict'[c] = "routed"
               /\ \A p \in Origins : verdict'[p] = "routed" =>
                    inbox'[p] = p \/ result'[p] \in {"gaveup", "disconnected"}
               /\ \A c \in Callers : verdict'[c] = "unknown" /\ c \in answered' =>
                    result'[c] \in {"gaveup", "disconnected"}
    <3>1. o \in Callers => inbox[o] = Nobody
      BY <1>3, <2>3 DEF Judged
    <3>2. o \in Callers /\ inbox'[o] # Nobody => verdict'[o] = "routed"
      BY <2>3, <3>1
    <3>3. verdict'[o] = "routed" => inbox'[o] = o \/ result[o] \in {"gaveup", "disconnected"}
      BY <1>1, <2>3 DEF Outcomes
    <3>4. ASSUME o \in Callers, verdict'[o] = "unknown", o \in answered
          PROVE  result[o] \in {"gaveup", "disconnected"}
      <4>1. /\ pc[o] \in {"wait", "guard", "done"} /\ result[o] # "io"
            /\ pending[id[o]] = Nobody
        BY <2>3, <3>4 DEF Registered, Unsent
      <4>2. pc[o] # "wait"
        BY <1>1, <1>2, <3>1, <3>4, <4>1 DEF Held, IdsDistinct
      <4>3. result[o] \notin {"none", "ok"}
        BY <1>1, <3>1, <3>4, <4>1, <4>2 DEF Outcomes
      <4> QED
        BY <4>1, <4>3 DEF Types
    <3> QED
      BY <1>3, <2>1, <2>3, <3>2, <3>3, <3>4
  <2> QED
    BY <1>2, <1>6, <2>2, <2>3, Judgement
<1> QED
  BY <1>5, <1>6

(* Correlated is inductive. *)
LEMMA CorrelatedStep == Types /\ Correlated /\ [Next]_vars => Correlated'
<1> SUFFICES ASSUME Types, Correlated, [Next]_vars
             PROVE  Correlated'
  OBVIOUS
<1>1. /\ CallShape /\ NoLeakedSlot /\ DeliveredOnce /\ OutgoingOwned /\ InTransit /\ Held
      /\ Consumed /\ DeliveredById /\ HonestDisconnect /\ Outcomes /\ OneMessage
      /\ AnswersReal
  BY DEF Correlated
<1>2. CallShape' /\ NoLeakedSlot' /\ DeliveredOnce' /\ OutgoingOwned' /\ InTransit'
  BY <1>1, StepType, SlotStep, OutgoingStep, TransitStep
<1>3. Held' /\ HonestDisconnect' /\ Consumed' /\ DeliveredById'
  BY <1>1, HeldStep, HonestStep, ConsumedStep
<1>6. OwnResponse'
  <2>1. Types'
    BY <1>1, StepType
  <2> QED
    BY <1>3, <2>1, OwnFromConsumed
<1>4. Outcomes' /\ OneMessage' /\ AnswersReal'
  BY <1>1, OutcomesStep, OneMessageStep, AnswersStep
<1>5. Fulfilled' /\ RoutedReaches' /\ NoAnswerLost'
  BY VerdictStep
<1> QED
  BY <1>2, <1>3, <1>4, <1>5, <1>6 DEF Correlated

(* Nothing is registered, asked, answered or judged at first. *)
LEMMA InitCorrelated == Init => Correlated
<1> SUFFICES ASSUME Init PROVE Correlated
  OBVIOUS
<1> USE OriginsAssumption, BoundsAssumption DEF Init, Origins
<1>1. CallShape
  BY InitType
<1>2. /\ NoLeakedSlot /\ DeliveredOnce /\ OutgoingOwned /\ Held /\ OwnResponse
      /\ HonestDisconnect /\ Outcomes /\ Fulfilled /\ RoutedReaches /\ NoAnswerLost
      /\ Consumed /\ DeliveredById
  BY DEF NoLeakedSlot, DeliveredOnce, OutgoingOwned, Held, OwnResponse, HonestDisconnect,
         Outcomes, Fulfilled, RoutedReaches, NoAnswerLost, Consumed, DeliveredById
<1>3. InTransit /\ AnswersReal
  BY DEF InTransit, AnswersReal, Items
<1>4. OneMessage
  BY QueuedEmpty DEF OneMessage, SpokenOnce, Asked, AtClient, InRoute, Judged
<1> QED
  BY <1>1, <1>2, <1>3, <1>4 DEF Correlated

(* Correlated is an invariant. *)
THEOREM Correlation == Spec => []Correlated
BY InitCorrelated, CorrelatedStep, TypesHold, PTL DEF Spec

(* No caller and no waiter whose id nobody else has used ever receives the *)
(* answer to another request, however requests, answers, timeouts, aborts  *)
(* and disconnections interleave, and whatever ids others share.           *)
THEOREM ResponsesCorrelate == Spec => []OwnResponse
<1>1. Correlated => OwnResponse
  BY DEF Correlated
<1> QED
  BY <1>1, Correlation, PTL

(* With any reuse of ids, in one table or in both, a response only reaches *)
(* a task that registered the id it carries, and only one such task.       *)
THEOREM ResponsesGoById == Spec => []DeliveredById
<1>1. Correlated => DeliveredById
  BY DEF Correlated
<1> QED
  BY <1>1, Correlation, PTL

(* As long as nobody else uses its id, request() reports Disconnected only *)
(* after the drain task has ended.                                         *)
THEOREM DisconnectsAreHonest == Spec => []HonestDisconnect
<1>1. Correlated => HonestDisconnect
  BY DEF Correlated
<1> QED
  BY <1>1, Correlation, PTL

(* A response that route() reports as routed is in the waiting task's      *)
(* oneshot, unless that task was on its way out of the call.               *)
THEOREM RoutedResponsesArrive == Spec => []RoutedReaches
<1>1. Correlated => RoutedReaches
  BY DEF Correlated
<1> QED
  BY <1>1, Correlation, PTL

(* route() calls the client's answer to a request() unknown only if that   *)
(* call ended without it.                                                  *)
THEOREM NoAnswerIsLost == Spec => []NoAnswerLost
<1>1. Correlated => NoAnswerLost
  BY DEF Correlated
<1> QED
  BY <1>1, Correlation, PTL

(* A response that arrives after its call has returned is never reported   *)
(* as routed, as long as no id is reused: not to the call that is gone,    *)
(* and not to another one or to an entry of request_queue.outgoing.        *)
THEOREM LateResponsesAreUnknown == Spec => LateResponseUnknown
<1>1. ASSUME Types, Correlated, [Next]_vars
      PROVE  [\A c \in Callers : IdsDistinct' => LateResponse(c)]_vars
  <2> SUFFICES ASSUME NEW c \in Callers, IdsDistinct', pc[c] = "done", verdict[c] = "none"
               PROVE  verdict'[c] # "routed"
    BY DEF LateResponse
  <2>1. IdsDistinct /\ c \in Origins /\ c \notin Waiters
    BY <1>1, IdsDistinctBefore, OriginsAssumption DEF Correlated, Origins
  <2>2. CASE ~RouteContains /\ ~RouteDeliver
    BY <1>1, <2>2, QuietFrame
  <2>3. CASE RouteContains \/ RouteDeliver
    BY <1>1, <2>1, <2>3, Judgement
  <2> QED
    BY <2>2, <2>3
<1> QED
  BY <1>1, Correlation, TypesHold, PTL DEF Spec, LateResponseUnknown
============================================================================
