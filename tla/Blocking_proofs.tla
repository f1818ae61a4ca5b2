-------------------------- MODULE Blocking_proofs --------------------------
(***************************************************************************)
(* Proofs about Blocking: what ClientSender and request_queue.outgoing     *)
(* promise survives a task that reads the connection itself with the       *)
(* deprecated send_request.  The lemmas of ClientSender_proofs cover the   *)
(* steps of Next; here are the steps of send_request.                      *)
(***************************************************************************)
EXTENDS Blocking, ClientSender_proofs

USE DEF Places, Verdicts

BlockingStep(w) ==
    \/ \E i \in WaiterIds : SendRequestFails(w, i) \/ SendRequestBlocks(w, i)
    \/ BlockedReads(w) \/ BlockedDiscards(w) \/ BlockedEnds(w)

(* One send_request at a time, made by a waiter, and nobody routes then. *)
OneBlocked ==
    \A o \in Origins : pc[o] = "blocked" =>
        /\ o \in Waiters /\ router = "blocked"
        /\ \A p \in Origins : pc[p] = "blocked" => p = o

(* The inductive invariant *)
Survives == Types /\ Correlated /\ OneBlocked /\ DiscardedStillWaits

---------------------------------------------------------------------------
(* What send_request leaves alone: the callers, both tables, the client    *)
(* and whatever the other waiters do.                                      *)
Spares(w) ==
    /\ UNCHANGED <<counter, tries, pending, outgoing, posts, drain, peer, atClient,
                   answered, current>>
    /\ router \in {"read", "blocked"} /\ router' \in {"read", "blocked"}
    /\ pc[w] \in {"idle", "blocked"} /\ pc'[w] \in {"blocked", "done"}
    /\ result[w] = "none" /\ (result'[w] = "io" => pc[w] = "idle")
    /\ pc[w] = "idle" => router = "read"
    /\ pc'[w] = "blocked" => router' = "blocked" /\ result'[w] = "none"
    /\ id'[w] \in WaiterIds /\ (pc[w] # "idle" => id'[w] = id[w])
    /\ \A o \in Origins : o # w =>
         /\ pc'[o] = pc[o] /\ id'[o] = id[o] /\ result'[o] = result[o]
         /\ inbox'[o] = inbox[o]
    /\ pc' \in [Origins -> Places] /\ id' \in [Origins -> Nat]
    /\ result' \in [Origins -> {"none", "ok", "io", "disconnected", "gaveup"}]

(* Every step of send_request spares the rest. *)
LEMMA BlockingSpares ==
    ASSUME Types, Outcomes, OneBlocked, NEW w \in Waiters, BlockingStep(w)
    PROVE  Spares(w)
<1> USE OriginsAssumption, BoundsAssumption DEF Origins
<1>1. pc[w] \in {"idle", "blocked"} => result[w] = "none"
  BY DEF Outcomes
<1>2. pc[w] = "blocked" => router = "blocked" /\ id[w] \in WaiterIds
  BY DEF OneBlocked, Outcomes
<1>3. /\ w \in Origins
      /\ pc \in [Origins -> Places] /\ id \in [Origins -> Nat]
      /\ result \in [Origins -> {"none", "ok", "io", "disconnected", "gaveup"}]
      /\ inbox \in [Origins -> Origins \cup {Nobody}]
      /\ WaiterIds \subseteq Nat
  BY DEF Types
<1>4. ASSUME NEW i \in WaiterIds, SendRequestFails(w, i)
      PROVE  Spares(w)
  <2>1. /\ router = "read" /\ pc[w] = "idle"
        /\ pc' = [pc EXCEPT ![w] = "done"] /\ id' = [id EXCEPT ![w] = i]
        /\ result' = [result EXCEPT ![w] = "io"]
        /\ UNCHANGED <<counter, tries, pending, outgoing, posts, drain, peer, atClient,
                       answered, current, inbox, router>>
    BY <1>4 DEF SendRequestFails, mapVars, linkVars, clientVars, routeVars
  <2>2. /\ pc'[w] = "done" /\ id'[w] = i /\ result'[w] = "io"
        /\ \A o \in Origins : o # w =>
             /\ pc'[o] = pc[o] /\ id'[o] = id[o] /\ result'[o] = result[o]
             /\ inbox'[o] = inbox[o]
        /\ pc' \in [Origins -> Places] /\ id' \in [Origins -> Nat]
        /\ result' \in [Origins -> {"none", "ok", "io", "disconnected", "gaveup"}]
    BY <1>3, <2>1
  <2> QED
    BY <1>1, <2>1, <2>2 DEF Spares
<1>5. ASSUME NEW i \in WaiterIds, SendRequestBlocks(w, i)
      PROVE  Spares(w)
  <2>1. /\ router = "read" /\ router' = "blocked" /\ pc[w] = "idle"
        /\ pc' = [pc EXCEPT ![w] = "blocked"] /\ id' = [id EXCEPT ![w] = i]
        /\ result' = result
        /\ UNCHANGED <<counter, tries, pending, outgoing, posts, drain, peer, atClient,
                       answered, current, inbox>>
    BY <1>5 DEF SendRequestBlocks, mapVars, clientVars
  <2>2. /\ pc'[w] = "blocked" /\ id'[w] = i /\ result'[w] = "none"
        /\ \A o \in Origins : o # w =>
             /\ pc'[o] = pc[o] /\ id'[o] = id[o] /\ result'[o] = result[o]
             /\ inbox'[o] = inbox[o]
        /\ pc' \in [Origins -> Places] /\ id' \in [Origins -> Nat]
        /\ result' \in [Origins -> {"none", "ok", "io", "disconnected", "gaveup"}]
    BY <1>1, <1>3, <2>1
  <2> QED
    BY <1>1, <2>1, <2>2 DEF Spares
<1>6. CASE BlockedReads(w) \/ BlockedEnds(w)
  <2>1. PICK v \in {"ok", "gaveup", "disconnected"} :
          /\ pc[w] = "blocked" /\ router' = "read" /\ id' = id
          /\ pc' = [pc EXCEPT ![w] = "done"]
          /\ result' = [result EXCEPT ![w] = v]
          /\ UNCHANGED inbox \/ \E o : inbox' = [inbox EXCEPT ![w] = o]
          /\ UNCHANGED <<counter, tries, pending, outgoing, posts, drain, peer, atClient,
                         answered, current>>
    BY <1>6 DEF BlockedReads, BlockedEnds, Return, linkVars, mapVars, clientVars
  <2>2. /\ pc'[w] = "done" /\ id'[w] = id[w] /\ result'[w] = v
        /\ \A o \in Origins : o # w =>
             /\ pc'[o] = pc[o] /\ id'[o] = id[o] /\ result'[o] = result[o]
             /\ inbox'[o] = inbox[o]
        /\ pc' \in [Origins -> Places] /\ id' \in [Origins -> Nat]
        /\ result' \in [Origins -> {"none", "ok", "io", "disconnected", "gaveup"}]
    BY <1>3, <2>1
  <2> QED
    BY <1>1, <1>2, <2>1, <2>2 DEF Spares
<1>7. CASE BlockedDiscards(w)
  <2>1. /\ pc[w] = "blocked"
        /\ UNCHANGED <<counter, tries, pending, outgoing, posts, drain, peer, atClient,
                       answered, current, inbox, router, pc, id, result>>
    BY <1>7 DEF BlockedDiscards, callerVars, mapVars, linkVars
  <2> QED
    BY <1>1, <1>2, <1>3, <2>1 DEF Spares
<1> QED
  BY <1>4, <1>5, <1>6, <1>7 DEF BlockingStep

(* The channel, the inbound queue, the oneshots and the verdicts: one case *)
(* for each step.                                                          *)
LEMMA BlockingMoves ==
    ASSUME Types, Outcomes, OneBlocked, NEW w \in Waiters, BlockingStep(w)
    PROVE  \/ UNCHANGED <<channel, inbound, inbox, verdict>>
           \/ /\ pc[w] = "idle" /\ result' = result
              /\ channel' = Append(channel, RequestMsg(w, id'[w]))
              /\ UNCHANGED <<inbound, inbox, verdict>>
           \/ /\ inbound # <<>> /\ inbound' = Tail(inbound)
              /\ pc[w] = "blocked" /\ pc'[w] = "done" /\ Head(inbound).id = id[w]
              /\ inbox' = [inbox EXCEPT ![w] = Head(inbound).from]
              /\ UNCHANGED <<channel, verdict>>
           \/ /\ inbound # <<>> /\ inbound' = Tail(inbound)
              /\ pc[w] = "blocked"
              /\ verdict' = [verdict EXCEPT ![Head(inbound).from] = "discarded"]
              /\ UNCHANGED <<channel, inbox, pc, id, result>>
<1> USE OriginsAssumption DEF Origins
<1>1. ASSUME NEW i \in WaiterIds, SendRequestFails(w, i)
      PROVE  UNCHANGED <<channel, inbound, inbox, verdict>>
  BY <1>1 DEF SendRequestFails, mapVars, linkVars, clientVars, routeVars
<1>2. ASSUME NEW i \in WaiterIds, SendRequestBlocks(w, i)
      PROVE  /\ pc[w] = "idle" /\ result' = result
             /\ channel' = Append(channel, RequestMsg(w, id'[w]))
             /\ UNCHANGED <<inbound, inbox, verdict>>
  BY <1>2 DEF SendRequestBlocks, Enqueue, Types, mapVars, clientVars
<1>3. CASE BlockedReads(w)
  BY <1>3 DEF BlockedReads, Return, linkVars, Types
<1>4. CASE BlockedDiscards(w)
  BY <1>4 DEF BlockedDiscards, callerVars, mapVars, linkVars
<1>5. CASE BlockedEnds(w)
  BY <1>5 DEF BlockedEnds, mapVars, linkVars, clientVars
<1> QED
  BY <1>1, <1>2, <1>3, <1>4, <1>5 DEF BlockingStep

---------------------------------------------------------------------------
(* No step but send_request's own starts or ends a send_request. *)
LEMMA OneBlockedNext ==
    ASSUME Types, CallShape, OneBlocked, [Next]_vars
    PROVE  OneBlocked'
<1> USE OriginsAssumption DEF Origins
<1>1. SUFFICES /\ \A o \in Origins : pc'[o] = "blocked" => pc[o] = "blocked"
               /\ router = "blocked" => router' = "blocked"
  BY DEF OneBlocked
<1>2. ASSUME NEW c \in Callers, Request(c) \/ CallerStep(c) \/ GiveUp(c)
      PROVE  /\ \A o \in Origins : pc'[o] = "blocked" => pc[o] = "blocked"
             /\ router = "blocked" => router' = "blocked"
  BY <1>2, CallerMoves, CallerFrame
<1>3. ASSUME NEW w \in Waiters, (\E i \in WaiterIds : RegisterOutgoing(w, i))
                                \/ WaiterRecv(w) \/ WaiterAbandon(w)
      PROVE  /\ \A o \in Origins : pc'[o] = "blocked" => pc[o] = "blocked"
             /\ router = "blocked" => router' = "blocked"
  <2>1. /\ \E s \in {"wait", "done"} : pc' = [pc EXCEPT ![w] = s]
        /\ router' = router
    BY <1>3 DEF RegisterOutgoing, WaiterRecv, WaiterAbandon, routeVars
  <2> QED
    BY <2>1 DEF Types
<1>4. CASE \/ \E i \in WaiterIds : CancelOutgoing(i)
           \/ Post \/ DrainStep \/ ClientAnswer \/ ClientClose \/ RouteContains
           \/ RouterEnds \/ RouterFails \/ RouteDeliver \/ UNCHANGED vars
  BY <1>4 DEF CancelOutgoing, Post, DrainStep, DrainWrite, DrainWriteFails, DrainSendersGone,
              DrainClose, ClientAnswer, ClientClose, RouteContains, RouterEnds,
              RouterFails, LoopEnds, RouteDeliver, vars, callerVars, routeVars
<1> QED
  BY <1>2, <1>3, <1>4, NextCases DEF OtherStep

(* An id once registered stays, through send_request too. *)
LEMMA BlockingRegistered ==
    ASSUME NEW w \in Waiters, Spares(w)
    PROVE  /\ \A o \in Origins : Registered(o) => Registered(o)' /\ id'[o] = id[o]
           /\ Registered(w)'
           /\ \A o \in Origins : Unshared(o)' => Unshared(o)
           /\ IdsDistinct' => IdsDistinct
<1> USE OriginsAssumption DEF Origins
<1>1. \A o \in Origins : Registered(o) => Registered(o)' /\ id'[o] = id[o]
  BY DEF Spares, Registered
<1>2. Registered(w)'
  BY DEF Spares, Registered
<1>3. \A o \in Origins : Unshared(o)' => Unshared(o)
  BY <1>1 DEF Unshared
<1>4. IdsDistinct' => IdsDistinct
  BY <1>3 DEF IdsDistinct
<1> QED
  BY <1>1, <1>2, <1>3, <1>4

(* send_request keeps the types. *)
LEMMA BlockingTypes ==
    ASSUME Types, Outcomes, OneBlocked, NEW w \in Waiters, BlockingStep(w)
    PROVE  Types' /\ OneBlocked'
<1> USE OriginsAssumption, BoundsAssumption DEF Origins
<1>1. Spares(w)
  BY BlockingSpares
<1>2. /\ channel \in Seq(Messages) /\ inbound \in Seq(Responses)
      /\ inbox \in [Origins -> Origins \cup {Nobody}] /\ verdict \in [Origins -> Verdicts]
  BY DEF Types
<1>3. id'[w] \in Nat /\ RequestMsg(w, id'[w]) \in Messages
  BY <1>1 DEF Spares, RequestMsg, Messages
<1>4. inbound # <<>> => Head(inbound).from \in Origins /\ Tail(inbound) \in Seq(Responses)
  <2>1. inbound # <<>> => Head(inbound) \in Responses /\ Tail(inbound) \in Seq(Responses)
    BY <1>2, QueueType
  <2> QED
    BY <2>1 DEF Responses
<1>5. /\ channel' \in Seq(Messages) /\ inbound' \in Seq(Responses)
      /\ inbox' \in [Origins -> Origins \cup {Nobody}] /\ verdict' \in [Origins -> Verdicts]
  <2>1. CASE UNCHANGED <<channel, inbound, inbox, verdict>>
    BY <1>2, <2>1
  <2>2. CASE /\ channel' = Append(channel, RequestMsg(w, id'[w]))
             /\ UNCHANGED <<inbound, inbox, verdict>>
    BY <1>2, <1>3, <2>2, QueueType
  <2>3. CASE /\ inbound # <<>> /\ inbound' = Tail(inbound)
             /\ inbox' = [inbox EXCEPT ![w] = Head(inbound).from]
             /\ UNCHANGED <<channel, verdict>>
    BY <1>2, <1>4, <2>3
  <2>4. CASE /\ inbound # <<>> /\ inbound' = Tail(inbound)
             /\ verdict' = [verdict EXCEPT ![Head(inbound).from] = "discarded"]
             /\ UNCHANGED <<channel, inbox>>
    BY <1>2, <1>4, <2>4
  <2> QED
    BY <2>1, <2>2, <2>3, <2>4, BlockingMoves
<1>6. Types'
  BY <1>1, <1>5 DEF Types, Spares
<1>7. OneBlocked'
  BY <1>1 DEF OneBlocked, Spares
<1> QED
  BY <1>6, <1>7

(* send_request keeps what the tables, the calls and the oneshots of       *)
(* others say of each other.                                               *)
LEMMA BlockingTables ==
    ASSUME Types, Correlated, OneBlocked, NEW w \in Waiters, BlockingStep(w)
    PROVE  /\ CallShape' /\ NoLeakedSlot' /\ DeliveredOnce' /\ OutgoingOwned' /\ Held'
           /\ HonestDisconnect' /\ Outcomes'
<1> USE OriginsAssumption, BoundsAssumption DEF Origins
<1>1. /\ CallShape /\ NoLeakedSlot /\ DeliveredOnce /\ OutgoingOwned /\ Held
      /\ HonestDisconnect /\ Outcomes
  BY DEF Correlated
<1>2. Spares(w)
  BY <1>1, BlockingSpares
<1>3. \A c \in Callers : /\ c # w /\ pc'[c] = pc[c] /\ id'[c] = id[c] /\ inbox'[c] = inbox[c]
                         /\ result'[c] = result[c]
  BY <1>2 DEF Spares
<1>4. UNCHANGED <<counter, tries, pending, outgoing, drain>>
  BY <1>2 DEF Spares
<1>5. CallShape'
  BY <1>1, <1>3, <1>4 DEF CallShape
<1>6. NoLeakedSlot' /\ DeliveredOnce'
  BY <1>1, <1>3, <1>4 DEF NoLeakedSlot, DeliveredOnce, Types
<1>7. Held' /\ HonestDisconnect'
  BY <1>1, <1>2, <1>3, <1>4, BlockingRegistered DEF Held, HonestDisconnect
<1>8. \A i \in WaiterIds : outgoing[i] \in Waiters \cup {Nobody} /\ outgoing[i] # w
  BY <1>1, <1>2 DEF Types, Spares, Outcomes
<1>9. OutgoingOwned'
  BY <1>1, <1>2, <1>4, <1>8 DEF OutgoingOwned, Spares
<1>10. Outcomes'
  <2>1. \A c \in Callers :
          /\ pc'[c] = "guard" => result'[c] \in {"gaveup", "disconnected"}
          /\ pc'[c] = "done" => result'[c] # "none"
          /\ result'[c] = "ok" => inbox'[c] # Nobody
    BY <1>1, <1>3 DEF Outcomes
  <2>2. \A v \in Waiters :
          /\ pc'[v] # "done" => result'[v] = "none"
          /\ IF pc'[v] = "idle" THEN inbox'[v] = Nobody ELSE id'[v] \in WaiterIds
    BY <1>1, <1>2 DEF Outcomes, Spares
  <2>3. \A i \in WaiterIds : outgoing'[i] # Nobody =>
         /\ inbox'[outgoing'[i]] = Nobody
         /\ \/ pc'[outgoing'[i]] = "wait"
            \/ pc'[outgoing'[i]] = "done" /\ result'[outgoing'[i]] = "gaveup"
    BY <1>1, <1>2, <1>4, <1>8 DEF Outcomes, Spares
  <2> QED
    BY <2>1, <2>2, <2>3 DEF Outcomes
<1> QED
  BY <1>5, <1>6, <1>7, <1>9, <1>10

(* send_request takes part in the messages as others do: it sends one      *)
(* request, and takes responses off the queue.                             *)
LEMMA BlockingMessages ==
    ASSUME Types, Correlated, OneBlocked, NEW w \in Waiters, BlockingStep(w)
    PROVE  InTransit' /\ OneMessage' /\ AnswersReal'
<1> USE OriginsAssumption, BoundsAssumption DEF Origins
<1>1. InTransit /\ OneMessage /\ AnswersReal /\ Outcomes
  BY DEF Correlated
<1>2. Spares(w)
  BY <1>1, BlockingSpares
<1>3. /\ channel \in Seq(Messages) /\ inbound \in Seq(Responses) /\ w \in Origins
  BY DEF Types
<1>4. /\ UNCHANGED <<atClient, answered, current>>
      /\ router # "deliver" /\ router' # "deliver"
  BY <1>2 DEF Spares
<1>5. PICK i \in WaiterIds :
        /\ i = id'[w]
        /\ RequestMsg(w, i) \in Messages /\ RequestMsg(w, i).from = w
        /\ RequestMsg(w, i).id = i
  BY <1>2 DEF Spares, RequestMsg, Messages
<1>6. /\ inbound' = inbound \/ (inbound # <<>> /\ inbound' = Tail(inbound))
      /\ \/ channel' = channel
         \/ pc[w] = "idle" /\ result' = result /\ channel' = Append(channel, RequestMsg(w, i))
  BY <1>1, <1>5, BlockingMoves
<1>7. Items(inbound') \subseteq Items(inbound)
  <2>1. CASE inbound # <<>> /\ inbound' = Tail(inbound)
    <3>1. Head(inbound) \in Responses
      BY <1>3, <2>1, QueueType
    <3> QED
      BY <1>3, <2>1, <3>1, QueueItems
  <2> QED
    BY <1>6, <2>1
<1>8. InTransit'
  <2>1. \A o, k : Genuine(o, k) => Genuine(o, k)'
    BY <1>2, BlockingRegistered DEF Genuine
  <2>2. Items(channel') \subseteq Items(channel) \cup {RequestMsg(w, i)}
    BY <1>3, <1>5, <1>6, QueueItems
  <2>3. Genuine(w, i)'
    BY <1>2, <1>3, <1>5, BlockingRegistered DEF Genuine
  <2>4. \A m \in Items(channel') : m.kind = "request" => Genuine(m.from, m.id)'
    BY <1>1, <1>5, <2>1, <2>2, <2>3 DEF InTransit
  <2>5. \A r \in Items(inbound') : GenuineAnswer(r)'
    BY <1>1, <1>7, <2>1 DEF InTransit, GenuineAnswer
  <2>6. \A r \in atClient' : Genuine(r.from, r.id)'
    BY <1>1, <1>4, <2>1 DEF InTransit
  <2> QED
    BY <1>4, <2>4, <2>5, <2>6 DEF InTransit
<1>9. ASSUME NEW o \in Origins
      PROVE  SpokenOnce(o)'
  <2>1. SpokenOnce(o) /\ Once(channel, o) /\ Once(inbound, o)
    BY <1>1 DEF OneMessage, SpokenOnce
  <2>2. /\ Once(inbound', o)
        /\ Queued(inbound', o) => Queued(inbound, o)
    <3>1. CASE inbound # <<>> /\ inbound' = Tail(inbound)
      BY <1>3, <2>1, <3>1, QueuedTail
    <3> QED
      BY <1>6, <2>1, <3>1
  <2>3. /\ Once(inbound, o)'
        /\ Queued(inbound, o)' => Queued(inbound, o)
        /\ AtClient(o)' <=> AtClient(o)
        /\ ~InRoute(o)'
        /\ o \in answered' <=> o \in answered
    BY <1>4, <2>2 DEF Once, Queued, AtClient, InRoute
  <2>4. Unsent(o)' => Unsent(o)
    BY <1>2 DEF Spares, Unsent
  <2>5. CASE UNCHANGED <<channel, inbound, inbox, verdict>>
             \/ /\ inbound # <<>> /\ inbound' = Tail(inbound)
                /\ UNCHANGED <<channel, verdict>>
    <3>1. /\ Once(channel, o)'
          /\ Queued(channel, o)' => Queued(channel, o)
          /\ Judged(o)' => Judged(o)
      BY <2>1, <2>5 DEF Once, Queued, Judged
    <3> QED
      BY <2>1, <2>3, <2>4, <3>1, SpokenFrame
  <2>6. CASE /\ pc[w] = "idle" /\ result' = result
             /\ channel' = Append(channel, RequestMsg(w, i))
             /\ UNCHANGED <<inbound, inbox, verdict>>
    <3>1. /\ Queued(channel', o) => Queued(channel, o) \/ w = o
          /\ (w = o => ~Queued(channel, o)) => Once(channel', o)
      BY <1>3, <1>5, <2>1, <2>6, QueuedAppend
    <3>2. /\ Queued(channel, o)' => Queued(channel, o) \/ w = o
          /\ (w = o => ~Queued(channel, o)) => Once(channel, o)'
          /\ Judged(o)' <=> Judged(o)
      BY <2>6, <3>1 DEF Once, Queued, Judged
    <3>3. w = o => Unsent(o) /\ ~Unsent(o)'
      BY <1>2, <2>6 DEF Spares, Unsent
    <3>4. CASE w = o
      <4>1. /\ ~Queued(channel, o) /\ ~AtClient(o) /\ ~Queued(inbound, o)
            /\ ~Judged(o) /\ o \notin answered
        BY <2>1, <3>3, <3>4 DEF SpokenOnce, Asked
      <4> QED
        BY <2>1, <2>3, <3>2, <3>3, <3>4, <4>1 DEF SpokenOnce, Asked
    <3>5. CASE w # o
      BY <2>1, <2>3, <2>4, <3>2, <3>5, SpokenFrame
    <3> QED
      BY <3>4, <3>5
  <2>7. CASE /\ inbound # <<>> /\ inbound' = Tail(inbound)
             /\ pc[w] = "blocked"
             /\ verdict' = [verdict EXCEPT ![Head(inbound).from] = "discarded"]
             /\ UNCHANGED <<channel, inbox, pc, id, result>>
    <3>1. /\ Queued(inbound', o) => Head(inbound).from # o
          /\ Head(inbound).from = o => Queued(inbound, o)
      BY <1>3, <2>1, <2>7, QueuedTail
    <3>2. Judged(o)' => Judged(o) \/ Head(inbound).from = o
      BY <2>7 DEF Judged, Types
    <3>3. /\ Once(channel, o)'
          /\ Queued(channel, o)' <=> Queued(channel, o)
          /\ Queued(inbound, o)' => Head(inbound).from # o
          /\ Unsent(o)' <=> Unsent(o)
      BY <2>1, <2>7, <3>1 DEF Once, Queued, Unsent
    <3> QED
      BY <2>1, <2>3, <3>1, <3>2, <3>3 DEF SpokenOnce, Asked
  <2> QED
    BY <1>1, <1>5, <2>5, <2>6, <2>7, BlockingMoves
<1>10. AnswersReal'
  <2>1. \A r \in Items(inbound') : r.id = NoId <=> r.from \notin answered'
    BY <1>1, <1>4, <1>7 DEF AnswersReal
  <2>2. ASSUME inbound # <<>>, Head(inbound).id = id[w], pc[w] = "blocked"
        PROVE  Head(inbound).from \in answered
    <3>1. id[w] # NoId
      BY <1>1, <2>2 DEF Outcomes
    <3>2. Head(inbound) \in Items(inbound)
      BY <1>3, <2>2, QueueItems, QueueType
    <3> QED
      BY <1>1, <2>2, <3>1, <3>2 DEF AnswersReal
  <2>3. \A o \in Origins : inbox'[o] # Nobody => inbox'[o] \in answered
    <3>1. \/ inbox' = inbox
          \/ /\ inbound # <<>> /\ Head(inbound).id = id[w] /\ pc[w] = "blocked"
             /\ inbox' = [inbox EXCEPT ![w] = Head(inbound).from]
      BY <1>1, BlockingMoves
    <3>2. \A o \in Origins : inbox[o] # Nobody => inbox[o] \in answered
      BY <1>1 DEF AnswersReal
    <3> QED
      BY <2>2, <3>1, <3>2 DEF Types
  <2> QED
    BY <1>4, <2>1, <2>3 DEF AnswersReal
<1> QED
  BY <1>8, <1>9, <1>10 DEF OneMessage

(* While ids are distinct, send_request hands its caller the answer to its *)
(* own request, and what it discards leaves the other call its entry.      *)
LEMMA BlockingVerdicts ==
    ASSUME Types, Correlated, OneBlocked, DiscardedStillWaits,
           NEW w \in Waiters, BlockingStep(w)
    PROVE  Fulfilled' /\ RoutedReaches' /\ NoAnswerLost' /\ DiscardedStillWaits'
<1> USE OriginsAssumption, BoundsAssumption DEF Origins
<1>1. /\ CallShape /\ InTransit /\ OneMessage /\ AnswersReal /\ Outcomes /\ Held
      /\ Fulfilled /\ RoutedReaches /\ NoAnswerLost
  BY DEF Correlated
<1>2. Spares(w)
  BY <1>1, BlockingSpares
<1>3. CASE ~IdsDistinct'
  BY <1>3 DEF Fulfilled, RoutedReaches, NoAnswerLost, DiscardedStillWaits
<1>4. CASE IdsDistinct'
  <2>1. IdsDistinct
    BY <1>2, <1>4, BlockingRegistered
  <2>2. /\ \A c \in Callers : inbox[c] # Nobody => verdict[c] = "routed"
        /\ \A o \in Origins : verdict[o] = "routed" =>
             inbox[o] = o \/ result[o] \in {"gaveup", "disconnected"}
        /\ \A c \in Callers : verdict[c] = "unknown" /\ c \in answered =>
             result[c] \in {"gaveup", "disconnected"}
        /\ \A c \in Callers : verdict[c] = "discarded" =>
             pending[id[c]] = c \/ result[c] \in {"gaveup", "disconnected"}
    BY <1>1, <2>1 DEF Fulfilled, RoutedReaches, NoAnswerLost, DiscardedStillWaits
  <2>3. /\ \A o \in Origins : o # w => inbox'[o] = inbox[o] /\ result'[o] = result[o]
        /\ \A c \in Callers : c # w /\ id'[c] = id[c]
        /\ UNCHANGED <<pending, answered>>
        /\ result[w] = "none" /\ w \in Origins
    BY <1>2 DEF Spares
  <2>4. inbound # <<>> => /\ Head(inbound) \in Items(inbound)
                          /\ Head(inbound) \in Responses
                          /\ Queued(inbound, Head(inbound).from)
    <3>1. inbound \in Seq(Responses)
      BY DEF Types
    <3>2. inbound # <<>> => Head(inbound) \in Responses
      BY <3>1, QueueType
    <3> QED
      BY <3>1, <3>2, QueueItems, QueuedTail
  <2>5. inbox'[w] = inbox[w] \/ inbox'[w] = w
    <3>1. CASE /\ inbound # <<>> /\ pc[w] = "blocked" /\ Head(inbound).id = id[w]
               /\ inbox' = [inbox EXCEPT ![w] = Head(inbound).from]
      <4>1. id[w] # NoId /\ Registered(w)
        BY <1>1, <3>1 DEF Outcomes, Registered
      <4>2. Genuine(Head(inbound).from, id[w])
        BY <1>1, <2>4, <3>1, <4>1 DEF InTransit, GenuineAnswer
      <4>3. Head(inbound).from = w
        BY <2>1, <4>1, <4>2 DEF IdsDistinct, Unshared, Genuine
      <4> QED
        BY <3>1, <4>3 DEF Types
    <3> QED
      BY <1>1, <3>1, BlockingMoves
  <2>6. CASE UNCHANGED verdict
    <3>2. \A c \in Callers : inbox'[c] # Nobody => verdict'[c] = "routed"
      BY <2>2, <2>3, <2>6
    <3>3. \A o \in Origins : verdict'[o] = "routed" =>
             inbox'[o] = o \/ result'[o] \in {"gaveup", "disconnected"}
      BY <2>2, <2>3, <2>5, <2>6
    <3>4. /\ \A c \in Callers : verdict'[c] = "unknown" /\ c \in answered' =>
               result'[c] \in {"gaveup", "disconnected"}
          /\ \A c \in Callers : verdict'[c] = "discarded" =>
               pending'[id'[c]] = c \/ result'[c] \in {"gaveup", "disconnected"}
      BY <2>2, <2>3, <2>6
    <3> QED
      BY <3>2, <3>3, <3>4
      DEF Fulfilled, RoutedReaches, NoAnswerLost, DiscardedStillWaits
  <2>7. CASE /\ inbound # <<>>
             /\ verdict' = [verdict EXCEPT ![Head(inbound).from] = "discarded"]
             /\ UNCHANGED <<inbox, pc, id, result>>
    <3>1. PICK o \in Origins : o = Head(inbound).from
      BY <2>4, <2>7 DEF Responses
    <3>2. /\ verdict'[o] = "discarded"
          /\ \A p \in Origins : p # o => verdict'[p] = verdict[p]
      BY <2>7, <3>1 DEF Types
    <3>3. verdict[o] = "none" /\ ~Unsent(o)
      BY <1>1, <2>4, <2>7, <3>1 DEF OneMessage, SpokenOnce, Judged
    <3>4. ASSUME o \in Callers
          PROVE  inbox[o] = Nobody /\ (pending[id[o]] = o \/ result[o] \in {"gaveup", "disconnected"})
      <4>1. inbox[o] = Nobody
        BY <2>2, <3>3, <3>4
      <4>2. pc[o] # "blocked"
        BY <3>4 DEF OneBlocked
      <4>3. pc[o] \in {"wait", "guard", "done"} /\ result[o] # "io"
        BY <3>3, <4>2 DEF Unsent, Types
      <4>4. CASE pc[o] = "wait"
        BY <1>1, <2>1, <3>4, <4>1, <4>4 DEF Held, IdsDistinct
      <4>5. CASE pc[o] \in {"guard", "done"}
        <5>1. result[o] \notin {"none", "ok"}
          BY <1>1, <3>4, <4>1, <4>5 DEF Outcomes
        <5> QED
          BY <4>1, <4>3, <5>1 DEF Types
      <4> QED
        BY <4>1, <4>3, <4>4, <4>5
    <3>6. \A c \in Callers : inbox[c] # Nobody => verdict'[c] = "routed"
      BY <2>2, <3>2, <3>4
    <3>7. \A p \in Origins : verdict'[p] = "routed" =>
             inbox[p] = p \/ result[p] \in {"gaveup", "disconnected"}
      BY <2>2, <3>2
    <3>8. \A c \in Callers : verdict'[c] = "unknown" /\ c \in answered =>
               result[c] \in {"gaveup", "disconnected"}
      BY <2>2, <3>2
    <3>9. \A c \in Callers : verdict'[c] = "discarded" =>
               pending[id[c]] = c \/ result[c] \in {"gaveup", "disconnected"}
      BY <2>2, <3>2, <3>4
    <3> QED
      BY <2>3, <2>7, <3>6, <3>7, <3>8, <3>9
      DEF Fulfilled, RoutedReaches, NoAnswerLost, DiscardedStillWaits
  <2> QED
    BY <1>1, <2>6, <2>7, BlockingMoves
<1> QED
  BY <1>3, <1>4

(* send_request takes a response off the queue like anybody else, and      *)
(* keeps it only if it carries its own id.                                 *)
LEMMA BlockingConsumes ==
    ASSUME Types, Correlated, OneBlocked, NEW w \in Waiters, BlockingStep(w)
    PROVE  Consumed' /\ DeliveredById' /\ OwnResponse'
<1> USE OriginsAssumption, BoundsAssumption DEF Origins
<1>1. /\ InTransit /\ OneMessage /\ Outcomes /\ Consumed /\ DeliveredById
  BY DEF Correlated
<1>2. Spares(w)
  BY <1>1, BlockingSpares
<1>3. /\ \A o \in Origins : Registered(o) => Registered(o)' /\ id'[o] = id[o]
      /\ Registered(w)' /\ router' # "deliver" /\ w \in Origins
  BY <1>2, BlockingRegistered DEF Spares
<1>4. inbound \in Seq(Responses)
  BY DEF Types
<1>5. \A o \in Origins : inbox[o] # Nobody => ~Queued(inbound, inbox[o])
  BY <1>1 DEF Consumed
<1>6. ASSUME UNCHANGED <<inbound, inbox>>
      PROVE  Consumed' /\ DeliveredById'
  BY <1>1, <1>3, <1>5, <1>6, HandedOnce
<1>7. ASSUME inbound # <<>>, inbound' = Tail(inbound)
      PROVE  Consumed' /\ DeliveredById'
  <2>1. PICK r \in Responses : r = Head(inbound) /\ r \in Items(inbound)
    BY <1>4, <1>7, QueueType, QueueItems
  <2>2. r.from \in Origins /\ r.from # Nobody /\ GenuineAnswer(r)
    BY <1>1, <2>1 DEF Responses, InTransit
  <2>3. Queued(inbound, r.from) /\ ~Queued(inbound', r.from)
    <3>1. Once(inbound, r.from)
      BY <1>1, <2>2 DEF OneMessage, SpokenOnce
    <3> QED
      BY <1>4, <1>7, <2>1, <3>1, QueuedTail
  <2>4. /\ \A o \in Origins : inbox[o] # Nobody => ~Queued(inbound', inbox[o])
        /\ \A o \in Origins : inbox[o] # r.from
    BY <1>4, <1>5, <1>7, <2>2, <2>3, QueuedTail
  <2>5. CASE inbox' = inbox
    BY <1>1, <1>3, <2>4, <2>5, HandedOnce
  <2>6. CASE /\ pc[w] = "blocked" /\ r.id = id[w]
             /\ inbox' = [inbox EXCEPT ![w] = r.from]
    <3>1. id[w] # NoId /\ id'[w] = id[w]
      BY <1>1, <1>2, <2>6 DEF Outcomes, Spares
    <3>2. Registered(r.from) /\ id'[w] = id[r.from]
      BY <2>2, <2>6, <3>1 DEF GenuineAnswer, Genuine
    <3> QED
      BY <1>1, <1>3, <2>2, <2>3, <2>4, <2>6, <3>2, HandedOnce
  <2> QED
    BY <1>1, <2>1, <2>5, <2>6, BlockingMoves
<1>8. Consumed' /\ DeliveredById'
  BY <1>1, <1>6, <1>7, BlockingMoves
<1>9. Types'
  BY <1>1, BlockingTypes
<1> QED
  BY <1>8, <1>9, OwnFromConsumed

(* Nobody but the call itself removes the entry of a call whose answer was *)
(* discarded, as long as no id is reused: no later response names it.      *)
LEMMA DiscardedNext ==
    ASSUME Types, Correlated, OneBlocked, DiscardedStillWaits, [Next]_vars
    PROVE  DiscardedStillWaits'
<1> USE OriginsAssumption, BoundsAssumption DEF Origins
<1>1. /\ CallShape /\ InTransit /\ OneMessage /\ Outcomes /\ NoLeakedSlot
  BY DEF Correlated
<1> SUFFICES ASSUME IdsDistinct', NEW c \in Callers, verdict'[c] = "discarded"
             PROVE  pending'[id'[c]] = c \/ result'[c] \in {"gaveup", "disconnected"}
  BY DEF DiscardedStillWaits
<1>2. IdsDistinct
  BY <1>1, IdsDistinctBefore
<1>3. verdict[c] = "discarded"
  <2>1. CASE RouteContains \/ RouteDeliver
    BY <1>2, <2>1, Judgement
  <2>2. CASE ~RouteContains /\ ~RouteDeliver
    BY <2>2, QuietFrame
  <2> QED
    BY <2>1, <2>2
<1>4. CASE result[c] \in {"gaveup", "disconnected"}
  BY <1>1, <1>4, ResultStays
<1>5. CASE pending[id[c]] = c /\ result[c] \notin {"gaveup", "disconnected"}
  <2>1. pc[c] \in {"wait", "guard", "done"} /\ result[c] # "io"
    BY <1>1, <1>3 DEF OneMessage, SpokenOnce, Judged, Unsent, OneBlocked, Types
  <2>2. Registered(c)
    BY <2>1 DEF Registered
  <2>3. id'[c] = id[c] /\ id[c] \in Ids
    BY <1>1, <2>1, <2>2, RegisteredStays DEF CallShape
  <2>4. pc[c] # "guard"
    BY <1>1, <1>5 DEF Outcomes
  <2>5. ASSUME NEW d \in Callers, Request(d) \/ CallerStep(d) \/ GiveUp(d)
        PROVE  pending'[id[c]] = c
    <3>1. CASE GuardDrop(d)
      <4>1. Registered(d) /\ d # c /\ id[d] \in Ids
        BY <1>1, <2>4, <3>1 DEF GuardDrop, CallShape, Registered
      <4>2. id[d] # id[c]
        BY <1>2, <2>2, <4>1 DEF IdsDistinct, Unshared
      <4> QED
        BY <1>5, <2>3, <3>1, <4>1, <4>2 DEF GuardDrop, Types
    <3>2. CASE TryRegister(d)
      BY <1>5, <2>3, <3>2 DEF TryRegister, Types
    <3>3. CASE ~GuardDrop(d) /\ ~TryRegister(d)
      <4>1. pending' = pending
        BY <2>5, <3>3 DEF CallerStep, Request, Retry, TryRegisterTaken, SendRequest,
                          SendRequestClosed, RecvResponse, RecvClosed, DrainCancelled,
                          GiveUp, Leave, mapVars
      <4> QED
        BY <1>5, <4>1
    <3> QED
      BY <3>1, <3>2, <3>3
  <2>6. CASE OtherStep \/ UNCHANGED vars
    <3>1. pending' = pending
      BY <2>6, OthersFrame DEF vars, mapVars
    <3> QED
      BY <1>5, <2>3, <3>1
  <2>7. CASE RouteDeliver
    <3>1. current.id \in Ids /\ Genuine(current.from, current.id) /\ InRoute(current.from)
      BY <1>1, <2>7 DEF RouteDeliver, Types, InTransit, InRoute
    <3>2. current.from # c
      BY <1>1, <1>3, <3>1 DEF OneMessage, SpokenOnce, Judged
    <3>3. current.id # id[c]
      BY <1>2, <2>2, <3>1, <3>2 DEF IdsDistinct, Unshared, Genuine
    <3> QED
      BY <1>5, <2>3, <2>7, <3>1, <3>3, DeliverCases DEF Types
  <2> QED
    BY <2>3, <2>5, <2>6, <2>7, NextCases
<1> QED
  BY <1>2, <1>3, <1>4, <1>5 DEF DiscardedStillWaits

---------------------------------------------------------------------------
(* Survives is inductive. *)
LEMMA SurvivesStep == Survives /\ [NextBlocking]_vars => Survives'
<1> SUFFICES ASSUME Types, Correlated, OneBlocked, DiscardedStillWaits, [NextBlocking]_vars
             PROVE  Types' /\ Correlated' /\ OneBlocked' /\ DiscardedStillWaits'
  BY DEF Survives
<1>1. CallShape /\ Outcomes
  BY DEF Correlated
<1>2. CASE [Next]_vars
  BY <1>1, <1>2, StepType, CorrelatedStep, OneBlockedNext, DiscardedNext
<1>3. ASSUME NEW w \in Waiters, BlockingStep(w)
      PROVE  Types' /\ Correlated' /\ OneBlocked' /\ DiscardedStillWaits'
  BY <1>1, <1>3, BlockingTypes, BlockingTables, BlockingMessages, BlockingVerdicts,
     BlockingConsumes
  DEF Correlated
<1> QED
  BY <1>2, <1>3 DEF NextBlocking, BlockingStep

(* What ClientSender and request_queue.outgoing promise holds beside       *)
(* blocking send_request calls as well.                                    *)
THEOREM CorrelationSurvives == SpecBlocking => []Survives
<1>1. Init => Survives
  <2>1. Init => OneBlocked /\ DiscardedStillWaits
    BY OriginsAssumption DEF Init, OneBlocked, DiscardedStillWaits, Origins
  <2> QED
    BY <2>1, InitType, InitCorrelated DEF Survives
<1> QED
  BY <1>1, SurvivesStep, PTL DEF SpecBlocking

(* Nobody whose id is not shared receives the answer to another request,   *)
(* send_request included.                                                  *)
THEOREM BlockedReadsItsOwn == SpecBlocking => []OwnResponse
<1>1. Survives => OwnResponse
  BY DEF Survives, Correlated
<1> QED
  BY <1>1, CorrelationSurvives, PTL

(* With any reuse of ids a response reaches one task, in the response map, *)
(* in request_queue.outgoing or in send_request, that uses its id.         *)
THEOREM BlockedGoById == SpecBlocking => []DeliveredById
<1>1. Survives => DeliveredById
  BY DEF Survives, Correlated
<1> QED
  BY <1>1, CorrelationSurvives, PTL

(* A response reported as routed has arrived, with send_request calls in   *)
(* between.                                                                *)
THEOREM BlockedRoutedArrive == SpecBlocking => []RoutedReaches
<1>1. Survives => RoutedReaches
  BY DEF Survives, Correlated
<1> QED
  BY <1>1, CorrelationSurvives, PTL

(* Reading the receiver elsewhere makes no request() report Disconnected.  *)
THEOREM BlockedDisconnectsAreHonest == SpecBlocking => []HonestDisconnect
<1>1. Survives => HonestDisconnect
  BY DEF Survives, Correlated
<1> QED
  BY <1>1, CorrelationSurvives, PTL

(* A call whose answer a blocked send_request discarded keeps its entry    *)
(* until its own timeout, abort or disconnection.                          *)
THEOREM DiscardedCallsWait == SpecBlocking => []DiscardedStillWaits
<1>1. Survives => DiscardedStillWaits
  BY DEF Survives
<1> QED
  BY <1>1, CorrelationSurvives, PTL
============================================================================
