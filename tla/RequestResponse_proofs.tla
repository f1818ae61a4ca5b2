----------------------- MODULE RequestResponse_proofs -----------------------
(***************************************************************************)
(* ClientSender implements RequestResponse: the abstract call with no ids, *)
(* maps, channels or tasks.  Also proved here: the ids of a handle and its *)
(* clones are unique as long as it has not made more calls than there are  *)
(* ids, which is what the other promises of ClientSender rest on.          *)
(***************************************************************************)
EXTENDS ClientSender_proofs, FiniteSetTheorems

USE DEF Places, Verdicts

(* Every caller uses a clone of one handle, and there is an id for each. *)
ClonesOfOne ==
    /\ IsFiniteSet(Callers) /\ Cardinality(Callers) <= MaxId
    /\ \A c, d \in Callers : HandleOf[c] = HandleOf[d]

(* The calls that have drawn an id *)
Drawn == {c \in Callers : pc[c] # "idle"}

(* The inductive invariant: ids were drawn in order, none twice, and       *)
(* nobody had to draw again.  Only after the last call may the counter     *)
(* have wrapped around.                                                    *)
InOrder ==
    /\ \A c \in Callers : pc[c] # "reserve" /\ result[c] # "io"
    /\ \A c, d \in Drawn : c # d => id[c] # id[d]
    /\ \A c \in Drawn : id[c] \in 1..Cardinality(Drawn)
    /\ \A c \in Callers \ Drawn : counter[HandleOf[c]] = Cardinality(Drawn) + 1

(* Drawing one more id in order. *)
LEMMA DrawInOrder ==
    ASSUME ClonesOfOne, Types, CallShape, InOrder, NEW c \in Callers, Request(c)
    PROVE  InOrder'
<1> USE OriginsAssumption, BoundsAssumption DEF Origins
<1>1. /\ c \notin Drawn /\ Drawn' = Drawn \cup {c}
      /\ \A d \in Drawn : id'[d] = id[d] /\ d # c
      /\ id'[c] = counter[HandleOf[c]]
      /\ \A d \in Callers : pc'[d] # "reserve" /\ result'[d] # "io"
  <2>1. /\ pc[c] = "idle" /\ pc' = [pc EXCEPT ![c] = "try"] /\ result' = result
        /\ id' = [id EXCEPT ![c] = counter[HandleOf[c]]]
    BY DEF Request, NextId
  <2>2. /\ pc'[c] = "try" /\ id'[c] = counter[HandleOf[c]]
        /\ \A d \in Callers : d # c => pc'[d] = pc[d] /\ id'[d] = id[d]
    BY <2>1 DEF Types
  <2>3. c \notin Drawn /\ Drawn' = Drawn \cup {c}
    BY <2>1, <2>2 DEF Drawn
  <2> QED
    BY <2>1, <2>2, <2>3 DEF Drawn, InOrder
<1> DEFINE k == Cardinality(Drawn)
<1>2. IsFiniteSet(Drawn) /\ k \in Nat /\ Cardinality(Callers) \in Nat
  BY FS_Subset, FS_CardinalityType DEF ClonesOfOne, Drawn
<1>3. Cardinality(Drawn') = k + 1 /\ IsFiniteSet(Drawn')
  BY <1>1, <1>2, FS_AddElement
<1>4. counter[HandleOf[c]] = k + 1
  BY <1>1 DEF InOrder
<1>5. ASSUME NEW d \in Callers \ Drawn'
      PROVE  counter'[HandleOf[d]] = k + 2
  <2>1. Drawn' \subseteq Callers /\ Drawn' # Callers
    BY <1>5 DEF Drawn
  <2>2. Cardinality(Drawn') <= Cardinality(Callers) /\ Cardinality(Drawn') # Cardinality(Callers)
    <3>1. Drawn' \in SUBSET Callers /\ IsFiniteSet(Callers)
      BY <2>1 DEF ClonesOfOne
    <3> QED
      BY <2>1, <3>1, FS_Subset
  <2>3. k + 1 < MaxId
    BY <1>2, <1>3, <2>2 DEF ClonesOfOne
  <2>4. counter' = [counter EXCEPT ![HandleOf[c]] = k + 2]
    <3>1. counter' = [counter EXCEPT ![HandleOf[c]] =
                          IF counter[HandleOf[c]] >= MaxId THEN 1 ELSE counter[HandleOf[c]] + 1]
      BY DEF Request, NextId
    <3>2. ~(counter[HandleOf[c]] >= MaxId) /\ counter[HandleOf[c]] + 1 = k + 2
      BY <1>2, <1>4, <2>3
    <3> QED
      BY <3>1, <3>2
  <2>5. HandleOf[c] \in Handles /\ HandleOf[d] = HandleOf[c]
    BY HandlesAssumption DEF ClonesOfOne
  <2> QED
    BY <2>4, <2>5 DEF Types
<1>6. \A d \in Drawn : id[d] \in 1..k /\ id'[d] = id[d]
  BY <1>1 DEF InOrder
<1>7. id'[c] = k + 1
  BY <1>1, <1>4
<1>8. \A d \in Drawn' : id'[d] \in 1..(k + 1)
  BY <1>1, <1>2, <1>6, <1>7
<1>9. \A d, e \in Drawn' : d # e => id'[d] # id'[e]
  <2>1. \A d \in Drawn : id'[d] # id'[c]
    BY <1>2, <1>6, <1>7
  <2>2. \A d, e \in Drawn : d # e => id'[d] # id'[e]
    BY <1>6 DEF InOrder
  <2> QED
    BY <1>1, <2>1, <2>2
<1>10. \A d \in Callers \ Drawn' : counter'[HandleOf[d]] = Cardinality(Drawn') + 1
  BY <1>2, <1>3, <1>5
<1> QED
  BY <1>1, <1>3, <1>8, <1>9, <1>10 DEF InOrder

(* No call finds its id taken: the entry would belong to another call with *)
(* the same id.                                                            *)
LEMMA NeverTaken ==
    ASSUME Types, CallShape, NoLeakedSlot, InOrder, NEW c \in Callers
    PROVE  ~TryRegisterTaken(c) /\ ~Retry(c)
<1>1. SUFFICES ASSUME pc[c] = "try", pending[id[c]] # Nobody
               PROVE  FALSE
  BY DEF TryRegisterTaken, Retry, InOrder
<1>2. id[c] \in Ids
  BY <1>1 DEF CallShape
<1>3. PICK d \in Callers : pending[id[c]] = d
  BY <1>1, <1>2 DEF Types
<1>4. pc[d] \in {"send", "wait", "guard"} /\ id[d] = id[c]
  BY <1>1, <1>2, <1>3 DEF NoLeakedSlot
<1>5. c \in Drawn /\ d \in Drawn /\ c # d
  BY <1>1, <1>4 DEF Drawn
<1> QED
  BY <1>4, <1>5 DEF InOrder

(* Every step keeps the order in which ids were drawn. *)
LEMMA InOrderStep ==
    ASSUME ClonesOfOne, Types, CallShape, NoLeakedSlot, InOrder, [Next]_vars
    PROVE  InOrder'
<1> USE OriginsAssumption, BoundsAssumption DEF Origins
<1>1. CASE /\ \A c \in Callers : /\ pc'[c] = "idle" <=> pc[c] = "idle"
                                 /\ id'[c] = id[c]
                                 /\ pc'[c] # "reserve" /\ result'[c] # "io"
           /\ counter' = counter
  <2>1. Drawn' = Drawn /\ Drawn \subseteq Callers
    BY <1>1 DEF Drawn
  <2> QED
    BY <1>1, <2>1 DEF InOrder
<1>2. ASSUME NEW c \in Callers, Request(c) \/ CallerStep(c) \/ GiveUp(c)
      PROVE  InOrder'
  <2>1. ~TryRegisterTaken(c) /\ ~Retry(c)
    BY NeverTaken
  <2>2. CASE ~Request(c)
    <3>1. /\ counter' = counter /\ id' = id
          /\ pc[c] # "idle"
          /\ \E s \in {"send", "wait", "guard", "done"} : pc' = [pc EXCEPT ![c] = s]
          /\ \/ result' = result
             \/ \E s \in {"ok", "disconnected", "gaveup"} : result' = [result EXCEPT ![c] = s]
      BY <1>2, <2>1, <2>2
      DEF CallerStep, TryRegister, SendRequest, SendRequestClosed, RecvResponse, RecvClosed,
          DrainCancelled, GuardDrop, GiveUp, Leave
    <3>2. \A d \in Callers : /\ pc'[d] = "idle" <=> pc[d] = "idle"
                             /\ pc'[d] # "reserve" /\ result'[d] # "io"
      BY <3>1 DEF Types, InOrder
    <3> QED
      BY <1>1, <3>1, <3>2
  <2> QED
    BY <2>2, DrawInOrder
<1>3. CASE OtherStep \/ RouteDeliver \/ UNCHANGED vars
  <2>1. counter' = counter
    BY <1>3 DEF OtherStep, RegisterOutgoing, WaiterRecv, WaiterAbandon, CancelOutgoing, Post,
                DrainStep, DrainWrite, DrainWriteFails, DrainSendersGone, DrainClose,
                ClientAnswer, ClientClose, RouteContains, RouteDeliver, RouterEnds,
                RouterFails, LoopEnds, vars, callerVars
  <2>2. \A c \in Callers : pc'[c] = pc[c] /\ id'[c] = id[c] /\ result'[c] = result[c]
    BY <1>3, OthersFrame DEF RouteDeliver, vars, callerVars
  <2> QED
    BY <1>1, <2>1, <2>2 DEF InOrder
<1> QED
  BY <1>2, <1>3, NextCases

(* Types and the response map, as the lemmas above need them. *)
LEMMA Groundwork == Spec => [](Types /\ CallShape /\ NoLeakedSlot)
BY TypesHold, SlotsNeverLeak, PTL

(* A handle and its clones never use an id twice while they have made no   *)
(* more calls than there are ids (i32::MAX): fetch_update hands out        *)
(* 1, 2, 3, ... and nobody has to draw again.                              *)
THEOREM ClonesUseUniqueIds ==
    ASSUME ClonesOfOne
    PROVE  Spec => []UniqueIds
<1>1. Init => InOrder
  <2> SUFFICES ASSUME Init PROVE InOrder
    OBVIOUS
  <2>1. Drawn = {} /\ Cardinality(Drawn) = 0
    BY FS_EmptySet, OriginsAssumption DEF Init, Drawn, Origins
  <2>2. \A c \in Callers : counter[HandleOf[c]] = 1
    BY HandlesAssumption DEF Init
  <2> QED
    BY <2>1, <2>2, OriginsAssumption DEF Init, InOrder, Origins
<1>2. Types /\ CallShape /\ NoLeakedSlot /\ InOrder /\ [Next]_vars => InOrder'
  BY InOrderStep
<1>3. InOrder => UniqueIds
  BY DEF InOrder, UniqueIds, Drawn, Registered
<1> QED
  BY <1>1, <1>2, <1>3, Groundwork, PTL DEF Spec

---------------------------------------------------------------------------
(* What a caller sees of its call: the state of RequestResponse *)
Seen(c) == IF result[c] # "none" THEN result[c]
           ELSE IF pc[c] = "idle" THEN "idle" ELSE "active"
call == [c \in Callers |-> Seen(c)]
link == IF drain = "running" THEN "up" ELSE "down"
heard == {c \in Callers \cap answered : ~Unread(c)}
reads == IF router = "failed" THEN "off" ELSE "on"

(* A step that changes nothing a caller sees. *)
LEMMA Unseen ==
    ASSUME \A c \in Callers : Seen(c)' = Seen(c),
           heard' = heard, link' = link, reads' = reads
    PROVE  UNCHANGED Calls!vars
<1>1. call' = call
  BY DEF call
<1> QED
  BY <1>1 DEF Calls!vars, call, Seen, link, heard, reads

(* A step that ends one call with an outcome. *)
LEMMA Returns ==
    ASSUME NEW c \in Callers, NEW outcome, Seen(c) = "active", Seen(c)' = outcome,
           \A d \in Callers : d # c => Seen(d)' = Seen(d),
           heard' = heard, link' = link, reads' = reads
    PROVE  Calls!Return(c, outcome)
<1>1. call' = [call EXCEPT ![c] = outcome] /\ call[c] = "active"
  BY DEF call
<1> QED
  BY <1>1 DEF Calls!Return, call, Seen, link, heard, reads

(* Every step of ClientSender is a step of RequestResponse, or is not seen *)
(* by any caller.                                                          *)
LEMMA PromiseStep ==
    ASSUME Types, Correlated, Correlated', IdsDistinct', [Next]_vars
    PROVE  [Calls!Next]_(Calls!vars)
<1> USE OriginsAssumption, BoundsAssumption DEF Origins
<1>1. /\ CallShape /\ Outcomes /\ InTransit /\ AnswersReal /\ OneMessage /\ Consumed
      /\ OwnResponse /\ HonestDisconnect'
  BY DEF Correlated
<1>2. IdsDistinct
  BY <1>1, IdsDistinctBefore
<1>3. ASSUME NEW c \in Callers, Request(c) \/ CallerStep(c) \/ GiveUp(c)
      PROVE  [Calls!Next]_(Calls!vars)
  <2>1. /\ \A d \in Callers : d # c => Seen(d)' = Seen(d)
        /\ heard' = heard /\ link' = link /\ reads' = reads /\ drain' = drain
    <3>1. UNCHANGED <<answered, inbound, router, drain>>
      BY <1>3, CallerFrame
    <3>2. \A d \in Callers : d # c => Seen(d)' = Seen(d)
      BY <1>1, <1>3, CallerMoves DEF Seen
    <3> QED
      BY <3>1, <3>2 DEF heard, Unread, link, reads
  <2>2. CASE Request(c)
    <3>1. /\ Seen(c) = "idle" /\ Seen(c)' = "active"
      BY <1>1, <2>2 DEF Request, Seen, CallShape, Types
    <3>2. call' = [call EXCEPT ![c] = "active"] /\ call[c] = "idle"
      BY <2>1, <3>1 DEF call
    <3>3. Calls!Begin(c)
      BY <2>1, <3>2 DEF Calls!Begin, call, Seen, heard, link, reads
    <3> QED
      BY <3>3 DEF Calls!Next
  <2>3. CASE ~Request(c) /\ pc'[c] \in {"reserve", "try", "send", "wait"}
    <3>1. pc[c] # "idle" /\ result[c] = "none" /\ result'[c] = "none"
      BY <1>1, <1>3, <2>3, CallerMoves
      DEF CallerStep, Retry, TryRegister, TryRegisterTaken, SendRequest, SendRequestClosed,
          RecvResponse, RecvClosed, DrainCancelled, GuardDrop, GiveUp, Leave
    <3>2. Seen(c)' = Seen(c)
      BY <2>3, <3>1 DEF Seen
    <3> QED
      BY <2>1, <3>2, Unseen
  <2>4. CASE pc[c] = "guard" /\ pc'[c] = "done" /\ result'[c] = result[c]
    <3>1. Seen(c)' = Seen(c)
      BY <1>1, <2>4 DEF Seen, Outcomes
    <3> QED
      BY <2>1, <3>1, Unseen
  <2>5. CASE /\ pc[c] \in {"send", "wait"} /\ pc'[c] = "guard"
             /\ result'[c] \in {"gaveup", "disconnected"}
    <3>1. Seen(c) = "active" /\ Seen(c)' = result'[c]
      BY <1>1, <2>5 DEF Seen, CallShape
    <3>2. CASE result'[c] = "gaveup"
      BY <2>1, <3>1, <3>2, Returns DEF Calls!Next, Calls!GiveUp
    <3>3. CASE result'[c] = "disconnected"
      <4>1. drain # "running"
        BY <1>1, <2>1, <3>3 DEF HonestDisconnect, IdsDistinct
      <4>2. Calls!Return(c, "disconnected")
        BY <2>1, <3>1, <3>3, Returns
      <4>3. Calls!Fail(c)
        BY <4>1, <4>2 DEF Calls!Fail
      <4> QED
        BY <4>3 DEF Calls!Next
    <3> QED
      BY <2>5, <3>2, <3>3
  <2>6. CASE pc[c] = "try" /\ pc'[c] = "done" /\ result'[c] = "io"
    <3>1. Seen(c) = "active" /\ Seen(c)' = "io"
      BY <1>1, <2>6 DEF Seen, CallShape
    <3> QED
      BY <2>1, <3>1, Returns DEF Calls!Next, Calls!Reject
  <2>7. CASE pc[c] = "wait" /\ pc'[c] = "done" /\ inbox[c] # Nobody /\ result'[c] = "ok"
    <3>1. Seen(c) = "active" /\ Seen(c)' = "ok"
      BY <1>1, <2>7 DEF Seen, CallShape
    <3>2. c \in heard
      <4>1. inbox[c] = c
        BY <1>1, <1>2, <2>7 DEF OwnResponse, IdsDistinct
      <4>2. c \in answered /\ ~Queued(inbound, c)
        BY <1>1, <4>1 DEF AnswersReal, Consumed
      <4> QED
        BY <4>2 DEF heard, Unread
    <3>3. Calls!Return(c, "ok")
      BY <2>1, <3>1, Returns
    <3>4. Calls!Succeed(c)
      BY <3>2, <3>3 DEF Calls!Succeed, heard
    <3> QED
      BY <3>4 DEF Calls!Next
  <2> QED
    BY <1>1, <1>3, <2>2, <2>3, <2>4, <2>5, <2>6, <2>7, CallerMoves
<1>4. CASE ClientAnswer
  <2>1. PICK r \in atClient :
          /\ answered' \in {answered, answered \cup {r.from}}
          /\ \E i \in Nat : inbound' = Append(inbound, ResponseMsg(r.from, i))
    <3>1. \A r \in atClient : r.id \in Nat /\ NoId \in Nat
      BY DEF Types, Responses, NoId
    <3> QED
      BY <1>4, <3>1 DEF ClientAnswer
  <2>2. /\ UNCHANGED <<pc, result, drain, router>>
        /\ r.from \in Origins /\ Registered(r.from) /\ r.from \notin answered
    <3>1. r.from \in Origins /\ Registered(r.from)
      BY <1>1 DEF InTransit, Genuine
    <3>2. AtClient(r.from)
      BY DEF AtClient
    <3> QED
      BY <1>1, <1>4, <3>1, <3>2
      DEF ClientAnswer, callerVars, linkVars, routeVars, OneMessage, SpokenOnce, Asked
  <2>3. \A c \in Callers : Seen(c)' = Seen(c)
    BY <2>2 DEF Seen
  <2>4. link' = link /\ reads' = reads
    BY <2>2 DEF link, reads
  <2>5. /\ Queued(inbound', r.from)
        /\ \A c \in Callers : c # r.from => (Queued(inbound', c) <=> Queued(inbound, c))
    <3>1. PICK i \in Nat : inbound' = Append(inbound, ResponseMsg(r.from, i))
      BY <2>1
    <3>2. inbound \in Seq(Responses) /\ ResponseMsg(r.from, i).from = r.from
      BY DEF Types, ResponseMsg
    <3>3. /\ DOMAIN inbound = 1..Len(inbound) /\ DOMAIN inbound' = 1..(Len(inbound) + 1)
          /\ \A k \in DOMAIN inbound : inbound'[k] = inbound[k] /\ k \in DOMAIN inbound'
          /\ inbound'[Len(inbound) + 1].from = r.from
          /\ \A k \in DOMAIN inbound' : k \in DOMAIN inbound \/ k = Len(inbound) + 1
          /\ Len(inbound) + 1 \in DOMAIN inbound'
      BY <3>1, <3>2
    <3> QED
      BY <3>3 DEF Queued
  <2>6. CASE heard' = heard
    BY <2>3, <2>4, <2>6, Unseen
  <2>7. CASE /\ router # "failed" /\ r.from \in Callers
             /\ heard' = heard \cup {r.from}
    <3>1. Seen(r.from) # "idle"
      BY <2>2, <2>7 DEF Registered, Seen, Types
    <3>2. call' = call /\ call[r.from] # "idle"
      BY <2>3, <2>7, <3>1 DEF call
    <3>3. Calls!Answer(r.from)
      BY <2>4, <2>7, <3>2 DEF Calls!Answer, call, Seen, heard, link, reads
    <3> QED
      BY <2>7, <3>3 DEF Calls!Next
  <2>8. CASE router = "failed"
    <3>1. heard' = heard
      BY <2>1, <2>2, <2>5, <2>8 DEF heard, Unread
    <3> QED
      BY <2>6, <3>1
  <2>9. CASE router # "failed"
    <3>1. heard = Callers \cap answered /\ heard' = Callers \cap answered'
      BY <2>2, <2>9 DEF heard, Unread
    <3> QED
      BY <2>1, <2>2, <2>6, <2>7, <2>9, <3>1
  <2> QED
    BY <2>8, <2>9
<1>5. CASE DrainStep
  <2>1. UNCHANGED <<pc, result, answered, inbound, router>>
    BY <1>5 DEF DrainStep, DrainWrite, DrainWriteFails, DrainSendersGone, DrainClose,
                callerVars, clientVars, routeVars
  <2>2. (\A c \in Callers : Seen(c)' = Seen(c)) /\ heard' = heard /\ reads' = reads
    BY <2>1 DEF Seen, heard, Unread, reads
  <2>3. CASE link' = link
    BY <2>2, <2>3, Unseen
  <2>4. CASE link' = "down"
    <3>1. call' = call
      BY <2>2 DEF call
    <3>2. Calls!Break
      BY <2>2, <2>4, <3>1 DEF Calls!Break, call, Seen, heard, link, reads
    <3> QED
      BY <3>2 DEF Calls!Next
  <2>5. link' \in {link, "down"}
    BY <1>5 DEF DrainStep, DrainWrite, DrainWriteFails, DrainSendersGone, DrainClose, link
  <2> QED
    BY <2>3, <2>4, <2>5
<1>6. CASE RouterFails
  <2>1. /\ UNCHANGED <<pc, result, answered, inbound, drain>>
        /\ router = "read" /\ router' = "failed"
    BY <1>6 DEF RouterFails, LoopEnds, callerVars, linkVars, clientVars
  <2>2. /\ \A c \in Callers : Seen(c)' = Seen(c)
        /\ link' = link /\ reads = "on" /\ reads' = "off"
    BY <2>1 DEF Seen, link, reads
  <2>3. call' = call
    BY <2>2 DEF call
  <2>4. heard' \in SUBSET heard
    BY <2>1 DEF heard, Unread
  <2>5. Calls!StopReading
    BY <2>2, <2>3, <2>4 DEF Calls!StopReading, call, Seen, heard, link, reads
  <2> QED
    BY <2>5 DEF Calls!Next
<1>7. CASE \/ OtherStep /\ ~DrainStep /\ ~ClientAnswer /\ ~RouterFails
           \/ RouteDeliver \/ UNCHANGED vars
  <2>1. \A c \in Callers : pc'[c] = pc[c] /\ result'[c] = result[c]
    BY <1>7, OthersFrame DEF RouteDeliver, vars, callerVars
  <2>2. /\ UNCHANGED <<answered, drain>>
        /\ \/ UNCHANGED <<inbound, router>>
           \/ router # "failed" /\ router' # "failed"
    BY <1>7 DEF OtherStep, RegisterOutgoing, WaiterRecv, WaiterAbandon, CancelOutgoing, Post,
                ClientClose, RouteContains, RouteDeliver, RouterEnds, LoopEnds, vars, linkVars,
                clientVars, routeVars
  <2>3. (\A c \in Callers : Seen(c)' = Seen(c)) /\ link' = link
    BY <2>1, <2>2 DEF Seen, link
  <2>4. heard' = heard /\ reads' = reads
    BY <2>2 DEF heard, Unread, reads
  <2> QED
    BY <2>3, <2>4, Unseen
<1> QED
  BY <1>3, <1>4, <1>5, <1>6, <1>7, NextCases

(* As long as no id is reused, ClientSender implements RequestResponse: a  *)
(* call returns at most once, returns a response only if the client        *)
(* answered that very call and the main loop read the answer before it     *)
(* broke off, and reports Disconnected only if the link is down.           *)
THEOREM ClientSenderKeepsPromise == Spec /\ []IdsDistinct => Calls!Spec
<1>1. Init => Calls!Init
  BY OriginsAssumption DEF Init, Calls!Init, Origins
<1>2. Types /\ Correlated /\ Correlated' /\ IdsDistinct' /\ [Next]_vars
        => [Calls!Next]_(Calls!vars)
  BY PromiseStep
<1> QED
  BY <1>1, <1>2, Correlation, TypesHold, PTL DEF Spec, Calls!Spec

(* Without the proviso: clones of one handle keep the promise of           *)
(* RequestResponse for as many calls as there are ids, in a program that   *)
(* registers no requests of its own.                                       *)
THEOREM ClonesKeepPromise ==
    ASSUME ClonesOfOne, Waiters = {}
    PROVE  Spec => Calls!Spec
<1>1. UniqueIds => IdsDistinct
  BY DEF UniqueIds, IdsDistinct, Unshared, Origins
<1> QED
  BY <1>1, ClonesUseUniqueIds, ClientSenderKeepsPromise, PTL
============================================================================
