------------------------- MODULE Connection_proofs -------------------------
(***************************************************************************)
(* Proofs about Connection, for every set of ids and every number of       *)
(* requests: the type invariant, one reply per request, the exit code, and *)
(* that cancellation and shutdown reach the handlers they should reach.    *)
(***************************************************************************)
EXTENDS Connection, TLAPS

---------------------------------------------------------------------------
(* The inductive invariant, in parts.                                      *)

(* Nothing has happened to a request that was not read. *)
Unread ==
    \A n \in Numbers : n > reqs =>
        handler[n] = "none" /\ replies[n] = <<>> /\ n \notin cancelled /\ n \notin named

(* An id is in the table with a request that has this id. *)
Entries ==
    /\ \A n \in Numbers : handler[n] # "none" => request[n].id \in Ids
    /\ \A i \in Ids : incoming[i] # None => incoming[i] <= reqs /\ request[incoming[i]].id = i

(* Who will still answer a request has not answered it. *)
Answers ==
    \A n \in Numbers :
        /\ Len(replies[n]) <= 1
        /\ handler[n] = "running" => replies[n] = <<>>
        /\ handler[n] = "initialize" /\ at \in {"started", "startedBlocked"} => replies[n] = <<>>

Early == {"start", "started", "startedBlocked", "finish"}

(* What the place of the main task says of state, outcome and handlers. *)
Phases ==
    /\ at # "ended" => outcome = "none"
    /\ at # "ended" => (state = "ShuttingDown" <=> \E n \in Numbers : handler[n] = "shutdown")
    /\ at \in Early => state # "ShuttingDown" /\ Children = {}
    /\ at = "start" => \A n \in Numbers : handler[n] # "initialize"
    /\ at \in {"finish", "loop", "loopBlocked"} =>
           \E m \in 1..reqs : handler[m] = "initialize" /\ replies[m] = <<"result">>
    /\ (\E n \in Numbers : handler[n] = "shutdown") => shutdown

(* A request that may still be completed owns the entry of its id. *)
Registered ==
    ~reused => \A n \in Numbers :
        handler[n] \in {"running", "answered"} => incoming[request[n].id] = n

Inv ==
    /\ TypeOK
    /\ Unread /\ Entries /\ Answers /\ Phases /\ Registered
    /\ ShutdownCancelsAll /\ CancelExact /\ NoStrayCancel /\ CleanExit /\ InitializeFirst

Fates == {"initialize", "rejected", "shutdown", "discarded", "running"}
Kinds == {"result", "notInitialized", "cancelled"}

---------------------------------------------------------------------------
(* What reading a request changes. *)
LEMMA ReadStep ==
    ASSUME TypeOK, NEW method \in Methods, NEW i \in Ids, NEW fate \in Fates,
           Read(method, i, fate)
    PROVE  /\ reqs \in Nat /\ reqs + 1 \in Numbers /\ reqs' = reqs + 1 /\ reqs' \in 0..MaxRequests
           /\ request' \in [Numbers -> [id : Ids \cup {None}, method : Methods \cup {"none"}]]
           /\ handler' \in [Numbers -> {"none", "initialize", "rejected", "shutdown",
                                        "discarded", "running", "answered", "completed"}]
           /\ request'[reqs + 1].id = i /\ handler'[reqs + 1] = fate
           /\ \A n \in Numbers : n # reqs + 1 =>
                  request'[n] = request[n] /\ handler'[n] = handler[n]
<1>1. reqs + 1 \in Numbers /\ reqs \in Nat
  BY ConnectionAssumption DEF Read, TypeOK, Numbers
<1>2. [id |-> i, method |-> method] \in [id : Ids \cup {None}, method : Methods \cup {"none"}]
  OBVIOUS
<1> QED
  BY <1>1, <1>2, ConnectionAssumption DEF Read, TypeOK, Numbers, Fates

(* What sending a response changes. *)
LEMMA ReplyStep ==
    ASSUME TypeOK, NEW n \in Numbers, NEW kind \in Kinds, Reply(n, kind)
    PROVE  /\ replies' \in [Numbers -> Seq(Kinds)]
           /\ replies'[n] = Append(replies[n], kind)
           /\ \A m \in Numbers : m # n => replies'[m] = replies[m]
           /\ replies[n] = <<>> => replies'[n] = <<kind>> /\ Len(replies'[n]) = 1
<1>1. replies \in [Numbers -> Seq(Kinds)]
  BY DEF TypeOK, Kinds
<1>2. replies[n] \in Seq(Kinds) /\ Append(replies[n], kind) \in Seq(Kinds)
  BY <1>1
<1>3. replies' = [replies EXCEPT ![n] = Append(replies[n], kind)]
  BY DEF Reply
<1>4. /\ replies' \in [Numbers -> Seq(Kinds)]
      /\ replies'[n] = Append(replies[n], kind)
      /\ \A m \in Numbers : m # n => replies'[m] = replies[m]
  BY <1>1, <1>2, <1>3
<1>5. Append(<<>>, kind) = <<kind>> /\ Len(<<kind>>) = 1
  OBVIOUS
<1> QED
  BY <1>4, <1>5

(* What Init establishes. *)
LEMMA InitInv == Init => Inv
<1> SUFFICES ASSUME Init PROVE Inv
  OBVIOUS
<1> USE ConnectionAssumption
<1>1. TypeOK
  <2>1. request \in [Numbers -> [id : Ids \cup {None}, method : Methods \cup {"none"}]]
    BY DEF Init
  <2>2. incoming \in [Ids -> 0..MaxRequests] /\ reqs \in 0..MaxRequests
    BY DEF Init, None
  <2>3. replies \in [Numbers -> Seq({"result", "notInitialized", "cancelled"})]
    BY DEF Init
  <2> QED
    BY <2>1, <2>2, <2>3
    DEF Init, TypeOK, LifecycleState, Blocked, ExitCode, ProtocolError
<1>2. Unread /\ Entries /\ Answers /\ Registered
  BY DEF Init, Unread, Entries, Answers, Registered, None
<1>3. Phases
  BY DEF Init, Phases, Early, Children
<1>4. ShutdownCancelsAll /\ CancelExact /\ NoStrayCancel /\ CleanExit /\ InitializeFirst
  BY DEF Init, ShutdownCancelsAll, CancelExact, NoStrayCancel, CleanExit, InitializeFirst,
         Children, ExitCode
<1> QED
  BY <1>1, <1>2, <1>3, <1>4 DEF Inv

(* Steps that leave requests and tables alone keep what is said of them. *)
LEMMA Frame ==
    ASSUME Inv, UNCHANGED <<tableVars, requestVars, inherited, historyVars>>
    PROVE  /\ Unread' /\ Entries' /\ Registered'
           /\ ShutdownCancelsAll' /\ CancelExact' /\ NoStrayCancel' /\ InitializeFirst'
           /\ Children' = Children
<1> USE DEF tableVars, requestVars, historyVars, Inv
<1>1. Unread' /\ Entries' /\ Registered'
  BY DEF Unread, Entries, Registered
<1>2. Children' = Children
  BY DEF Children
<1>3. ShutdownCancelsAll' /\ CancelExact' /\ NoStrayCancel'
  BY DEF ShutdownCancelsAll, CancelExact, NoStrayCancel
<1>4. InitializeFirst'
  BY <1>2 DEF InitializeFirst
<1> QED
  BY <1>1, <1>2, <1>3, <1>4

(* The main task moves on, or ends, without a request. *)
LEMMA MoveInv ==
    ASSUME Inv,
           \/ ExitBeforeInitialize \/ Initialized \/ InitializeFails \/ LoopEnds
           \/ HandleExit \/ SendRequest \/ SendRequestReturns \/ DrainDies
    PROVE  Inv'
<1>1. UNCHANGED <<tableVars, requestVars, inherited, historyVars>>
  BY DEF ExitBeforeInitialize, Initialized, InitializeFails, LoopEnds, HandleExit,
         SendRequest, SendRequestReturns, DrainDies
<1>2. at # "ended"
  BY DEF ExitBeforeInitialize, Initialized, InitializeFails, LoopEnds, HandleExit,
         SendRequest, SendRequestReturns, DrainDies
<1>3. TypeOK'
  <2>1. /\ state' \in LifecycleState
        /\ at' \in {"start", "started", "finish", "loop", "ended"} \cup Blocked
        /\ outcome' \in {"none"} \cup ExitCode \cup ProtocolError
        /\ closed' \in BOOLEAN
    BY DEF Inv, TypeOK, ExitBeforeInitialize, Initialized, InitializeFails, LoopEnds,
           HandleExit, SendRequest, SendRequestReturns, DrainDies, End, LifecycleState,
           Blocked, ExitCode, ProtocolError
  <2> QED
    BY <1>1, <2>1 DEF Inv, TypeOK, tableVars, requestVars, historyVars
<1>4. Answers'
  BY <1>1 DEF Inv, Answers, requestVars, ExitBeforeInitialize, Initialized, InitializeFails,
              LoopEnds, HandleExit, SendRequest, SendRequestReturns, DrainDies, End
<1>5. Phases'
  <2> USE <1>1, Frame DEF Inv, Phases, tableVars, requestVars, Early, End
  <2>1. CASE ExitBeforeInitialize \/ InitializeFails \/ LoopEnds \/ HandleExit
    BY <2>1 DEF ExitBeforeInitialize, InitializeFails, LoopEnds, HandleExit
  <2>2. CASE Initialized
    BY <2>2 DEF Initialized
  <2>3. CASE SendRequest \/ SendRequestReturns \/ DrainDies
    BY <2>3 DEF SendRequest, SendRequestReturns, DrainDies
  <2> QED
    BY <2>1, <2>2, <2>3
<1>6. CleanExit'
  <2>1. CASE HandleExit
    <3>1. outcome' = "success" <=> \E n \in Numbers : handler[n] = "shutdown"
      BY <2>1, <1>2 DEF HandleExit, End, Inv, Phases
    <3>2. outcome' = "success" => shutdown
      BY <3>1 DEF Inv, Phases
    <3> QED
      BY <1>1, <3>1, <3>2 DEF CleanExit, Inv, ShutdownCancelsAll, tableVars, requestVars
  <2>2. CASE ~HandleExit
    <3>1. outcome' \notin ExitCode
      BY <1>2, <2>2 DEF ExitBeforeInitialize, Initialized, InitializeFails, LoopEnds,
         SendRequest, SendRequestReturns, DrainDies, End, ExitCode, Inv, Phases
    <3> QED
      BY <3>1 DEF CleanExit
  <2> QED
    BY <2>1, <2>2
<1> QED
  BY <1>1, <1>3, <1>4, <1>5, <1>6, Frame DEF Inv

---------------------------------------------------------------------------
(* A request that is read and not given to a handler: what is said of the  *)
(* tables and of the handlers stays true, answered or not.                 *)
LEMMA ReadOnly ==
    ASSUME Inv, NEW method \in Methods, NEW i \in Ids,
           NEW fate \in {"initialize", "rejected", "discarded"}, Read(method, i, fate),
           UNCHANGED <<tableVars, inherited, historyVars>>,
           UNCHANGED replies \/ Reply(reqs + 1, "notInitialized")
    PROVE  /\ Unread' /\ Entries' /\ Registered'
           /\ ShutdownCancelsAll' /\ CancelExact' /\ NoStrayCancel' /\ InitializeFirst'
           /\ Children' = Children
           /\ \A n \in Numbers : handler'[n] = "shutdown" <=> handler[n] = "shutdown"
           /\ \A n \in Numbers : n # reqs + 1 => replies'[n] = replies[n]
           /\ Len(replies'[reqs + 1]) <= 1
           /\ replies' \in [Numbers -> Seq(Kinds)]
<1> DEFINE new == reqs + 1
<1>0. /\ new \in Numbers /\ reqs \in Nat /\ reqs' = new /\ new > reqs
      /\ request'[new].id = i /\ handler'[new] = fate
      /\ \A n \in Numbers : n # new => request'[n] = request[n] /\ handler'[n] = handler[n]
  BY ReadStep DEF Inv, Fates
<1>1. handler[new] = "none" /\ replies[new] = <<>> /\ new \notin cancelled /\ new \notin named
  BY <1>0 DEF Inv, Unread
<1>2. /\ \A n \in Numbers : n # new => replies'[n] = replies[n]
      /\ Len(replies'[new]) <= 1
      /\ replies' \in [Numbers -> Seq(Kinds)]
  <2>1. CASE UNCHANGED replies
    BY <1>1, <2>1 DEF Inv, TypeOK, Kinds
  <2>2. CASE Reply(new, "notInitialized")
    BY <1>0, <1>1, <2>2, ReplyStep DEF Inv, Kinds
  <2> QED
    BY <2>1, <2>2
<1> HIDE DEF new
<1> USE DEF tableVars, historyVars
<1>3. Unread' /\ Entries' /\ Registered'
  <2>1. Unread'
    BY <1>0, <1>1, <1>2 DEF Inv, Unread, Numbers
  <2>2. Entries'
    <3>1. \A n \in Numbers : handler'[n] # "none" => request'[n].id \in Ids
      BY <1>0 DEF Inv, Entries
    <3>2. ASSUME NEW j \in Ids, incoming[j] # None
          PROVE  incoming[j] <= reqs' /\ request'[incoming[j]].id = j
      <4>1. incoming[j] \in Numbers /\ incoming[j] <= reqs /\ request[incoming[j]].id = j
        BY <3>2, ConnectionAssumption DEF Inv, TypeOK, Entries, Numbers, None
      <4>2. incoming[j] # new /\ incoming[j] <= reqs'
        BY <1>0, <4>1 DEF Numbers
      <4> QED
        BY <1>0, <4>1, <4>2
    <3> QED
      BY <3>1, <3>2 DEF Entries
  <2>3. Registered'
    BY <1>0, <1>1 DEF Inv, Registered
  <2> QED
    BY <2>1, <2>2, <2>3
<1>4. ShutdownCancelsAll' /\ CancelExact' /\ NoStrayCancel'
  BY <1>0, <1>1 DEF Inv, TypeOK, ShutdownCancelsAll, CancelExact, NoStrayCancel
<1>5. Children' = Children
  BY <1>0, <1>1 DEF Children
<1>6. InitializeFirst'
  <2> SUFFICES ASSUME NEW n \in Children
               PROVE \E m \in 1..(n - 1) : handler'[m] = "initialize" /\ replies'[m] = <<"result">>
    BY <1>5 DEF InitializeFirst
  <2>1. PICK m \in 1..(n - 1) : handler[m] = "initialize" /\ replies[m] = <<"result">>
    BY DEF Inv, InitializeFirst
  <2>2. m \in Numbers /\ m # new
    BY <1>1, <2>1, ConnectionAssumption DEF Children, Numbers
  <2> QED
    BY <1>0, <1>2, <2>1, <2>2
<1> QED
  BY <1>0, <1>1, <1>2, <1>3, <1>4, <1>5, <1>6 DEF new

(* initialize_start, the rejections and what send_request discards *)
LEMMA UnhandledInv ==
    ASSUME Inv, NEW method \in Methods, NEW i \in Ids,
           InitializeStart(i) \/ RejectRequest(method, i) \/ DiscardRequest(method, i)
    PROVE  Inv'
<1> USE DEF tableVars, historyVars
<1>1. CASE InitializeStart(i)
  <2>1. "initialize" \in Methods /\ "initialize" \in {"initialize", "rejected", "discarded"}
    BY DEF Methods
  <2>2. Read("initialize", i, "initialize") /\ UNCHANGED <<tableVars, inherited, historyVars>>
        /\ UNCHANGED <<replies, closed, outcome>>
        /\ at = "start" /\ at' = "started" /\ state' = "Initializing"
    BY <1>1 DEF InitializeStart
  <2>3. /\ Unread' /\ Entries' /\ Registered'
        /\ ShutdownCancelsAll' /\ CancelExact' /\ NoStrayCancel' /\ InitializeFirst'
        /\ Children' = Children
        /\ \A n \in Numbers : handler'[n] = "shutdown" <=> handler[n] = "shutdown"
    BY <2>1, <2>2, ReadOnly
  <2>4. /\ reqs' \in 0..MaxRequests /\ reqs + 1 \in Numbers /\ reqs + 1 > reqs
        /\ request' \in [Numbers -> [id : Ids \cup {None}, method : Methods \cup {"none"}]]
        /\ handler' \in [Numbers -> {"none", "initialize", "rejected", "shutdown",
                                     "discarded", "running", "answered", "completed"}]
        /\ \A n \in Numbers : n # reqs + 1 => handler'[n] = handler[n]
    BY <2>1, <2>2, ReadStep DEF Inv, Fates
  <2>5. TypeOK'
    BY <2>2, <2>4 DEF Inv, TypeOK, LifecycleState
  <2>6. Answers'
    BY <2>2, <2>4 DEF Inv, Answers, Unread, Phases
  <2>7. Phases'
    BY <2>2, <2>3 DEF Inv, Phases, Early
  <2>8. CleanExit'
    BY <2>2 DEF Inv, Phases, CleanExit, ExitCode
  <2> QED
    BY <2>3, <2>5, <2>6, <2>7, <2>8 DEF Inv
<1>2. CASE RejectRequest(method, i) \/ DiscardRequest(method, i)
  <2>1. PICK fate \in {"rejected", "discarded"} : Read(method, i, fate)
    BY <1>2 DEF RejectRequest, DiscardRequest
  <2>2. /\ UNCHANGED <<tableVars, inherited, historyVars, state, closed>>
        /\ UNCHANGED replies \/ Reply(reqs + 1, "notInitialized")
        /\ at # "ended"
        /\ \/ UNCHANGED <<at, outcome>>
           \/ at' = "ended" /\ outcome' = "io"
    BY <1>2 DEF RejectRequest, DiscardRequest, Blocked, End
  <2>3. /\ Unread' /\ Entries' /\ Registered'
        /\ ShutdownCancelsAll' /\ CancelExact' /\ NoStrayCancel' /\ InitializeFirst'
        /\ Children' = Children
        /\ \A n \in Numbers : handler'[n] = "shutdown" <=> handler[n] = "shutdown"
        /\ \A n \in Numbers : n # reqs + 1 => replies'[n] = replies[n]
        /\ Len(replies'[reqs + 1]) <= 1
        /\ replies' \in [Numbers -> Seq(Kinds)]
    BY <2>1, <2>2, ReadOnly
  <2>4. /\ reqs' = reqs + 1 /\ reqs \in Nat
        /\ reqs' \in 0..MaxRequests /\ reqs + 1 \in Numbers /\ reqs + 1 > reqs
        /\ request' \in [Numbers -> [id : Ids \cup {None}, method : Methods \cup {"none"}]]
        /\ handler' \in [Numbers -> {"none", "initialize", "rejected", "shutdown",
                                     "discarded", "running", "answered", "completed"}]
        /\ handler'[reqs + 1] = fate
        /\ \A n \in Numbers : n # reqs + 1 => handler'[n] = handler[n]
    BY <2>1, ReadStep DEF Inv, Fates
  <2>5. TypeOK'
    BY <2>2, <2>3, <2>4 DEF Inv, TypeOK, ProtocolError, Kinds
  <2>6. Answers'
    BY <2>2, <2>3, <2>4 DEF Inv, Answers
  <2>7. Phases'
    <3>1. at' \in {"finish", "loop", "loopBlocked"} =>
              \E m \in 1..reqs' : handler'[m] = "initialize" /\ replies'[m] = <<"result">>
      <4> SUFFICES ASSUME at' \in {"finish", "loop", "loopBlocked"}
                   PROVE \E m \in 1..reqs' : handler'[m] = "initialize" /\ replies'[m] = <<"result">>
        OBVIOUS
      <4>1. PICK m \in 1..reqs : handler[m] = "initialize" /\ replies[m] = <<"result">>
        BY <2>2 DEF Inv, Phases
      <4>2. m \in 1..reqs' /\ m \in Numbers /\ m # reqs + 1
        BY <2>4, ConnectionAssumption DEF Numbers
      <4> QED
        BY <2>3, <2>4, <4>1, <4>2
    <3>2. at' = "start" => \A n \in Numbers : handler'[n] # "initialize"
      BY <2>2, <2>4 DEF Inv, Phases
    <3> QED
      BY <2>2, <2>3, <3>1, <3>2 DEF Inv, Phases, Early
  <2>8. CleanExit'
    BY <2>2 DEF Inv, Phases, CleanExit, ExitCode
  <2> QED
    BY <2>3, <2>5, <2>6, <2>7, <2>8 DEF Inv
<1> QED
  BY <1>1, <1>2

---------------------------------------------------------------------------
(* A request that is read and put into the table: the entries stay right,  *)
(* and the request that loses its entry to an id used again is noted.      *)
LEMMA RegisterStep ==
    ASSUME Inv, NEW method \in Methods, NEW i \in Ids, NEW fate \in {"running", "shutdown"},
           Read(method, i, fate), Register(i, reqs + 1),
           ~reused' => /\ ~reused
                       /\ \A m \in Numbers : incoming[i] = m =>
                              handler[m] \notin {"running", "answered"}
    PROVE  /\ incoming' \in [Ids -> 0..MaxRequests]
           /\ Entries' /\ Registered'
<1> DEFINE new == reqs + 1
<1>0. /\ new \in Numbers /\ reqs \in Nat /\ reqs' = new
      /\ request'[new].id = i /\ handler'[new] = fate
      /\ \A n \in Numbers : n # new => request'[n] = request[n] /\ handler'[n] = handler[n]
  BY ReadStep DEF Inv, Fates
<1>1. /\ incoming' \in [Ids -> 0..MaxRequests]
      /\ incoming'[i] = new
      /\ \A j \in Ids : j # i => incoming'[j] = incoming[j]
  BY <1>0, ConnectionAssumption DEF Register, Inv, TypeOK, Numbers
<1> HIDE DEF new
<1>2. Entries'
  <2>1. \A n \in Numbers : handler'[n] # "none" => request'[n].id \in Ids
    BY <1>0 DEF Inv, Entries
  <2>2. ASSUME NEW j \in Ids, incoming'[j] # None, j # i
        PROVE  incoming'[j] <= reqs' /\ request'[incoming'[j]].id = j
    <3>1. incoming[j] \in Numbers /\ incoming[j] <= reqs /\ request[incoming[j]].id = j
      BY <1>1, <2>2, ConnectionAssumption DEF Inv, TypeOK, Entries, Numbers, None
    <3>2. incoming[j] # new /\ incoming[j] <= reqs'
      BY <1>0, <3>1 DEF Numbers, new
    <3> QED
      BY <1>0, <1>1, <2>2, <3>1, <3>2
  <2>3. incoming'[i] <= reqs' /\ request'[incoming'[i]].id = i
    BY <1>0, <1>1 DEF Numbers
  <2> QED
    BY <2>1, <2>2, <2>3 DEF Entries
<1>3. Registered'
  <2> SUFFICES ASSUME ~reused', NEW n \in Numbers, handler'[n] \in {"running", "answered"}
               PROVE  incoming'[request'[n].id] = n
    BY DEF Registered
  <2>1. CASE n = new
    BY <1>0, <1>1, <2>1
  <2>2. CASE n # new
    <3>1. handler[n] \in {"running", "answered"} /\ request'[n] = request[n]
      BY <1>0, <2>2
    <3>2. request[n].id \in Ids /\ incoming[request[n].id] = n
      BY <3>1 DEF Inv, Entries, Registered
    <3>3. request[n].id # i
      BY <3>1, <3>2
    <3> QED
      BY <1>1, <3>1, <3>2, <3>3
  <2> QED
    BY <2>1, <2>2
<1> QED
  BY <1>1, <1>2, <1>3

(* A handler starts, from route() or with the queue that was handed in. *)
LEMMA StartInv ==
    ASSUME Inv, NEW method \in Methods, NEW i \in Ids,
           RouteRequest(method, i) \/ WithRequestQueue(i)
    PROVE  Inv'
<1> DEFINE new == reqs + 1
<1>0. PICK m \in Methods : Read(m, i, "running")
  BY DEF RouteRequest, WithRequestQueue, Methods
<1>1. /\ new \in Numbers /\ reqs \in Nat /\ reqs' = new /\ reqs' \in 0..MaxRequests
      /\ request' \in [Numbers -> [id : Ids \cup {None}, method : Methods \cup {"none"}]]
      /\ handler' \in [Numbers -> {"none", "initialize", "rejected", "shutdown",
                                   "discarded", "running", "answered", "completed"}]
      /\ handler'[new] = "running"
      /\ \A n \in Numbers : n # new => handler'[n] = handler[n]
  BY <1>0, ReadStep DEF Inv, Fates
<1>2. handler[new] = "none" /\ replies[new] = <<>> /\ new \notin cancelled /\ new \notin named
  BY <1>1 DEF Inv, Unread
<1>3. /\ UNCHANGED <<state, at, outcome, shutdown, replies, closed, named>>
      /\ at # "ended" /\ (at \in Early => WithRequestQueue(i))
      /\ RouteRequest(method, i) =>
             /\ inherited' = inherited
             /\ cancelled' = IF shutdown THEN cancelled \cup {new} ELSE cancelled
      /\ WithRequestQueue(i) => inherited' = {1} /\ cancelled' = cancelled
      /\ ~reused' => ~reused
  <2>1. CASE RouteRequest(method, i)
    BY <2>1 DEF RouteRequest, WithRequestQueue, Early, ChildToken, NoteReuse
  <2>2. CASE WithRequestQueue(i)
    BY <2>2 DEF RouteRequest, WithRequestQueue, Early, historyVars
  <2> QED
    BY <2>1, <2>2
<1>4. WithRequestQueue(i) => reqs = 0 /\ at = "start" /\ new = 1
  BY DEF WithRequestQueue
<1>5. RouteRequest(method, i) => at = "loop"
  BY DEF RouteRequest
<1>6. incoming' \in [Ids -> 0..MaxRequests] /\ Entries' /\ Registered'
  <2>1. Register(i, reqs + 1)
    BY <1>4 DEF RouteRequest, WithRequestQueue, Register
  <2>2. ~reused' => /\ ~reused
                    /\ \A k \in Numbers : incoming[i] = k => handler[k] \notin {"running", "answered"}
    <3>1. CASE RouteRequest(method, i)
      BY <3>1 DEF RouteRequest, NoteReuse
    <3>2. CASE WithRequestQueue(i)
      BY <3>2, <1>4, ConnectionAssumption DEF WithRequestQueue, historyVars, Inv, Unread, Numbers
    <3> QED
      BY <3>1, <3>2
  <2> QED
    BY <1>0, <2>1, <2>2, RegisterStep
<1>7. TypeOK'
  <2>1. inherited' \subseteq Numbers /\ cancelled' \subseteq Numbers
    BY <1>1, <1>3, <1>4 DEF Inv, TypeOK
  <2>2. reused' \in BOOLEAN
    BY DEF RouteRequest, WithRequestQueue, NoteReuse, historyVars, Inv, TypeOK
  <2> QED
    BY <1>1, <1>3, <1>6, <2>1, <2>2 DEF Inv, TypeOK
<1> HIDE DEF new
<1>8. Unread'
  BY <1>1, <1>2, <1>3 DEF Inv, Unread, Numbers, new
<1>9. Answers'
  BY <1>1, <1>2, <1>3 DEF Inv, Answers
<1>10. InitializeFirst' /\ (at \in Early => Children' = {})
  <2>1. CASE WithRequestQueue(i)
    <3>1. \A n \in Numbers : n # 1 => handler'[n] = "none"
      BY <1>1, <1>4, <2>1 DEF Inv, Unread, Numbers
    <3>2. inherited' = {1}
      BY <2>1 DEF WithRequestQueue
    <3>3. Children' = {}
      BY <3>1, <3>2 DEF Children
    <3> QED
      BY <3>3 DEF InitializeFirst
  <2>2. CASE RouteRequest(method, i)
    <3>1. inherited' = inherited /\ at = "loop"
      BY <2>2, <1>3, <1>5
    <3>2. ASSUME NEW n \in Children'
          PROVE  \E k \in 1..(n - 1) : handler'[k] = "initialize" /\ replies'[k] = <<"result">>
      <4>1. PICK k \in 1..(n - 1) : handler[k] = "initialize" /\ replies[k] = <<"result">>
        <5>1. CASE n = new
          BY <5>1, <3>1, <1>1 DEF Inv, Phases, new
        <5>2. CASE n # new
          <6>1. n \in Children
            BY <5>2, <3>1, <3>2, <1>1 DEF Children
          <6> QED
            BY <6>1 DEF Inv, InitializeFirst
        <5> QED
          BY <5>1, <5>2
      <4>2. k \in Numbers /\ k # new
        BY <4>1, <3>2, <1>2, ConnectionAssumption DEF Numbers, Children
      <4> QED
        BY <4>1, <4>2, <1>1, <1>3
    <3> QED
      BY <3>1, <3>2 DEF InitializeFirst, Early
  <2> QED
    BY <2>1, <2>2
<1>11. Phases'
  <2>1. at \in {"finish", "loop", "loopBlocked"} =>
            \E k \in 1..reqs' : handler'[k] = "initialize" /\ replies'[k] = <<"result">>
    <3> SUFFICES ASSUME at \in {"finish", "loop", "loopBlocked"}
                 PROVE \E k \in 1..reqs' : handler'[k] = "initialize" /\ replies'[k] = <<"result">>
      OBVIOUS
    <3>1. PICK k \in 1..reqs : handler[k] = "initialize" /\ replies[k] = <<"result">>
      BY DEF Inv, Phases
    <3>2. k \in 1..reqs' /\ k \in Numbers /\ k # new
      BY <3>1, <1>1, ConnectionAssumption DEF Numbers, new
    <3> QED
      BY <3>1, <3>2, <1>1, <1>3
  <2>2. at = "start" => \A n \in Numbers : handler'[n] # "initialize"
    BY <1>1 DEF Inv, Phases
  <2>3. \A n \in Numbers : handler'[n] = "shutdown" <=> handler[n] = "shutdown"
    BY <1>1, <1>2
  <2> QED
    BY <1>3, <1>10, <2>1, <2>2, <2>3 DEF Inv, Phases
<1>12. ShutdownCancelsAll'
  <2>1. CASE RouteRequest(method, i)
    BY <2>1, <1>1, <1>3 DEF Inv, ShutdownCancelsAll
  <2>2. CASE WithRequestQueue(i)
    BY <2>2, <1>1, <1>3, <1>4 DEF Inv, Unread, ShutdownCancelsAll, WithRequestQueue, Numbers
  <2> QED
    BY <2>1, <2>2
<1>13. CancelExact' /\ NoStrayCancel'
  <2>1. ~shutdown => cancelled' = cancelled
    BY <1>3
  <2> QED
    BY <1>1, <1>2, <1>3, <2>1 DEF Inv, TypeOK, CancelExact, NoStrayCancel
<1>14. CleanExit'
  BY <1>3 DEF Inv, Phases, CleanExit, ExitCode
<1> QED
  BY <1>6, <1>7, <1>8, <1>9, <1>10, <1>11, <1>12, <1>13, <1>14 DEF Inv

---------------------------------------------------------------------------
(* handle_shutdown: every child of shutdown_token is cancelled with it. *)
LEMMA ShutdownInv ==
    ASSUME Inv, NEW i \in Ids, HandleShutdown(i)
    PROVE  Inv'
<1> DEFINE new == reqs + 1
<1>1. /\ at = "loop" /\ shutdown' = TRUE /\ state' = "ShuttingDown"
      /\ cancelled' = cancelled \cup Children \cup {new}
      /\ UNCHANGED <<at, outcome, closed, inherited, named>>
      /\ Read("shutdown", i, "shutdown") /\ Register(i, new) /\ NoteReuse(i)
      /\ UNCHANGED replies \/ Reply(new, "result")
  BY DEF HandleShutdown
<1>2. /\ new \in Numbers /\ reqs \in Nat /\ reqs' = new /\ reqs' \in 0..MaxRequests
      /\ request' \in [Numbers -> [id : Ids \cup {None}, method : Methods \cup {"none"}]]
      /\ handler' \in [Numbers -> {"none", "initialize", "rejected", "shutdown",
                                   "discarded", "running", "answered", "completed"}]
      /\ handler'[new] = "shutdown"
      /\ \A n \in Numbers : n # new => handler'[n] = handler[n]
  BY <1>1, ReadStep DEF Inv, Fates, Methods
<1>3. handler[new] = "none" /\ replies[new] = <<>>
  BY <1>2 DEF Inv, Unread
<1>4. /\ \A n \in Numbers : n # new => replies'[n] = replies[n]
      /\ Len(replies'[new]) <= 1
      /\ replies' \in [Numbers -> Seq(Kinds)]
  <2>1. CASE UNCHANGED replies
    BY <1>3, <2>1 DEF Inv, TypeOK, Kinds
  <2>2. CASE Reply(new, "result")
    BY <1>2, <1>3, <2>2, ReplyStep DEF Inv, Kinds
  <2> QED
    BY <1>1, <2>1, <2>2
<1>5. incoming' \in [Ids -> 0..MaxRequests] /\ Entries' /\ Registered'
  BY <1>1, RegisterStep DEF NoteReuse, Methods
<1>6. TypeOK'
  <2>1. Children \subseteq Numbers
    BY DEF Children
  <2>2. cancelled' \subseteq Numbers /\ reused' \in BOOLEAN
    BY <1>1, <1>2, <2>1 DEF Inv, TypeOK, NoteReuse
  <2> QED
    BY <1>1, <1>2, <1>4, <1>5, <2>2 DEF Inv, TypeOK, Kinds, LifecycleState
<1> HIDE DEF new
<1>7. Unread'
  <2> SUFFICES ASSUME NEW n \in Numbers, n > reqs'
               PROVE  /\ handler'[n] = "none" /\ replies'[n] = <<>>
                      /\ n \notin cancelled' /\ n \notin named'
    BY DEF Unread
  <2>1. n # new /\ n > reqs
    BY <1>2 DEF new, Numbers
  <2>2. handler[n] = "none" /\ replies[n] = <<>> /\ n \notin cancelled /\ n \notin named
    BY <2>1 DEF Inv, Unread
  <2>3. n \notin Children
    BY <2>2 DEF Children
  <2> QED
    BY <1>1, <1>2, <1>4, <2>1, <2>2, <2>3
<1>8. Answers'
  BY <1>1, <1>2, <1>4 DEF Inv, Answers
<1>9. PICK k \in 1..reqs : handler[k] = "initialize" /\ replies[k] = <<"result">>
  BY <1>1 DEF Inv, Phases
<1>10. /\ k \in 1..reqs' /\ k \in Numbers /\ k # new /\ k \in 1..(new - 1)
       /\ handler'[k] = "initialize" /\ replies'[k] = <<"result">>
  <2>1. k \in 1..reqs' /\ k \in Numbers /\ k # new /\ k \in 1..(new - 1)
    BY <1>2, <1>9, ConnectionAssumption DEF Numbers, new
  <2> QED
    BY <2>1, <1>2, <1>4, <1>9
<1>11. Phases'
  BY <1>1, <1>2, <1>10 DEF Inv, Phases, Early
<1>12. ShutdownCancelsAll'
  BY <1>1, <1>2 DEF ShutdownCancelsAll, Children
<1>13. CancelExact' /\ NoStrayCancel' /\ CleanExit'
  BY <1>1 DEF Inv, Phases, CancelExact, NoStrayCancel, CleanExit, ExitCode
<1>14. InitializeFirst'
  <2> SUFFICES ASSUME NEW n \in Children'
               PROVE \E m \in 1..(n - 1) : handler'[m] = "initialize" /\ replies'[m] = <<"result">>
    BY DEF InitializeFirst
  <2>1. CASE n = new
    BY <2>1, <1>10
  <2>2. CASE n # new
    <3>1. n \in Children
      BY <2>2, <1>1, <1>2 DEF Children
    <3>2. PICK m \in 1..(n - 1) : handler[m] = "initialize" /\ replies[m] = <<"result">>
      BY <3>1 DEF Inv, InitializeFirst
    <3>3. m \in Numbers /\ m # new
      BY <3>1, <3>2, <1>3, ConnectionAssumption DEF Children, Numbers
    <3> QED
      BY <3>2, <3>3, <1>2, <1>4
  <2> QED
    BY <2>1, <2>2
<1> QED
  BY <1>5, <1>6, <1>7, <1>8, <1>11, <1>12, <1>13, <1>14 DEF Inv

(* A $/cancelRequest cancels the token of the request it names: without    *)
(* reuse of ids the entry and the request determine each other.            *)
LEMMA CancelInv ==
    ASSUME Inv, NEW i \in Ids, RouteCancel(i)
    PROVE  Inv'
<1>1. /\ at = "loop"
      /\ cancelled' = IF incoming[i] = None THEN cancelled ELSE cancelled \cup {incoming[i]}
      /\ named' = named \cup {n \in Numbers : handler[n] = "running" /\ request[n].id = i}
      /\ UNCHANGED <<state, at, outcome, incoming, shutdown, closed, inherited, reused>>
      /\ UNCHANGED <<reqs, request, handler, replies>>
  BY DEF RouteCancel, Named, requestVars
<1>2. incoming[i] # None =>
          incoming[i] \in Numbers /\ incoming[i] <= reqs /\ request[incoming[i]].id = i
  BY ConnectionAssumption DEF Inv, TypeOK, Entries, Numbers, None
<1>3. TypeOK'
  BY <1>1, <1>2 DEF Inv, TypeOK
<1>4. reqs \in Nat
  BY ConnectionAssumption DEF Inv, TypeOK
<1>5. Unread'
  BY <1>1, <1>2, <1>4 DEF Inv, Unread, Numbers
<1>6. Entries' /\ Answers' /\ Registered'
  BY <1>1 DEF Inv, Entries, Answers, Registered
<1>7. Children' = Children
  BY <1>1 DEF Children
<1>8. Phases' /\ InitializeFirst'
  BY <1>1, <1>7 DEF Inv, Phases, InitializeFirst, Early
<1>9. ShutdownCancelsAll' /\ CleanExit'
  BY <1>1 DEF Inv, ShutdownCancelsAll, CleanExit, Phases, ExitCode
<1>10. CancelExact'
  <2> SUFFICES ASSUME ~reused, ~shutdown, NEW n \in Numbers, handler[n] = "running"
               PROVE  n \in cancelled' <=> n \in named'
    BY <1>1 DEF CancelExact
  <2>1. n \in cancelled <=> n \in named
    BY DEF Inv, CancelExact
  <2>2. incoming[request[n].id] = n /\ n # None
    BY DEF Inv, Registered, Numbers, None
  <2>3. request[n].id = i <=> incoming[i] # None /\ n = incoming[i]
    BY <1>2, <2>2
  <2> QED
    BY <1>1, <2>1, <2>3
<1>11. NoStrayCancel'
  BY <1>1, <1>2 DEF Inv, TypeOK, NoStrayCancel
<1> QED
  BY <1>3, <1>5, <1>6, <1>8, <1>9, <1>10, <1>11 DEF Inv

(* initialize_finish sends the one answer of the initialize request. *)
LEMMA InitializeFinishInv ==
    ASSUME Inv, NEW n \in Numbers, InitializeFinish(n)
    PROVE  Inv'
<1>1. /\ at = "started" /\ handler[n] = "initialize"
      /\ \/ Reply(n, "result") /\ at' = "finish" /\ UNCHANGED outcome
         \/ UNCHANGED replies /\ at' = "ended" /\ outcome' = "io"
      /\ UNCHANGED <<state, incoming, cancelled, shutdown, reqs, request, handler, closed,
                     inherited, named, reused>>
  BY DEF InitializeFinish, End, tableVars, historyVars
<1>2. replies[n] = <<>>
  BY <1>1 DEF Inv, Answers
<1>3. /\ \A m \in Numbers : m # n => replies'[m] = replies[m]
      /\ Len(replies'[n]) <= 1
      /\ replies' \in [Numbers -> Seq(Kinds)]
      /\ at' = "finish" => replies'[n] = <<"result">>
  <2>1. CASE UNCHANGED replies /\ at' = "ended"
    BY <1>2, <2>1 DEF Inv, TypeOK, Kinds
  <2>2. CASE Reply(n, "result")
    BY <1>2, <2>2, ReplyStep DEF Inv, Kinds
  <2> QED
    BY <1>1, <2>1, <2>2
<1>4. reqs \in Nat /\ n \in 1..reqs
  <2>1. ~(n > reqs)
    BY <1>1 DEF Inv, Unread
  <2> QED
    BY <2>1, ConnectionAssumption DEF Inv, TypeOK, Numbers
<1>5. TypeOK'
  BY <1>1, <1>3 DEF Inv, TypeOK, Kinds, ProtocolError
<1>6. Unread'
  BY <1>1, <1>3, <1>4 DEF Inv, Unread
<1>7. Entries' /\ Registered' /\ ShutdownCancelsAll' /\ CancelExact' /\ NoStrayCancel'
  BY <1>1 DEF Inv, Entries, Registered, ShutdownCancelsAll, CancelExact, NoStrayCancel
<1>8. Answers'
  BY <1>1, <1>3 DEF Inv, Answers
<1>9. Children' = {}
  BY <1>1 DEF Inv, Phases, Early, Children
<1>10. Phases'
  BY <1>1, <1>3, <1>4, <1>9 DEF Inv, Phases, Early
<1>11. InitializeFirst'
  BY <1>9 DEF InitializeFirst
<1>12. CleanExit'
  BY <1>1 DEF Inv, Phases, CleanExit, ExitCode
<1> QED
  BY <1>5, <1>6, <1>7, <1>8, <1>10, <1>11, <1>12 DEF Inv

(* A handler answers, or the main task removes its entry after it has. *)
LEMMA HandlerInv ==
    ASSUME Inv, NEW n \in Numbers, Respond(n) \/ Complete(n)
    PROVE  Inv'
<1>1. /\ at # "ended"
      /\ UNCHANGED <<state, at, outcome, cancelled, shutdown, reqs, request, closed,
                     inherited, named, reused>>
      /\ \E s \in {"answered", "completed"} : handler' = [handler EXCEPT ![n] = s]
      /\ handler[n] \in {"running", "answered"}
  BY DEF Respond, Complete, tableVars, historyVars
<1>2. /\ handler' \in [Numbers -> {"none", "initialize", "rejected", "shutdown", "discarded",
                                   "running", "answered", "completed"}]
      /\ handler'[n] \in {"answered", "completed"}
      /\ \A m \in Numbers : m # n => handler'[m] = handler[m]
  BY <1>1 DEF Inv, TypeOK
<1>3. /\ \A m \in Numbers : m # n => replies'[m] = replies[m]
      /\ Len(replies'[n]) <= 1
      /\ replies' \in [Numbers -> Seq(Kinds)]
  <2>1. CASE UNCHANGED replies
    BY <2>1 DEF Inv, TypeOK, Answers, Kinds
  <2>2. ASSUME NEW kind \in Kinds, Reply(n, kind), handler[n] = "running"
        PROVE  /\ \A m \in Numbers : m # n => replies'[m] = replies[m]
               /\ Len(replies'[n]) <= 1
               /\ replies' \in [Numbers -> Seq(Kinds)]
    <3>1. replies[n] = <<>>
      BY <2>2 DEF Inv, Answers
    <3> QED
      BY <2>2, <3>1, ReplyStep DEF Inv
  <2> QED
    BY <2>1, <2>2 DEF Respond, Complete, Kinds
<1>4. /\ incoming' \in [Ids -> 0..MaxRequests]
      /\ \A j \in Ids : incoming'[j] \in {incoming[j], None}
      /\ \A j \in Ids : j # request[n].id => incoming'[j] = incoming[j]
      /\ handler'[n] = "answered" => incoming' = incoming
  <2>1. CASE Respond(n)
    BY <2>1 DEF Respond, tableVars, Inv, TypeOK
  <2>2. CASE Complete(n)
    <3>1. incoming' = [incoming EXCEPT ![request[n].id] = None]
      BY <2>2 DEF Complete
    <3>2. incoming \in [Ids -> 0..MaxRequests] /\ None \in 0..MaxRequests
      BY ConnectionAssumption DEF Inv, TypeOK, None
    <3>3. handler'[n] = "completed"
      BY <2>2 DEF Complete, Inv, TypeOK
    <3> QED
      BY <3>1, <3>2, <3>3
  <2> QED
    BY <2>1, <2>2
<1>5. ~(n > reqs) /\ request[n].id \in Ids
  BY <1>1 DEF Inv, Unread, Entries
<1>6. TypeOK'
  BY <1>1, <1>2, <1>3, <1>4 DEF Inv, TypeOK, Kinds
<1>7. Unread'
  BY <1>1, <1>2, <1>3, <1>5 DEF Inv, Unread
<1>8. Entries'
  BY <1>1, <1>2, <1>4, <1>5 DEF Inv, Entries
<1>9. Answers'
  BY <1>1, <1>2, <1>3 DEF Inv, Answers
<1>10. Registered'
  <2> SUFFICES ASSUME ~reused, NEW m \in Numbers, handler'[m] \in {"running", "answered"}
               PROVE  incoming'[request[m].id] = m
    BY <1>1 DEF Registered
  <2>1. handler[m] \in {"running", "answered"}
    BY <1>1, <1>2
  <2>2. incoming[request[m].id] = m /\ incoming[request[n].id] = n /\ request[m].id \in Ids
    BY <1>1, <2>1 DEF Inv, Registered, Entries
  <2> QED
    BY <1>2, <1>4, <2>2
<1>11. Children' = Children
  BY <1>1, <1>2 DEF Children
<1>12. \A m \in Numbers : /\ handler'[m] = "shutdown" <=> handler[m] = "shutdown"
                          /\ handler'[m] = "initialize" <=> handler[m] = "initialize"
                          /\ handler'[m] = "running" => handler[m] = "running"
  BY <1>1, <1>2
<1>13. \A m \in Numbers : handler[m] = "initialize" /\ replies[m] = <<"result">> =>
                          handler'[m] = "initialize" /\ replies'[m] = <<"result">>
  BY <1>1, <1>2, <1>3
<1>14. Phases'
  <2>1. at \in {"finish", "loop", "loopBlocked"} =>
            \E m \in 1..reqs' : handler'[m] = "initialize" /\ replies'[m] = <<"result">>
    <3>1. 1..reqs \subseteq Numbers
      BY ConnectionAssumption DEF Inv, TypeOK, Numbers
    <3> QED
      BY <1>1, <1>13, <3>1 DEF Inv, Phases
  <2> QED
    BY <1>1, <1>11, <1>12, <2>1 DEF Inv, Phases
<1>15. InitializeFirst'
  <2> SUFFICES ASSUME NEW m \in Children
               PROVE \E k \in 1..(m - 1) : handler'[k] = "initialize" /\ replies'[k] = <<"result">>
    BY <1>11 DEF InitializeFirst
  <2>1. 1..(m - 1) \subseteq Numbers
    BY ConnectionAssumption DEF Children, Numbers
  <2> QED
    BY <1>13, <2>1 DEF Inv, InitializeFirst
<1>16. ShutdownCancelsAll' /\ CancelExact' /\ NoStrayCancel'
  BY <1>1, <1>12 DEF Inv, TypeOK, ShutdownCancelsAll, CancelExact, NoStrayCancel
<1>17. CleanExit'
  BY <1>1 DEF Inv, Phases, CleanExit, ExitCode
<1> QED
  BY <1>6, <1>7, <1>8, <1>9, <1>10, <1>14, <1>15, <1>16, <1>17 DEF Inv

(* Nothing happens. *)
LEMMA StutterInv ==
    ASSUME Inv, UNCHANGED vars
    PROVE  Inv'
<1>1. UNCHANGED <<tableVars, requestVars, inherited, historyVars>>
      /\ UNCHANGED <<state, at, outcome, closed>>
  BY DEF vars
<1>2. TypeOK' /\ Answers' /\ CleanExit'
  BY <1>1 DEF Inv, TypeOK, Answers, CleanExit, tableVars, requestVars, historyVars
<1>3. Phases'
  BY <1>1, Frame DEF Inv, Phases, tableVars, requestVars
<1> QED
  BY <1>1, <1>2, <1>3, Frame DEF Inv

---------------------------------------------------------------------------
(* The invariant is inductive: the theorems below are its consequences. *)
THEOREM Invariance == Spec => []Inv
<1>1. Inv /\ [Next]_vars => Inv'
  <2> SUFFICES ASSUME Inv, [Next]_vars PROVE Inv'
    OBVIOUS
  <2>1. ASSUME NEW i \in Ids,
               WithRequestQueue(i) \/ InitializeStart(i) \/ HandleShutdown(i) \/ RouteCancel(i)
        PROVE  Inv'
    <3>1. "work" \in Methods
      BY DEF Methods
    <3> QED
      BY <2>1, <3>1, StartInv, UnhandledInv, ShutdownInv, CancelInv
  <2>2. ASSUME NEW i \in Ids, NEW method \in Methods,
               RejectRequest(method, i) \/ RouteRequest(method, i) \/ DiscardRequest(method, i)
        PROVE  Inv'
    BY <2>2, StartInv, UnhandledInv
  <2>3. ASSUME NEW n \in Numbers, InitializeFinish(n) \/ Respond(n) \/ Complete(n)
        PROVE  Inv'
    BY <2>3, InitializeFinishInv, HandlerInv
  <2>4. CASE \/ ExitBeforeInitialize \/ Initialized \/ InitializeFails \/ HandleExit
             \/ LoopEnds \/ SendRequest \/ SendRequestReturns \/ DrainDies
    BY <2>4, MoveInv
  <2>5. CASE UNCHANGED vars
    BY <2>5, StutterInv
  <2> QED
    BY <2>1, <2>2, <2>3, <2>4, <2>5 DEF Next
<1> QED
  BY <1>1, InitInv, PTL DEF Spec

(* The type invariant of the connection. *)
THEOREM TypeCorrect == Spec => []TypeOK
<1>1. Inv => TypeOK
  BY DEF Inv
<1> QED
  BY <1>1, Invariance, PTL

(* No request is answered twice: initialize_start, initialize_finish, the  *)
(* shutdown handler and the request handlers never meet the same request.  *)
THEOREM AnsweredOnce == Spec => []OneReply
<1>1. Inv => OneReply
  BY DEF Inv, Answers, OneReply
<1> QED
  BY <1>1, Invariance, PTL

(* handle_shutdown and the child tokens of route() leave no handler of     *)
(* this connection running uncancelled.                                    *)
THEOREM ShutdownReachesAll == Spec => []ShutdownCancelsAll
<1>1. Inv => ShutdownCancelsAll
  BY DEF Inv
<1> QED
  BY <1>1, Invariance, PTL

(* While ids are not reused before complete(), incoming.cancel() cancels   *)
(* exactly the tokens that $/cancelRequest names.                          *)
THEOREM CancelIsExact == Spec => []CancelExact
<1>1. Inv => CancelExact
  BY DEF Inv
<1> QED
  BY <1>1, Invariance, PTL

(* However ids are reused, incoming.cancel() hits no handler that was not  *)
(* named in a $/cancelRequest.                                             *)
THEOREM CancelNeverStrays == Spec => []NoStrayCancel
<1>1. Inv => NoStrayCancel
  BY DEF Inv
<1> QED
  BY <1>1, Invariance, PTL

(* handle_exit's exit code tells whether handle_shutdown was called. *)
THEOREM ExitIsClean == Spec => []CleanExit
<1>1. Inv => CleanExit
  BY DEF Inv
<1> QED
  BY <1>1, Invariance, PTL

(* route() never starts a handler before initialize_finish has answered. *)
THEOREM NoHandlerBeforeInitialize == Spec => []InitializeFirst
<1>1. Inv => InitializeFirst
  BY DEF Inv
<1> QED
  BY <1>1, Invariance, PTL
===========================================================================
