---------------------------- MODULE Connection ----------------------------
(***************************************************************************)
(* The lifecycle of a Connection and the requests it receives:             *)
(* initialize_start, initialize_finish, the main loop around route(),      *)
(* handle_shutdown, handle_exit, and the IncomingRequests table with one   *)
(* CancellationToken per request, each a child of shutdown_token.          *)
(*                                                                         *)
(* The main task is the only one that reads messages and owns the table.   *)
(* Request handlers run concurrently with it: they hold a token, answer    *)
(* through ClientSender::respond, and the main task removes the table      *)
(* entry once the handler has answered, in the order of                    *)
(* examples/formatter_server.rs (respond, then complete).                  *)
(*                                                                         *)
(* Requests are numbered in the order they are read; number and id are     *)
(* different things, since a client may use an id again once the first     *)
(* request has been answered.  What the client sends is chosen when it is  *)
(* read: any message, at any time.                                         *)
(*                                                                         *)
(* The main task may call the deprecated send_request, which reads and     *)
(* discards everything but the response it waits for.                      *)
(***************************************************************************)
EXTENDS Naturals, Sequences, Lifecycle

CONSTANTS
    Ids,          \* request ids the client uses
    MaxRequests   \* bound on the requests the client sends

Numbers == 1..MaxRequests
None == 0         \* no request, no id

ASSUME ConnectionAssumption ==
    /\ MaxRequests \in Nat
    /\ None \notin Ids

VARIABLES
    state,      \* lifecycle_state
    at,         \* where the main task is
    outcome,    \* how initialize, or the main loop, ended
    reqs,       \* number of requests read
    request,    \* number -> id and method of the request
    incoming,   \* IncomingRequests.pending: id -> number of the request
    cancelled,  \* requests whose token is cancelled
    shutdown,   \* shutdown_token is cancelled
    handler,    \* what became of each request
    replies,    \* responses sent for each request
    closed,     \* the drain task is gone: every send fails
    inherited,  \* requests of the queue given to with_request_queue
    named,      \* history: running requests a $/cancelRequest has named
    reused      \* history: an id was registered again before complete()

tableVars == <<incoming, cancelled, shutdown>>
requestVars == <<reqs, request, handler, replies>>
historyVars == <<named, reused>>
vars == <<state, at, outcome, tableVars, requestVars, closed, inherited, historyVars>>

(* Connection::new *)
Init ==
    /\ state = "Uninitialized"
    /\ at = "start"
    /\ outcome = "none"
    /\ reqs = 0
    /\ request = [n \in Numbers |-> [id |-> None, method |-> "none"]]
    /\ incoming = [i \in Ids |-> None]
    /\ cancelled = {}
    /\ shutdown = FALSE
    /\ handler = [n \in Numbers |-> "none"]
    /\ replies = [n \in Numbers |-> <<>>]
    /\ closed = FALSE
    /\ inherited = {}
    /\ named = {}
    /\ reused = FALSE

---------------------------------------------------------------------------
Methods == {"initialize", "shutdown", "work"}

(* receiver.next() yields a request.  An LSP client does not use an id     *)
(* again while a request with that id is unanswered.                       *)
Read(method, i, fate) ==
    /\ reqs < MaxRequests
    /\ \A m \in Numbers : request[m].id = i => replies[m] # <<>>
    /\ reqs' = reqs + 1
    /\ request' = [request EXCEPT ![reqs + 1] = [id |-> i, method |-> method]]
    /\ handler' = [handler EXCEPT ![reqs + 1] = fate]

(* Connection::send of a response, when the channel is open *)
Reply(n, kind) == replies' = [replies EXCEPT ![n] = Append(@, kind)]

End(why) ==
    /\ at' = "ended"
    /\ outcome' = why

---------------------------------------------------------------------------
(* initialize_start and initialize_finish.  Notifications other than the   *)
(* ones below, and responses, are read and dropped: no state changes.      *)

(* mutant: the handshake goes on without the InitializeResult *)
InitializeStartUnanswered(i) ==
    /\ at = "start"
    /\ Read("initialize", i, "initialize")
    /\ state' = "Initializing"
    /\ at' = "finish"
    /\ UNCHANGED <<outcome, tableVars, replies, closed, inherited, historyVars>>

(* with_request_queue: a queue that already holds a request, whose token   *)
(* is no child of this connection's shutdown_token                         *)
WithRequestQueue(i) ==
    /\ at = "start" /\ reqs = 0 /\ ~closed
    /\ Read("work", i, "running")
    /\ incoming' = [incoming EXCEPT ![i] = 1]
    /\ inherited' = {1}
    /\ UNCHANGED <<state, at, outcome, cancelled, shutdown, replies, closed, historyVars>>

InitializeStart(i) ==
    /\ at = "start"
    /\ Read("initialize", i, "initialize")
    /\ state' = "Initializing"
    /\ at' = "started"
    /\ UNCHANGED <<outcome, tableVars, replies, closed, inherited, historyVars>>

(* mutant: a request before its time is dropped like a notification *)
RejectRequestDropped(method, i) ==
    /\ at \in {"start", "finish"} /\ method # "initialize"
    /\ Read(method, i, "rejected")
    /\ UNCHANGED <<state, at, outcome, tableVars, replies, closed, inherited, historyVars>>

(* A request before its time is answered ServerNotInitialized; when that   *)
(* cannot be sent, initialize returns the I/O error.                       *)
RejectRequest(method, i) ==
    /\ \/ at = "start" /\ method # "initialize"
       \/ at = "finish"
    /\ Read(method, i, "rejected")
    /\ \/ ~closed /\ Reply(reqs + 1, "notInitialized") /\ UNCHANGED <<at, outcome>>
       \/ closed /\ End("io") /\ UNCHANGED replies
    /\ UNCHANGED <<state, tableVars, closed, inherited, historyVars>>

(* The exit notification: initialize_start returns Disconnected, as it     *)
(* does at the end of the stream, and leaves the state at Uninitialized.   *)
ExitBeforeInitialize ==
    /\ at = "start"
    /\ End("disconnected")
    /\ UNCHANGED <<state, tableVars, requestVars, closed, inherited, historyVars>>

InitializeFinish(n) ==
    /\ at = "started"
    /\ handler[n] = "initialize"
    /\ \/ ~closed /\ Reply(n, "result") /\ at' = "finish" /\ UNCHANGED outcome
       \/ closed /\ End("io") /\ UNCHANGED replies
    /\ UNCHANGED <<state, tableVars, reqs, request, handler, closed, inherited, historyVars>>

Initialized ==
    /\ at = "finish"
    /\ state' = "Running"
    /\ at' = "loop"
    /\ UNCHANGED <<outcome, tableVars, requestVars, closed, inherited, historyVars>>

(* a decoding error, the end of the stream, the 60 s timer *)
InitializeFails ==
    /\ \/ at = "start" /\ \E why \in {"io", "disconnected"} : End(why)
       \/ at = "finish" /\ \E why \in {"io", "disconnected", "initializeTimeout"} : End(why)
    /\ UNCHANGED <<state, tableVars, requestVars, closed, inherited, historyVars>>

---------------------------------------------------------------------------
(* route(): the request and $/cancelRequest arms.  No lifecycle check.     *)

(* mutant: CancellationToken::new() *)
ChildTokenNew(n) == UNCHANGED cancelled

(* shutdown_token.child_token(): born cancelled if the parent is *)
ChildToken(n) == cancelled' = IF shutdown THEN cancelled \cup {n} ELSE cancelled

(* requests whose token is a child of shutdown_token *)
Children ==
    {n \in Numbers \ inherited :
        handler[n] \in {"running", "answered", "completed", "shutdown"}}

(* incoming.register(id, token) *)
Register(i, n) == incoming' = [incoming EXCEPT ![i] = n]

NoteReuse(i) ==
    reused' = (reused \/ \E m \in Numbers :
                             incoming[i] = m /\ handler[m] \in {"running", "answered"})

RouteRequest(method, i) ==
    /\ at = "loop"
    /\ method # "shutdown"
    /\ Read(method, i, "running")
    /\ ChildToken(reqs + 1)
    /\ Register(i, reqs + 1)
    /\ NoteReuse(i)
    /\ UNCHANGED <<state, at, outcome, shutdown, replies, closed, inherited, named>>

(* mutant: no continue after handle_shutdown *)
HandleShutdownFallsThrough(i) ==
    /\ at = "loop"
    /\ Read("shutdown", i, "running")
    /\ Register(i, reqs + 1)
    /\ NoteReuse(i)
    /\ shutdown' = TRUE
    /\ cancelled' = cancelled \cup Children \cup {reqs + 1}
    /\ state' = "ShuttingDown"
    /\ Reply(reqs + 1, "result")
    /\ UNCHANGED <<at, outcome, closed, inherited, named>>

(* route(), then handle_shutdown(): the token and all its children, the    *)
(* state, the null response (an error of send is ignored, .ok()).  The     *)
(* table entry of the shutdown request stays.                              *)
HandleShutdown(i) ==
    /\ at = "loop"
    /\ Read("shutdown", i, "shutdown")
    /\ Register(i, reqs + 1)
    /\ NoteReuse(i)
    /\ shutdown' = TRUE
    /\ cancelled' = cancelled \cup Children \cup {reqs + 1}
    /\ state' = "ShuttingDown"
    /\ IF closed THEN UNCHANGED replies ELSE Reply(reqs + 1, "result")
    /\ UNCHANGED <<at, outcome, closed, inherited, named>>

Named(i) ==
    named' = named \cup {n \in Numbers : handler[n] = "running" /\ request[n].id = i}

(* mutant: an id that is not pending is not told apart *)
RouteCancelUnchecked(i) ==
    /\ at = "loop"
    /\ cancelled' = cancelled \cup {incoming[i]}
    /\ Named(i)
    /\ UNCHANGED <<state, at, outcome, incoming, shutdown, requestVars, closed, inherited, reused>>

(* mutant: the entry is removed, its token is not cancelled *)
RouteCancelRemoves(i) ==
    /\ at = "loop"
    /\ incoming' = [incoming EXCEPT ![i] = None]
    /\ Named(i)
    /\ UNCHANGED <<state, at, outcome, cancelled, shutdown, requestVars, closed, inherited, reused>>

(* mutant: the parent of the token is cancelled *)
RouteCancelParent(i) ==
    /\ at = "loop"
    /\ cancelled' = cancelled \cup Children
    /\ Named(i)
    /\ UNCHANGED <<state, at, outcome, incoming, shutdown, requestVars, closed, inherited, reused>>

(* $/cancelRequest with an id: incoming.cancel(id).  A malformed one is    *)
(* handed to the application like any notification: no state changes.      *)
RouteCancel(i) ==
    /\ at = "loop"
    /\ cancelled' = IF incoming[i] = None THEN cancelled
                                          ELSE cancelled \cup {incoming[i]}
    /\ Named(i)
    /\ UNCHANGED <<state, at, outcome, incoming, shutdown, requestVars, closed, inherited, reused>>

(* mutant: the exit code does not look at the state *)
HandleExitSuccess ==
    /\ at = "loop"
    /\ state' = "Exited"
    /\ End("success")
    /\ UNCHANGED <<tableVars, requestVars, closed, inherited, historyVars>>

(* the exit notification: handle_exit(), then the process exits *)
HandleExit ==
    /\ at = "loop"
    /\ state' = "Exited"
    /\ End(IF state = "ShuttingDown" THEN "success" ELSE "error")
    /\ UNCHANGED <<tableVars, requestVars, closed, inherited, historyVars>>

(* send_request, from the main loop or while initializing.  It reads the   *)
(* receiver itself until its response, an error or the timeout: requests   *)
(* are read and dropped, and so are $/cancelRequest, exit and initialized. *)

Blocked == {"startedBlocked", "loopBlocked"}

SendRequest ==
    /\ ~closed
    /\ \/ at = "started" /\ at' = "startedBlocked"
       \/ at = "loop" /\ at' = "loopBlocked"
    /\ UNCHANGED <<state, outcome, tableVars, requestVars, closed, inherited, historyVars>>

DiscardRequest(method, i) ==
    /\ at \in Blocked
    /\ Read(method, i, "discarded")
    /\ UNCHANGED <<state, at, outcome, tableVars, replies, closed, inherited, historyVars>>

SendRequestReturns ==
    /\ \/ at = "startedBlocked" /\ at' = "started"
       \/ at = "loopBlocked" /\ at' = "loop"
    /\ UNCHANGED <<state, outcome, tableVars, requestVars, closed, inherited, historyVars>>

(* a decoding error or the end of the stream: the loop ends *)
LoopEnds ==
    /\ at = "loop"
    /\ \E why \in {"io", "disconnected"} : End(why)
    /\ UNCHANGED <<state, tableVars, requestVars, closed, inherited, historyVars>>

---------------------------------------------------------------------------
(* Handlers.  A handler whose token is cancelled answers RequestCancelled  *)
(* if it sees it in time; respond() fails when the channel is closed.      *)

Respond(n) ==
    /\ at # "ended"
    /\ handler[n] = "running"
    /\ handler' = [handler EXCEPT ![n] = "answered"]
    /\ IF closed THEN UNCHANGED replies
       ELSE \/ Reply(n, "result")
            \/ n \in cancelled /\ Reply(n, "cancelled")
    /\ UNCHANGED <<state, at, outcome, tableVars, reqs, request, closed, inherited, historyVars>>

(* incoming.complete(id), by the main task *)
Complete(n) ==
    /\ at = "loop"
    /\ handler[n] = "answered"
    /\ handler' = [handler EXCEPT ![n] = "completed"]
    /\ incoming' = [incoming EXCEPT ![request[n].id] = None]
    /\ UNCHANGED <<state, at, outcome, cancelled, shutdown, reqs, request, replies,
                   closed, inherited, historyVars>>

(* the drain task stops on a write error *)
DrainDies ==
    /\ ~closed
    /\ at # "ended"
    /\ closed' = TRUE
    /\ UNCHANGED <<state, at, outcome, tableVars, requestVars, inherited, historyVars>>

---------------------------------------------------------------------------
Next ==
    \/ \E i \in Ids :
         \/ WithRequestQueue(i) \/ InitializeStart(i)
         \/ \E method \in Methods :
              RejectRequest(method, i) \/ RouteRequest(method, i) \/ DiscardRequest(method, i)
         \/ HandleShutdown(i)
         \/ RouteCancel(i)
    \/ \E n \in Numbers : InitializeFinish(n) \/ Respond(n) \/ Complete(n)
    \/ ExitBeforeInitialize \/ Initialized \/ InitializeFails
    \/ HandleExit \/ LoopEnds
    \/ SendRequest \/ SendRequestReturns
    \/ DrainDies

(* Handlers terminate, the runtime polls handlers and the main task, and   *)
(* send_request has a timeout.  Strong fairness: an application that calls *)
(* send_request while initializing does so only so often.                  *)
Fairness ==
    /\ \A n \in Numbers : SF_vars(InitializeFinish(n)) /\ WF_vars(Respond(n))
    /\ WF_vars(SendRequestReturns)

Spec == Init /\ [][Next]_vars
FairSpec == Spec /\ Fairness

---------------------------------------------------------------------------
(* The type invariant. *)
TypeOK ==
    /\ state \in LifecycleState
    /\ at \in {"start", "started", "finish", "loop", "ended"} \cup Blocked
    /\ outcome \in {"none"} \cup ExitCode \cup ProtocolError
    /\ reqs \in 0..MaxRequests
    /\ request \in [Numbers -> [id : Ids \cup {None}, method : Methods \cup {"none"}]]
    /\ incoming \in [Ids -> 0..MaxRequests]
    /\ cancelled \subseteq Numbers
    /\ shutdown \in BOOLEAN
    /\ handler \in [Numbers -> {"none", "initialize", "rejected", "shutdown", "discarded",
                                "running", "answered", "completed"}]
    /\ replies \in [Numbers -> Seq({"result", "notInitialized", "cancelled"})]
    /\ closed \in BOOLEAN
    /\ inherited \subseteq Numbers
    /\ named \subseteq Numbers
    /\ reused \in BOOLEAN

(* No request is answered twice, whichever of the rejecting loops, the     *)
(* shutdown handler and the request handlers meets it.                     *)
OneReply == \A n \in Numbers : Len(replies[n]) <= 1

(* Shutdown reaches every handler: those running when handle_shutdown      *)
(* cancels shutdown_token, and those route() starts afterwards.  Requests  *)
(* that came with the queue of with_request_queue are not reached.         *)
ShutdownCancelsAll ==
    shutdown => \A n \in Numbers \ inherited : handler[n] = "running" => n \in cancelled

(* The token of a running handler is cancelled exactly when the client     *)
(* named its request in a $/cancelRequest that route() was given, or the   *)
(* server is shutting down, as long as the client never uses an id again   *)
(* before complete() has removed the old entry.                            *)
CancelExact ==
    ~reused /\ ~shutdown =>
        \A n \in Numbers : handler[n] = "running" => (n \in cancelled <=> n \in named)

(* Reusing an id never makes a cancellation hit a handler that was not     *)
(* named: what a late complete() can do is lose the new entry.             *)
NoStrayCancel ==
    ~shutdown => \A n \in cancelled : handler[n] = "running" => n \in named

(* The exit code is Success exactly when a shutdown request was handled    *)
(* (not one that was rejected, or discarded by send_request), and then     *)
(* every handler still running has been told to stop.                      *)
CleanExit ==
    outcome \in ExitCode =>
        /\ outcome = "success" <=> \E n \in Numbers : handler[n] = "shutdown"
        /\ outcome = "success" => \A n \in Numbers \ inherited :
               handler[n] = "running" => n \in cancelled

(* No handler starts before the client has been sent the result of         *)
(* initialize.                                                             *)
InitializeFirst ==
    \A n \in Children :
        \E m \in 1..(n - 1) : handler[m] = "initialize" /\ replies[m] = <<"result">>

(* Every request that is read is answered, unless the server ends or its   *)
(* output is broken; only send_request discards requests.                  *)
EveryRequestAnswered ==
    \A n \in Numbers :
        handler[n] \notin {"none", "discarded"} ~> (replies[n] # <<>> \/ closed \/ at = "ended")

(* "No requests are allowed. Only the exit notification is valid. Any      *)
(* other messages should be rejected" (LifecycleState::ShuttingDown): a    *)
(* request that is read reaches a handler only in a state that allows its  *)
(* method.                                                                 *)
OnlyAllowedHandled ==
    [][\A n \in Numbers \ inherited' : handler[n] = "none" /\ handler'[n] = "running" =>
           IsRequestAllowed(state, request'[n].method)]_vars
===========================================================================
