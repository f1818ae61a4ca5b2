----------------------------- MODULE Blocking -----------------------------
(***************************************************************************)
(* The deprecated Connection::send_request beside ClientSender and the     *)
(* request_queue.outgoing table: the main task stops routing, reads the    *)
(* receiver itself and discards every message but the response with its    *)
(* own id.  A waiter is either registered in the table or makes one        *)
(* send_request call; while it waits the router is "blocked".              *)
(***************************************************************************)
EXTENDS ClientSender

(* conn.send fails: Err(Io), nothing is read *)
SendRequestFails(w, i) ==
    /\ router = "read" /\ pc[w] = "idle"
    /\ ~ChannelOpen
    /\ pc' = [pc EXCEPT ![w] = "done"]
    /\ id' = [id EXCEPT ![w] = i]
    /\ result' = [result EXCEPT ![w] = "io"]
    /\ UNCHANGED <<counter, tries, mapVars, linkVars, clientVars, routeVars>>

SendRequestBlocks(w, i) ==
    /\ router = "read" /\ pc[w] = "idle"
    /\ Enqueue(RequestMsg(w, i))
    /\ pc' = [pc EXCEPT ![w] = "blocked"]
    /\ id' = [id EXCEPT ![w] = i]
    /\ router' = "blocked"
    /\ UNCHANGED <<counter, tries, result, mapVars, posts, drain, clientVars, current, verdict>>

Return(w, outcome) ==
    /\ pc[w] = "blocked"
    /\ pc' = [pc EXCEPT ![w] = "done"]
    /\ result' = [result EXCEPT ![w] = outcome]
    /\ router' = "read"

(* the response with its id *)
BlockedReads(w) ==
    /\ inbound # <<>> /\ Head(inbound).id = id[w]
    /\ inbound' = Tail(inbound)
    /\ Return(w, "ok")
    /\ inbox' = [inbox EXCEPT ![w] = Head(inbound).from]
    /\ UNCHANGED <<counter, id, tries, pending, outgoing, linkVars, peer, atClient,
                   answered, current, verdict>>

(* mutant: the entry of the call it answers goes with the response *)
BlockedDiscardsEntry(w) ==
    /\ pc[w] = "blocked"
    /\ inbound # <<>> /\ Head(inbound).id # id[w]
    /\ inbound' = Tail(inbound)
    /\ pending' = [i \in Ids |-> IF i = Head(inbound).id THEN Nobody ELSE pending[i]]
    /\ verdict' = [verdict EXCEPT ![Head(inbound).from] = "discarded"]
    /\ UNCHANGED <<callerVars, outgoing, inbox, linkVars, peer, atClient, answered,
                   router, current>>

(* any other response: neither table is looked at *)
BlockedDiscards(w) ==
    /\ pc[w] = "blocked"
    /\ inbound # <<>> /\ Head(inbound).id # id[w]
    /\ inbound' = Tail(inbound)
    /\ verdict' = [verdict EXCEPT ![Head(inbound).from] = "discarded"]
    /\ UNCHANGED <<callerVars, mapVars, linkVars, peer, atClient, answered, router, current>>

(* the timeout, an error or the end of the stream *)
BlockedEnds(w) ==
    /\ \/ Return(w, "gaveup")
       \/ inbound = <<>> /\ peer = "closed" /\ Return(w, "disconnected")
    /\ UNCHANGED <<counter, id, tries, mapVars, linkVars, clientVars, current, verdict>>

---------------------------------------------------------------------------
NextBlocking ==
    \/ Next
    \/ \E w \in Waiters :
         \/ \E i \in WaiterIds : SendRequestFails(w, i) \/ SendRequestBlocks(w, i)
         \/ BlockedReads(w) \/ BlockedDiscards(w) \/ BlockedEnds(w)

SpecBlocking == Init /\ [][NextBlocking]_vars

---------------------------------------------------------------------------
(* The only answers that disappear are those read by a send_request that   *)
(* was waiting for another one: the calls they answer keep their entries,  *)
(* and wait for their own timeout.                                         *)
DiscardedStillWaits ==
    IdsDistinct => \A c \in Callers : verdict[c] = "discarded" =>
        pending[id[c]] = c \/ result[c] \in {"gaveup", "disconnected"}
===========================================================================
