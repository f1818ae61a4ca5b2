-------------------------- MODULE RequestResponse --------------------------
(***************************************************************************)
(* What ClientSender::request promises its caller, with no ids, maps,      *)
(* channels or tasks: a call returns at most once; it returns a response   *)
(* only if the client answered that very call; it reports Disconnected     *)
(* only if the link is down; and once it can return it does.               *)
(*                                                                         *)
(* There is no promise without a reader: when the application's loop       *)
(* breaks off on a read error, the answers it has not come to are lost,    *)
(* and a call without a timeout then waits until the link is down.         *)
(***************************************************************************)
CONSTANT Callers

VARIABLES
    call,      \* state of each call: idle, active, or its outcome
    answered,  \* calls the client has answered, to a server that reads on
    link,      \* whether requests can still be sent
    reader     \* whether the server still reads

vars == <<call, answered, link, reader>>

Init ==
    /\ call = [c \in Callers |-> "idle"]
    /\ answered = {}
    /\ link = "up"
    /\ reader = "on"

Begin(c) ==
    /\ call[c] = "idle"
    /\ call' = [call EXCEPT ![c] = "active"]
    /\ UNCHANGED <<answered, link, reader>>

Return(c, outcome) ==
    /\ call[c] = "active"
    /\ call' = [call EXCEPT ![c] = outcome]
    /\ UNCHANGED <<answered, link, reader>>

Succeed(c) == c \in answered /\ Return(c, "ok")
Fail(c) == link = "down" /\ Return(c, "disconnected")
GiveUp(c) == Return(c, "gaveup")
Reject(c) == Return(c, "io")

Answer(c) ==
    /\ reader = "on"
    /\ call[c] # "idle"
    /\ answered' = answered \cup {c}
    /\ UNCHANGED <<call, link, reader>>

Break ==
    /\ link' = "down"
    /\ UNCHANGED <<call, answered, reader>>

(* some answers have been read, the others are lost *)
StopReading ==
    /\ reader = "on"
    /\ reader' = "off"
    /\ answered' \in SUBSET answered
    /\ UNCHANGED <<call, link>>

Next ==
    \/ \E c \in Callers : \/ Begin(c) \/ Answer(c) \/ Succeed(c)
                          \/ Fail(c) \/ GiveUp(c) \/ Reject(c)
    \/ Break \/ StopReading

Spec == Init /\ [][Next]_vars
FairSpec == Spec /\ \A c \in Callers : WF_vars(Succeed(c) \/ Fail(c))
===========================================================================
