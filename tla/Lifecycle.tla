----------------------------- MODULE Lifecycle -----------------------------
(* lifecycle.rs: the states of a connection, what its validation methods   *)
(* allow in each of them, and how a session ends.                          *)

LifecycleState == {"Uninitialized", "Initializing", "Running", "ShuttingDown", "Exited"}

(* is_request_allowed *)
IsRequestAllowed(s, method) ==
    \/ s = "Uninitialized" /\ method = "initialize"
    \/ s = "Running" /\ method # "initialize"

(* is_notification_allowed *)
IsNotificationAllowed(s, method) ==
    \/ s \in {"Uninitialized", "ShuttingDown"} /\ method = "exit"
    \/ s = "Initializing" /\ method = "initialized"
    \/ s = "Running"

ExitCode == {"success", "error"}

(* the variants of ProtocolError that the code returns *)
ProtocolError == {"disconnected", "io", "initializeTimeout", "requestTimeout"}

---------------------------------------------------------------------------
(* The unit tests of lifecycle.rs: in each state, the methods that are     *)
(* allowed among the ones they try.                                        *)

AllowedRequests(s) ==
    {m \in {"initialize", "shutdown", "hover"} : IsRequestAllowed(s, m)}
AllowedNotifications(s) ==
    {m \in {"exit", "initialized", "didOpen"} : IsNotificationAllowed(s, m)}

RequestAllowedTests ==
    /\ AllowedRequests("Uninitialized") = {"initialize"}
    /\ AllowedRequests("Running") = {"shutdown", "hover"}
    /\ \A s \in {"Initializing", "ShuttingDown", "Exited"} : AllowedRequests(s) = {}

NotificationAllowedTests ==
    /\ AllowedNotifications("Uninitialized") = {"exit"}
    /\ AllowedNotifications("Initializing") = {"initialized"}
    /\ AllowedNotifications("Running") = {"exit", "initialized", "didOpen"}
    /\ AllowedNotifications("ShuttingDown") = {"exit"}
    /\ AllowedNotifications("Exited") = {}
===========================================================================
