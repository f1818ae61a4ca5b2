--------------------------- MODULE MCConnection ---------------------------
(* Connection for TLC, with the unit tests of lifecycle.rs. *)
EXTENDS Connection

ASSUME LifecycleTestsPass == RequestAllowedTests /\ NotificationAllowedTests
===========================================================================
