----------------------------- MODULE MCBlocking -----------------------------
(* A small instance of Blocking for TLC. *)
EXTENDS Blocking, MCClientSender

Alike == Permutations({w1, w2})
===========================================================================
