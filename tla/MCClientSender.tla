-------------------------- MODULE MCClientSender --------------------------
(* Small instances of ClientSender for TLC. *)
EXTENDS ClientSender, TLC

CONSTANTS c1, c2, c3, w1, w2, h1, h2

OneHandle == [c \in Callers |-> h1]
TwoHandles == [c \in Callers |-> IF c = c2 THEN h2 ELSE h1]

(* c1 and c3 are clones of one handle, c2 is not *)
Clones == Permutations({c1, c3})
===========================================================================
